---------------------------- MODULE ParserProofs ----------------------------
(***************************************************************************)
(* The properties of Parser hold for all texts: for any tokens, names and  *)
(* openings and for every MaxTokens.                                       *)
(*                                                                         *)
(* The inductive invariant says which call may wait for which (the grammar *)
(* of the C++ call stack), what every call in progress owns, and that the  *)
(* nodes of the calls, of the open domains and of the value on its way add *)
(* up to the nodes alive.  Its parts are predicates of values, not of the  *)
(* variables: a lemma about a kind of step is used with the stack before   *)
(* the step and the one after it.  Steps are alike in what they do to the  *)
(* stack and to the domains: they go on, open a domain, add to one or      *)
(* close it; every action is one of these, or two of them in a row.        *)
(***************************************************************************)
EXTENDS Parser, SumProofs

-----------------------------------------------------------------------------
(* The inductive invariant.                                                 *)

Weight(s)  == Sum([k \in DOMAIN s |-> s[k].size])

\* The domains a call in progress has opened: they stay with it until it leaves.
OpenedBy(f) ==
    CASE f.pc \in {"close", "functionEnd", "structEnd", "structDone", "forStart", "forCond",
                   "forStep"} -> 1
      [] f.pc = "part" -> IF f.part = "loop" THEN 1 ELSE 0
      [] f.pc \in {"block", "line"} -> IF f.part = "loop" THEN 2 ELSE 1
      [] OTHER -> 0
Domains(s) == Sum([k \in DOMAIN s |-> OpenedBy(s[k])])
Runs(s)    == \E u \in Suffixes(s) : Head(u).pc = "functionEnd"

\* The places of the code, by what may wait for them to return.
LinePlaces == {"single", "value", "varSize", "varValue", "varName", "varRest", "varNext",
               "externEnd", "structEnd", "structDone", "return"}
DeclarationPlaces == {"args", "argName", "argEnd", "argArray", "argComma", "body", "functionEnd"}
CompoundPlaces == {"for", "part", "else", "block", "line", "forStart", "ifCond", "forCond",
                   "forStep"}
ListPlaces    == {"domain", "open", "repeat", "close"}
OperandPlaces == {"simple", "init", "call", "postfix", "dot", "operator", "right", "combine",
                  "not", "paren", "initArg", "callArg", "index"}
ChoicePlaces  == {"colon", "selectEnd"}

\* The places that wait for an expression, a statement or a list of statements.
ValueWaits == {"operator", "right", "combine", "colon", "selectEnd", "not", "paren", "initArg",
               "callArg", "index", "value", "varSize", "varValue", "ifCond", "forCond", "forStep"}
StatementWaits == {"root", "repeat", "line", "forStart"}
ListWaits      == {"functionEnd", "structEnd", "block", "close"}
Waits   == ValueWaits \union StatementWaits \union ListWaits \union {"keep"}
Carries == ValueWaits \union {"keep", "postfix"}

Kind(pc) ==
    CASE pc = "root" -> "root"
      [] pc \in LinePlaces -> "line"
      [] pc \in DeclarationPlaces -> "declaration"
      [] pc = "keep" -> "kept"
      [] pc \in CompoundPlaces -> "compound"
      [] pc \in ListPlaces -> "list"
      [] pc \in OperandPlaces -> "operand"
      [] pc \in ChoicePlaces -> "choice"
      [] OTHER -> "none"

\* A call of that kind may be made by the innermost of these.
NoValueWaits(t) == \A u \in Suffixes(t) : Head(u).pc \notin ValueWaits
OnStatement(t)  == t # <<>> /\ Head(t).pc \in StatementWaits /\ NoValueWaits(t)
Chooses(t)      == Head(t).pc = "combine" /\ Head(t).select
Fits(kind, t) ==
    \/ kind = "root" /\ t = <<>>
    \/ kind = "line" /\ OnStatement(t)
    \/ kind = "declaration" /\ OnStatement(t) /\ Domains(t) = 0
    \/ kind = "kept" /\ OnStatement(t) /\ Domains(t) > 0
    \/ kind = "compound" /\ t # <<>> /\ Head(t).pc = "keep" /\ NoValueWaits(t) /\ Domains(t) > 0
    \/ kind = "list" /\ t # <<>> /\ Head(t).pc \in ListWaits /\ NoValueWaits(t) /\ Domains(t) > 0
    \/ kind = "operand" /\ t # <<>> /\ Head(t).pc \in ValueWaits /\ ~Chooses(t)
    \/ kind = "choice" /\ t # <<>> /\ Chooses(t)

\* What a call owns, by its place.
OwnsNothing == {"root", "single", "simple", "operator", "for", "keep", "domain", "repeat", "open",
                "close", "init", "postfix", "not", "paren", "initArg", "return", "value",
                "externEnd", "structEnd", "structDone", "body", "functionEnd", "call"}
DeclOK(d) ==
    /\ {"pc", "size", "name", "args", "names"} \subseteq DOMAIN d
    /\ d.pc = "args" /\ d.size \in Nat /\ d.name \in Idents /\ IsSeq(d.args)
FrameOK(f) ==
    /\ {"pc", "size"} \subseteq DOMAIN f /\ f.size \in Nat
    /\ f.pc \in OwnsNothing => f.size = 0
    /\ f.pc \in {"right", "combine"} => f.left.size = f.size
    /\ f.pc = "colon" => f.cond.size = f.size
    /\ f.pc = "selectEnd" => /\ f.cond.size \in Nat /\ f.yes.size \in Nat
                             /\ f.size = f.cond.size + f.yes.size
    /\ f.pc = "dot" => f.base.size = f.size
    /\ f.pc \in {"part", "block", "line"} => "part" \in DOMAIN f /\ f.part \in {"then", "else", "loop"}
    /\ f.pc \in {"body", "functionEnd"} => f.name \in Idents
    /\ f.pc = "args" => DeclOK(f)
    /\ f.pc \in {"argName", "argEnd", "argArray", "argComma"} =>
          "decl" \in DOMAIN f /\ DeclOK(f.decl) /\ f.decl.size = f.size
    /\ f.pc \in {"varName", "varRest", "varSize", "varValue", "varNext"} => "cnt" \in DOMAIN f /\ f.cnt \in Nat

StackOK(s) == IsSeq(s) /\ \A u \in Suffixes(s) : FrameOK(Head(u)) /\ Fits(Kind(Head(u).pc), Tail(u))

ScopeFields == {"kind", "vars", "structs", "externs", "size", "cnt", "rets"}
ScopeOK(d)  == DOMAIN d = ScopeFields /\ d.size \in Nat /\ d.cnt \in Nat
ScopesOK(ss, cf) ==
    /\ IsSeq(ss) /\ ss # <<>>
    /\ \A d \in Suffixes(ss) : /\ ScopeOK(Head(d))
                               /\ Head(d).kind = "root" <=> Len(d) = 1
                               /\ Head(d).kind = "function" => cf # None

ResultOK(r) == r.ok \in BOOLEAN /\ r.size \in Nat /\ (~r.ok => r.size = 0)

\* The value on its way from a call to the one that waits for it.
Flight(f, r) == IF f.pc \in Carries /\ r.ok THEN r.size ELSE 0

Balanced(s, r, ss, es, lv) ==
    /\ Weight(s) + Weight(ss) + Flight(Head(s), r) <= lv
    /\ ~es => lv = Weight(s) + Weight(ss) + Flight(Head(s), r)

\* The head of a for is empty until its first part is read, and then it holds what
\* the assertions say.
Heads(t, ss) ==
    \A u \in Suffixes(t), d \in Suffixes(ss) :
        Head(u).pc = "forStart" /\ Len(d) = 1 + Domains(u) => Head(d).cnt = 0
Conds(t, ss) ==
    \A u \in Suffixes(t) : /\ Head(u).pc = "forCond" => Head(ss).cnt = 1
                           /\ Head(u).pc = "forStep" => Head(ss).cnt = 2
HeadsOK(s, r, ss, es) ==
    /\ Heads(Tail(s), ss) /\ Conds(s, ss)
    /\ Head(s).pc = "forStart" /\ ~r.ok /\ ~es => Head(ss).cnt = 0

Safe(s, r, ss, cf, es, lv) ==
    /\ StackOK(s) /\ s # <<>>
    /\ ScopesOK(ss, cf)
    /\ Len(ss) = 1 + Domains(s)
    /\ cf # None <=> Runs(s)
    /\ ResultOK(r) /\ es \in BOOLEAN /\ lv \in Nat
    /\ es => ~r.ok /\ Head(s).pc \in Waits
    /\ Chooses(s) /\ ~r.ok => es
    /\ Balanced(s, r, ss, es, lv)
    /\ HeadsOK(s, r, ss, es)

FuncsOK(fs) ==
    /\ DOMAIN fs = Idents
    /\ \A n \in Idents : /\ DOMAIN fs[n] = {"known", "ret", "args", "names", "begun", "body"}
                         /\ IsSeq(fs[n].args)

IInv ==
    /\ TypeOK /\ IsSeq(buf) /\ errs \in BOOLEAN
    /\ AcceptedLeaksNothing /\ AssertionsHold
    /\ verdict = "parsing" => /\ failed = 0
                              /\ Safe(stack, ret, scopes, curFunc, errs, live)
                              /\ FuncsOK(funcs)

-----------------------------------------------------------------------------
(* The places.                                                              *)

LEMMA OpenedByNat == ASSUME NEW f PROVE OpenedBy(f) \in 0..2
BY DEF OpenedBy

\* What opens no domain is no function body, nor a part of the head of a for.
LEMMA PlainPlaces ==
  ASSUME NEW f, OpenedBy(f) = 0
  PROVE  f.pc \notin {"functionEnd", "forStart", "forCond", "forStep", "close", "structEnd",
                      "structDone", "block", "line"}
BY DEF OpenedBy

LEMMA KindIs ==
  /\ Kind("root") = "root" /\ Kind("keep") = "kept"
  /\ \A pc \in LinePlaces : Kind(pc) = "line"
  /\ \A pc \in DeclarationPlaces : Kind(pc) = "declaration"
  /\ \A pc \in CompoundPlaces : Kind(pc) = "compound"
  /\ \A pc \in ListPlaces : Kind(pc) = "list"
  /\ \A pc \in OperandPlaces : Kind(pc) = "operand"
  /\ \A pc \in ChoicePlaces : Kind(pc) = "choice"
BY DEF Kind, LinePlaces, DeclarationPlaces, CompoundPlaces, ListPlaces, OperandPlaces, ChoicePlaces

\* The kind of every place that is not a value's.
LEMMA KindOf ==
  ASSUME NEW pc
  PROVE  /\ Kind(pc) = "root" => pc = "root"
         /\ Kind(pc) = "line" => pc \in LinePlaces
         /\ Kind(pc) = "declaration" => pc \in DeclarationPlaces
         /\ Kind(pc) = "kept" => pc = "keep"
         /\ Kind(pc) = "compound" => pc \in CompoundPlaces
         /\ Kind(pc) = "list" => pc \in ListPlaces
         /\ Kind(pc) = "operand" => pc \in OperandPlaces
         /\ Kind(pc) = "choice" => pc \in ChoicePlaces
BY DEF Kind

-----------------------------------------------------------------------------
(* Stacks and domains, built from the head.                                 *)

\* Every element of a sequence, as the head of a suffix or by its index.
LEMMA SizesOfSuffixes ==
  ASSUME NEW s, IsSeq(s), \A u \in Suffixes(s) : Head(u).size \in Nat
  PROVE  /\ [k \in DOMAIN s |-> s[k].size] \in Seq(Nat)
         /\ Len([k \in DOMAIN s |-> s[k].size]) = Len(s)
         /\ Weight(s) \in Nat
<1>1. \A k \in DOMAIN s : s[k].size \in Nat
  BY SuffixParts, Zenon
<1>2. DOMAIN s = 1..Len(s) /\ Len(s) \in Nat
  BY SeqParts
<1> DEFINE m == [k \in 1..Len(s) |-> s[k].size]
<1>3. m \in Seq(Nat) /\ Len(m) = Len(s)
  BY <1>1, <1>2
<1> HIDE DEF m
<1>4. Sum(m) \in Nat
  BY <1>3, SumType
<1>5. QED
  BY <1>2, <1>3, <1>4 DEF m, Weight

LEMMA WeightCons ==
  ASSUME NEW f, NEW t, IsSeq(t), f.size \in Nat, \A u \in Suffixes(t) : Head(u).size \in Nat
  PROVE  Weight(<<f>> \o t) = f.size + Weight(t) /\ Weight(t) \in Nat
<1> DEFINE s == <<f>> \o t
           m == [k \in DOMAIN s |-> s[k].size]
           n == [k \in DOMAIN t |-> t[k].size]
<1>1. IsSeq(s) /\ s[1] = f /\ Len(s) = Len(t) + 1 /\ \A k \in 1..Len(t) : s[k + 1] = t[k]
  BY ConsParts
<1>2. \A u \in Suffixes(s) : Head(u).size \in Nat
  <2>1. Suffixes(s) = {s} \union Suffixes(t) /\ Head(s) = f
    BY SuffixesCons, ConsParts
  <2> HIDE DEF s
  <2>2. QED
    BY <2>1
<1> HIDE DEF s
<1>3. m \in Seq(Nat) /\ Len(m) = Len(s) /\ n \in Seq(Nat) /\ Len(n) = Len(t) /\ Weight(t) \in Nat
  BY <1>1, <1>2, SizesOfSuffixes
<1>4. /\ DOMAIN s = 1..Len(s) /\ DOMAIN t = 1..Len(t) /\ Len(t) \in Nat /\ Len(s) \in Nat
  BY <1>1, SeqParts
<1>5. m[1] = f.size /\ \A k \in 1..Len(t) : m[k + 1] = n[k]
  BY <1>1, <1>4
<1> HIDE DEF m, n
<1>6. Sum(m) = m[1] + Sum(n)
  BY <1>1, <1>3, <1>5, SumShift
<1>7. QED
  BY <1>3, <1>5, <1>6 DEF m, n, s, Weight

LEMMA WeightEmpty == Weight(<<>>) = 0
<1>1. [k \in DOMAIN <<>> |-> <<>>[k].size] = <<>>
  OBVIOUS
<1>2. QED
  BY <1>1, SumEmpty DEF Weight

LEMMA DomainsCons ==
  ASSUME NEW f, NEW t, IsSeq(t)
  PROVE  Domains(<<f>> \o t) = OpenedBy(f) + Domains(t) /\ Domains(t) \in Nat
<1> DEFINE s == <<f>> \o t
           m == [k \in 1..Len(s) |-> OpenedBy(s[k])]
           n == [k \in 1..Len(t) |-> OpenedBy(t[k])]
<1>1. IsSeq(s) /\ s[1] = f /\ Len(s) = Len(t) + 1 /\ \A k \in 1..Len(t) : s[k + 1] = t[k]
  BY ConsParts
<1> HIDE DEF s
<1>2. DOMAIN s = 1..Len(s) /\ DOMAIN t = 1..Len(t) /\ Len(t) \in Nat /\ Len(s) \in Nat
  BY <1>1, SeqParts
<1>3. \A x : OpenedBy(x) \in Nat
  BY OpenedByNat
<1>4. m \in Seq(Nat) /\ Len(m) = Len(s) /\ n \in Seq(Nat) /\ Len(n) = Len(t)
  BY <1>2, <1>3
<1>5. m[1] = OpenedBy(f) /\ \A k \in 1..Len(t) : m[k + 1] = n[k]
  BY <1>1, <1>2
<1> HIDE DEF m, n
<1>6. Sum(m) = m[1] + Sum(n) /\ Sum(n) \in Nat
  BY <1>1, <1>4, <1>5, SumShift
<1>7. QED
  BY <1>2, <1>5, <1>6 DEF m, n, s, Domains

LEMMA DomainsEmpty == Domains(<<>>) = 0
<1>1. [k \in DOMAIN <<>> |-> OpenedBy(<<>>[k])] = <<>>
  OBVIOUS
<1>2. QED
  BY <1>1, SumEmpty DEF Domains

LEMMA EmptyStack == StackOK(<<>>) /\ ~Runs(<<>>)
BY EmptyIsSeq, SuffixesEmpty DEF StackOK, Runs

LEMMA RunsCons ==
  ASSUME NEW f, NEW t, IsSeq(t)
  PROVE  Runs(<<f>> \o t) <=> f.pc = "functionEnd" \/ Runs(t)
<1> DEFINE s == <<f>> \o t
<1>1. Suffixes(s) = {s} \union Suffixes(t) /\ Head(s) = f
  BY SuffixesCons, ConsParts
<1> HIDE DEF s
<1>2. Runs(s) <=> f.pc = "functionEnd" \/ Runs(t)
  BY <1>1 DEF Runs
<1>3. QED
  BY <1>2 DEF s

\* A call is made: the stack stays as it should be.
LEMMA StackCons ==
  ASSUME NEW f, NEW t, IsSeq(t)
  PROVE  /\ StackOK(<<f>> \o t) <=> StackOK(t) /\ FrameOK(f) /\ Fits(Kind(f.pc), t)
         /\ IsSeq(<<f>> \o t) /\ <<f>> \o t # <<>>
         /\ Head(<<f>> \o t) = f /\ Tail(<<f>> \o t) = t
<1> DEFINE s == <<f>> \o t
<1>1. /\ Suffixes(s) = {s} \union Suffixes(t)
      /\ Head(s) = f /\ Tail(s) = t /\ IsSeq(s) /\ s # <<>>
  BY SuffixesCons, ConsParts
<1> HIDE DEF s
<1>2. StackOK(s) <=> StackOK(t) /\ FrameOK(f) /\ Fits(Kind(f.pc), t)
  BY <1>1 DEF StackOK
<1>3. QED
  BY <1>1, <1>2 DEF s

LEMMA StackWeight ==
  ASSUME NEW f, NEW t, StackOK(t), FrameOK(f)
  PROVE  Weight(<<f>> \o t) = f.size + Weight(t) /\ Weight(t) \in Nat
<1>1. IsSeq(t) /\ f.size \in Nat /\ \A u \in Suffixes(t) : Head(u).size \in Nat
  BY DEF StackOK, FrameOK
<1>2. QED
  BY <1>1, WeightCons

\* A stack that is not empty has a frame in front.
LEMMA StackSplit ==
  ASSUME NEW s, StackOK(s), s # <<>>
  PROVE  /\ s = <<Head(s)>> \o Tail(s)
         /\ StackOK(Tail(s)) /\ IsSeq(Tail(s))
         /\ FrameOK(Head(s)) /\ Fits(Kind(Head(s).pc), Tail(s))
<1>1. s = <<Head(s)>> \o Tail(s) /\ IsSeq(Tail(s))
  BY SeqSplit DEF StackOK
<1>2. StackOK(<<Head(s)>> \o Tail(s))
  BY <1>1
<1>3. StackOK(Tail(s)) /\ FrameOK(Head(s)) /\ Fits(Kind(Head(s).pc), Tail(s))
  BY <1>1, <1>2, StackCons, Zenon
<1>4. QED
  BY <1>1, <1>3

\* What is said of a stack by its frame in front.
LEMMA StackFront ==
  ASSUME NEW s, StackOK(s), s # <<>>
  PROVE  /\ Suffixes(s) = {s} \union Suffixes(Tail(s))
         /\ Domains(s) = OpenedBy(Head(s)) + Domains(Tail(s))
         /\ Domains(Tail(s)) \in Nat /\ OpenedBy(Head(s)) \in Nat
         /\ Runs(s) <=> Head(s).pc = "functionEnd" \/ Runs(Tail(s))
         /\ Weight(s) = Head(s).size + Weight(Tail(s)) /\ Weight(Tail(s)) \in Nat
<1> DEFINE t == <<Head(s)>> \o Tail(s)
<1>1. s = t /\ StackOK(Tail(s)) /\ IsSeq(Tail(s)) /\ FrameOK(Head(s))
  BY StackSplit
<1>2. /\ Suffixes(t) = {t} \union Suffixes(Tail(s))
      /\ Domains(t) = OpenedBy(Head(s)) + Domains(Tail(s)) /\ Domains(Tail(s)) \in Nat
      /\ Runs(t) <=> Head(s).pc = "functionEnd" \/ Runs(Tail(s))
      /\ Weight(t) = Head(s).size + Weight(Tail(s)) /\ Weight(Tail(s)) \in Nat
  BY <1>1, SuffixesCons, DomainsCons, RunsCons, StackWeight
<1> HIDE DEF t
<1>3. OpenedBy(Head(s)) \in Nat
  BY OpenedByNat
<1>4. QED
  BY <1>1, <1>2, <1>3

LEMMA NoValueWaitsCons ==
  ASSUME NEW f, NEW t, IsSeq(t)
  PROVE  NoValueWaits(<<f>> \o t) <=> f.pc \notin ValueWaits /\ NoValueWaits(t)
<1> DEFINE s == <<f>> \o t
<1>1. Suffixes(s) = {s} \union Suffixes(t) /\ Head(s) = f
  BY SuffixesCons, ConsParts
<1> HIDE DEF s
<1>2. NoValueWaits(s) <=> f.pc \notin ValueWaits /\ NoValueWaits(t)
  BY <1>1 DEF NoValueWaits
<1>3. QED
  BY <1>2 DEF s

\* What is open below is open.
LEMMA DomainsBelow ==
  ASSUME NEW t, IsSeq(t), NEW u \in Suffixes(t)
  PROVE  Domains(u) <= Domains(t) /\ Domains(u) \in Nat /\ Domains(t) \in Nat
<1> DEFINE P(s) == \A v \in Suffixes(s) : Domains(v) <= Domains(s) /\ Domains(v) \in Nat /\ Domains(s) \in Nat
           S == {n \in Nat : \A s : IsSeq(s) /\ Len(s) = n => P(s)}
<1>1. 0 \in S
  <2>1. \A s : IsSeq(s) /\ Len(s) = 0 => s = <<>>
    BY SeqParts
  <2>2. P(<<>>)
    BY SuffixesEmpty
  <2> HIDE DEF P
  <2>3. QED
    BY <2>1, <2>2
<1>2. ASSUME NEW n \in Nat, n \in S PROVE n + 1 \in S
  <2>1. SUFFICES ASSUME NEW s, IsSeq(s), Len(s) = n + 1 PROVE P(s)
    OBVIOUS
  <2>2. s # <<>>
    BY <2>1, SeqParts
  <2>3. s = <<Head(s)>> \o Tail(s) /\ IsSeq(Tail(s)) /\ Len(Tail(s)) = n
    BY <2>1, <2>2, SeqSplit
  <2>4. P(Tail(s))
    BY <1>2, <2>3
  <2>5. /\ Suffixes(s) = {s} \union Suffixes(Tail(s))
        /\ Domains(s) = OpenedBy(Head(s)) + Domains(Tail(s)) /\ Domains(Tail(s)) \in Nat
    BY <2>3, SuffixesCons, DomainsCons
  <2>6. QED
    BY <2>4, <2>5, OpenedByNat
<1>3. Len(t) \in S
  <2> HIDE DEF S
  <2>1. Nat \subseteq S
    BY <1>1, <1>2, SetInduction
  <2>2. QED
    BY <2>1, SeqParts
<1>4. QED
  BY <1>3

\* A suffix of a stack is a stack.
LEMMA SuffixStack ==
  ASSUME NEW t, StackOK(t), NEW u \in Suffixes(t)
  PROVE  StackOK(u) /\ u # <<>>
<1> DEFINE P(s) == \A v \in Suffixes(s) : StackOK(v) /\ v # <<>>
           S == {n \in Nat : \A s : StackOK(s) /\ Len(s) = n => P(s)}
<1>1. 0 \in S
  <2>1. \A s : StackOK(s) /\ Len(s) = 0 => s = <<>>
    BY SeqParts DEF StackOK
  <2>2. P(<<>>)
    BY SuffixesEmpty
  <2> HIDE DEF P
  <2>3. QED
    BY <2>1, <2>2
<1>2. ASSUME NEW n \in Nat, n \in S PROVE n + 1 \in S
  <2>1. SUFFICES ASSUME NEW s, StackOK(s), Len(s) = n + 1 PROVE P(s)
    OBVIOUS
  <2>2. s # <<>> /\ IsSeq(s)
    BY <2>1, SeqParts DEF StackOK
  <2>3. StackOK(Tail(s)) /\ Len(Tail(s)) = n
    <3>1. StackOK(Tail(s))
      BY <2>1, <2>2, StackSplit
    <3>2. Len(Tail(s)) = Len(s) - 1
      BY <2>2, SeqSplit
    <3>3. QED
      BY <2>1, <3>1, <3>2
  <2>4. P(Tail(s))
    BY <1>2, <2>3
  <2>5. Suffixes(s) = {s} \union Suffixes(Tail(s))
    BY <2>1, <2>2, StackFront
  <2>6. QED
    BY <2>1, <2>2, <2>4, <2>5
<1>3. Len(t) \in S
  <2> HIDE DEF S
  <2>1. Nat \subseteq S
    BY <1>1, <1>2, SetInduction
  <2>2. QED
    BY <2>1, SeqParts DEF StackOK
<1>4. QED
  BY <1>3

\* Without an open domain no function is being read, and no head of a for.
LEMMA NoneRuns ==
  ASSUME NEW t, StackOK(t), Domains(t) = 0
  PROVE  /\ ~Runs(t)
         /\ \A u \in Suffixes(t) : Head(u).pc # "forStart"
<1>1. ASSUME NEW u \in Suffixes(t) PROVE OpenedBy(Head(u)) = 0
  <2>1. Domains(u) <= 0 /\ Domains(u) \in Nat
    BY DomainsBelow DEF StackOK
  <2>2. StackOK(u) /\ u # <<>>
    BY SuffixStack
  <2>3. /\ Domains(u) = OpenedBy(Head(u)) + Domains(Tail(u)) /\ Domains(Tail(u)) \in Nat
        /\ OpenedBy(Head(u)) \in Nat
    BY <2>2, StackFront
  <2>4. QED
    BY <2>1, <2>3
<1>2. QED
  BY <1>1, PlainPlaces DEF Runs

LEMMA ListShields ==
  ASSUME NEW t, StackOK(t), t # <<>>, Head(t).pc \in ListWaits
  PROVE  \A u \in Suffixes(t) : Head(u).pc = "forStart" =>
            Domains(u) < Domains(t) /\ Domains(u) \in Nat /\ Domains(t) \in Nat
<1>1. IsSeq(Tail(t))
  BY StackSplit
<1>2. /\ Suffixes(t) = {t} \union Suffixes(Tail(t))
      /\ Domains(t) = OpenedBy(Head(t)) + Domains(Tail(t)) /\ Domains(Tail(t)) \in Nat
  BY StackFront
<1>3. OpenedBy(Head(t)) \in 1..2 /\ Head(t).pc # "forStart"
  BY DEF OpenedBy, ListWaits
<1>4. \A u \in Suffixes(Tail(t)) : Domains(u) <= Domains(Tail(t)) /\ Domains(u) \in Nat
  BY <1>1, DomainsBelow
<1>5. QED
  BY <1>2, <1>3, <1>4

\* Between a statement and the head of a for further out a domain is open, unless the
\* statement is itself what the head begins with.
LEMMA StatementShields ==
  ASSUME NEW t, StackOK(t), OnStatement(t)
  PROVE  \A u \in Suffixes(Tail(t)) : Head(u).pc = "forStart" =>
            Domains(u) < Domains(t) /\ Domains(u) \in Nat /\ Domains(t) \in Nat
<1>1. t # <<>> /\ Head(t).pc \in StatementWaits
  BY DEF OnStatement
<1>2. /\ t = <<Head(t)>> \o Tail(t) /\ StackOK(Tail(t)) /\ IsSeq(Tail(t))
      /\ Fits(Kind(Head(t).pc), Tail(t))
  BY <1>1, StackSplit
<1>3. Domains(t) = OpenedBy(Head(t)) + Domains(Tail(t)) /\ Domains(Tail(t)) \in Nat /\ OpenedBy(Head(t)) \in Nat
  BY <1>1, StackFront
<1>4. \A u \in Suffixes(Tail(t)) : Domains(u) <= Domains(Tail(t)) /\ Domains(u) \in Nat
  BY <1>2, DomainsBelow
<1>5. CASE Head(t).pc = "root"
  <2>1. Tail(t) = <<>>
    BY <1>2, <1>5, KindIs DEF Fits
  <2>2. QED
    BY <2>1, SuffixesEmpty
<1>6. CASE Head(t).pc \in {"line", "forStart"}
  <2>1. OpenedBy(Head(t)) \in 1..2
    BY <1>6 DEF OpenedBy
  <2>2. QED
    BY <1>3, <1>4, <2>1
<1>7. CASE Head(t).pc = "repeat"
  <2>1. Kind(Head(t).pc) = "list"
    BY <1>7, KindIs DEF ListPlaces
  <2>2. Tail(t) # <<>> /\ Head(Tail(t)).pc \in ListWaits
    BY <1>2, <2>1 DEF Fits
  <2>3. \A u \in Suffixes(Tail(t)) : Head(u).pc = "forStart" => Domains(u) < Domains(Tail(t))
    BY <1>2, <2>2, ListShields
  <2>4. QED
    BY <1>3, <1>4, <2>3
<1>8. Head(t).pc = "root" \/ Head(t).pc \in {"line", "forStart"} \/ Head(t).pc = "repeat"
  BY <1>1 DEF StatementWaits
<1>9. QED
  BY <1>5, <1>6, <1>7, <1>8

LEMMA ScopesSplit ==
  ASSUME NEW ss, NEW cf, ScopesOK(ss, cf)
  PROVE  /\ ss = <<Head(ss)>> \o Tail(ss) /\ IsSeq(Tail(ss))
         /\ Len(Tail(ss)) = Len(ss) - 1 /\ Len(ss) \in Nat
         /\ ScopeOK(Head(ss))
         /\ Head(ss).kind = "root" <=> Len(ss) = 1
         /\ Head(ss).kind = "function" => cf # None
         /\ Suffixes(ss) = {ss} \union Suffixes(Tail(ss))
         /\ Weight(ss) = Head(ss).size + Weight(Tail(ss)) /\ Weight(Tail(ss)) \in Nat
         /\ Tail(ss) # <<>> => ScopesOK(Tail(ss), cf)
         /\ Tail(ss) = <<>> <=> Len(ss) = 1
<1>1. IsSeq(ss) /\ ss # <<>>
  BY DEF ScopesOK
<1>2. /\ ss = <<Head(ss)>> \o Tail(ss) /\ IsSeq(Tail(ss)) /\ Len(Tail(ss)) = Len(ss) - 1
      /\ Len(ss) \in Nat
  BY <1>1, SeqSplit, SeqParts
<1>3. Suffixes(ss) = {ss} \union Suffixes(Tail(ss))
  BY <1>2, SuffixesCons
<1>4. \A d \in Suffixes(ss) : Head(d).size \in Nat
  BY DEF ScopesOK, ScopeOK
<1>5. Head(ss).size \in Nat /\ \A d \in Suffixes(Tail(ss)) : Head(d).size \in Nat
  BY <1>3, <1>4
<1>6. Weight(ss) = Head(ss).size + Weight(Tail(ss)) /\ Weight(Tail(ss)) \in Nat
  BY <1>2, <1>5, WeightCons
<1>7. /\ ScopeOK(Head(ss))
      /\ Head(ss).kind = "root" <=> Len(ss) = 1
      /\ Head(ss).kind = "function" => cf # None
  BY <1>3 DEF ScopesOK
<1>8. Tail(ss) # <<>> => ScopesOK(Tail(ss), cf)
  BY <1>2, <1>3 DEF ScopesOK
<1>9. Tail(ss) = <<>> <=> Len(ss) = 1
  <2> DEFINE rest == Tail(ss)
  <2>1. IsSeq(rest) /\ Len(rest) = Len(ss) - 1
    BY <1>2
  <2> HIDE DEF rest
  <2>2. Len(rest) \in Nat /\ (rest # <<>> <=> Len(rest) > 0)
    BY <2>1, SeqParts, Zenon
  <2>3. rest = <<>> <=> Len(ss) = 1
    BY <1>2, <2>1, <2>2
  <2>4. QED
    BY <2>3 DEF rest
<1>10. QED
  BY <1>2, <1>3, <1>6, <1>7, <1>8, <1>9

LEMMA ScopesCons ==
  ASSUME NEW d, NEW t, NEW cf, IsSeq(t), t = <<>> \/ ScopesOK(t, cf), ScopeOK(d),
         d.kind = "root" <=> t = <<>>, d.kind = "function" => cf # None
  PROVE  /\ ScopesOK(<<d>> \o t, cf)
         /\ Len(<<d>> \o t) = Len(t) + 1 /\ Len(t) \in Nat
         /\ Head(<<d>> \o t) = d /\ Tail(<<d>> \o t) = t
         /\ Suffixes(<<d>> \o t) = {<<d>> \o t} \union Suffixes(t)
         /\ Weight(<<d>> \o t) = d.size + Weight(t) /\ Weight(t) \in Nat
<1> DEFINE s == <<d>> \o t
<1>1. /\ IsSeq(s) /\ s # <<>> /\ Len(s) = Len(t) + 1 /\ Head(s) = d /\ Tail(s) = t
      /\ Suffixes(s) = {s} \union Suffixes(t)
  BY ConsParts, SuffixesCons
<1>2. Len(t) \in Nat /\ (t = <<>> <=> Len(t) = 0)
  BY SeqParts
<1>3. \A u \in Suffixes(t) : Head(u).size \in Nat
  BY SuffixesEmpty DEF ScopesOK, ScopeOK
<1>4. Weight(s) = d.size + Weight(t) /\ Weight(t) \in Nat
  BY <1>3, WeightCons DEF ScopeOK
<1> HIDE DEF s
<1>5. \A u \in Suffixes(t) : /\ ScopeOK(Head(u))
                             /\ Head(u).kind = "root" <=> Len(u) = 1
                             /\ Head(u).kind = "function" => cf # None
  BY SuffixesEmpty DEF ScopesOK
<1>6. ScopesOK(s, cf)
  <2>1. Len(s) = 1 <=> t = <<>>
    BY <1>1, <1>2
  <2>2. \A u \in Suffixes(s) : /\ ScopeOK(Head(u))
                               /\ Head(u).kind = "root" <=> Len(u) = 1
                               /\ Head(u).kind = "function" => cf # None
    BY <1>1, <1>5, <2>1
  <2>3. QED
    BY <1>1, <2>2 DEF ScopesOK
<1>7. QED
  BY <1>1, <1>2, <1>4, <1>6 DEF s

\* The innermost domain changes.
LEMMA ScopesChange ==
  ASSUME NEW ss, NEW cf, ScopesOK(ss, cf), NEW d, ScopeOK(d), d.kind = Head(ss).kind
  PROVE  LET ds == <<d>> \o Tail(ss)
         IN  /\ ScopesOK(ds, cf) /\ Len(ds) = Len(ss) /\ Len(ss) \in Nat
             /\ Suffixes(ss) = {ss} \union Suffixes(Tail(ss))
             /\ Suffixes(ds) = {ds} \union Suffixes(Tail(ss))
             /\ Head(ds) = d /\ Tail(ds) = Tail(ss)
             /\ Weight(ds) = d.size + Weight(Tail(ss)) /\ d.size \in Nat
<1> DEFINE rest == Tail(ss)
           ds == <<d>> \o rest
<1>1. /\ IsSeq(rest) /\ Len(rest) = Len(ss) - 1 /\ (rest # <<>> => ScopesOK(rest, cf))
      /\ Suffixes(ss) = {ss} \union Suffixes(rest) /\ Len(ss) \in Nat
      /\ d.kind = "root" <=> rest = <<>>
      /\ d.kind = "function" => cf # None
  BY ScopesSplit
<1> HIDE DEF rest
<1>2. /\ ScopesOK(ds, cf) /\ Len(ds) = Len(rest) + 1 /\ Suffixes(ds) = {ds} \union Suffixes(rest)
      /\ Head(ds) = d /\ Tail(ds) = rest /\ Weight(ds) = d.size + Weight(rest)
  BY <1>1, ScopesCons
<1> HIDE DEF ds
<1>3. Len(ds) = Len(ss)
  BY <1>1, <1>2
<1>4. QED
  BY <1>1, <1>2, <1>3 DEF ds, rest, ScopeOK

-----------------------------------------------------------------------------
(* The calls that are made on top of a stack and open no domain.            *)

Over(s, t, w) ==
    /\ StackOK(s) /\ StackOK(t)
    /\ Weight(s) = w + Weight(t) /\ w \in Nat /\ Weight(t) \in Nat
    /\ Domains(s) = Domains(t)
    /\ Runs(s) <=> Runs(t)
    /\ Suffixes(t) \subseteq Suffixes(s)
    /\ \A u \in Suffixes(s) : u \in Suffixes(t) \/ OpenedBy(Head(u)) = 0

LEMMA OverSelf ==
  ASSUME NEW t, StackOK(t)
  PROVE  Over(t, t, 0)
<1>1. \A u \in Suffixes(t) : Head(u).size \in Nat
  BY DEF StackOK, FrameOK
<1>2. Weight(t) \in Nat
  BY <1>1, SizesOfSuffixes DEF StackOK
<1>3. QED
  BY <1>2 DEF Over

LEMMA OverCons ==
  ASSUME NEW s, NEW t, NEW w, Over(s, t, w), NEW f, FrameOK(f), Fits(Kind(f.pc), s),
         OpenedBy(f) = 0
  PROVE  /\ Over(<<f>> \o s, t, f.size + w)
         /\ <<f>> \o s # <<>> /\ Head(<<f>> \o s) = f /\ Tail(<<f>> \o s) = s
<1> DEFINE a == <<f>> \o s
<1>1. IsSeq(s) /\ StackOK(s) /\ f.size \in Nat
  BY DEF Over, StackOK, FrameOK
<1>2. /\ StackOK(a) /\ a # <<>> /\ Head(a) = f /\ Tail(a) = s
      /\ Weight(a) = f.size + Weight(s)
      /\ Domains(a) = OpenedBy(f) + Domains(s) /\ Domains(s) \in Nat
      /\ Runs(a) <=> f.pc = "functionEnd" \/ Runs(s)
      /\ Suffixes(a) = {a} \union Suffixes(s)
  BY <1>1, StackCons, StackWeight, DomainsCons, RunsCons, SuffixesCons
<1> HIDE DEF a
<1>3. f.pc # "functionEnd"
  BY PlainPlaces
<1>4. Over(a, t, f.size + w)
  BY <1>1, <1>2, <1>3 DEF Over
<1>5. QED
  BY <1>2, <1>4 DEF a

\* The call of ParseSimpleExpression, and the one of ParseComplexExpression.
LEMMA SimpleOn ==
  ASSUME NEW s, NEW t, NEW w, Over(s, t, w), s # <<>>, Head(s).pc \in ValueWaits, ~Chooses(s)
  PROVE  /\ Over(<<Simple>> \o s, t, w)
         /\ <<Simple>> \o s # <<>> /\ Head(<<Simple>> \o s) = Simple
<1>1. FrameOK(Simple) /\ OpenedBy(Simple) = 0 /\ Simple.size = 0 /\ Simple.pc = "simple"
  BY DEF Simple, Frame, FrameOK, OpenedBy
<1>2. Fits(Kind(Simple.pc), s)
  BY <1>1, KindIs DEF Fits, OperandPlaces
<1>3. w \in Nat
  BY DEF Over
<1>4. /\ Over(<<Simple>> \o s, t, 0 + w)
      /\ <<Simple>> \o s # <<>> /\ Head(<<Simple>> \o s) = Simple
  BY <1>1, <1>2, OverCons
<1>5. QED
  BY <1>3, <1>4

LEMMA OperatorOn ==
  ASSUME NEW s, NEW t, NEW w, Over(s, t, w), s # <<>>, Head(s).pc \in ValueWaits, ~Chooses(s)
  PROVE  /\ Over(<<Frame("operator")>> \o s, t, w)
         /\ <<Frame("operator")>> \o s # <<>>
         /\ Head(<<Frame("operator")>> \o s) = Frame("operator")
<1> DEFINE o == Frame("operator")
<1>1. FrameOK(o) /\ OpenedBy(o) = 0 /\ o.size = 0 /\ o.pc = "operator"
  BY DEF Frame, FrameOK, OpenedBy
<1> HIDE DEF o
<1>2. Fits(Kind(o.pc), s)
  BY <1>1, KindIs DEF Fits, OperandPlaces
<1>3. w \in Nat
  BY DEF Over
<1>4. /\ Over(<<o>> \o s, t, 0 + w)
      /\ <<o>> \o s # <<>> /\ Head(<<o>> \o s) = o
  BY <1>1, <1>2, OverCons
<1>5. QED
  BY <1>3, <1>4 DEF o

LEMMA ComplexOver ==
  ASSUME NEW s, NEW t, NEW w, Over(s, t, w), s # <<>>, Head(s).pc \in ValueWaits, ~Chooses(s)
  PROVE  Over(Complex \o s, t, w) /\ Complex \o s # <<>> /\ Head(Complex \o s) = Simple
<1> DEFINE o == Frame("operator")
           c == <<o>> \o s
<1>1. IsSeq(s)
  BY DEF Over, StackOK
<1>2. Over(c, t, w) /\ c # <<>> /\ Head(c) = o
  BY OperatorOn
<1>3. <<Simple, o>> \o s = <<Simple>> \o c
  BY <1>1, TwoOnTop
<1>4. o.pc = "operator"
  BY DEF Frame
<1> HIDE DEF o, c
<1>5. Head(c).pc \in ValueWaits /\ ~Chooses(c)
  BY <1>2, <1>4 DEF ValueWaits, Chooses
<1>6. Over(<<Simple>> \o c, t, w) /\ <<Simple>> \o c # <<>> /\ Head(<<Simple>> \o c) = Simple
  BY <1>2, <1>5, SimpleOn
<1>7. QED
  BY <1>3, <1>6, Zenon DEF o, Complex

LEMMA ComplexOn ==
  ASSUME NEW g, NEW s, NEW t, NEW w, IsSeq(s), Over(<<g>> \o s, t, w),
         g.pc \in ValueWaits \ {"combine"}
  PROVE  LET a == (Complex \o <<g>>) \o s
         IN  Over(a, t, w) /\ a # <<>> /\ Head(a) = Simple
<1> DEFINE b == <<g>> \o s
<1>1. b # <<>> /\ Head(b).pc \in ValueWaits /\ ~Chooses(b)
  BY ConsParts DEF Chooses
<1>2. IsSeq(Complex) /\ IsSeq(<<g>>)
  BY PairsAreSeqs DEF Complex
<1>3. (Complex \o <<g>>) \o s = Complex \o b
  BY <1>2, OnTop
<1> HIDE DEF b
<1>4. Over(Complex \o b, t, w) /\ Complex \o b # <<>> /\ Head(Complex \o b) = Simple
  BY <1>1, ComplexOver DEF b
<1>5. QED
  BY <1>3, <1>4, Zenon

LEMMA ComplexOnTwo ==
  ASSUME NEW g, NEW h, NEW s, NEW t, NEW w, IsSeq(s), Over(<<g>> \o (<<h>> \o s), t, w),
         g.pc \in ValueWaits \ {"combine"}
  PROVE  LET a == (Complex \o <<g, h>>) \o s
         IN  Over(a, t, w) /\ a # <<>> /\ Head(a) = Simple
<1> DEFINE c == <<h>> \o s
           b == <<g>> \o c
<1>1. b # <<>> /\ Head(b).pc \in ValueWaits /\ ~Chooses(b)
  BY ConsParts DEF Chooses
<1>2. IsSeq(Complex) /\ IsSeq(<<g, h>>)
  BY PairsAreSeqs DEF Complex
<1>3. (Complex \o <<g, h>>) \o s = Complex \o (<<g, h>> \o s)
  BY <1>2, OnTop
<1>4. <<g, h>> \o s = b
  BY TwoOnTop
<1> HIDE DEF b
<1>5. Over(Complex \o b, t, w) /\ Complex \o b # <<>> /\ Head(Complex \o b) = Simple
  BY <1>1, ComplexOver DEF b
<1>6. QED
  BY <1>3, <1>4, <1>5, Zenon

\* The call of ParseSingleExpression.
LEMMA SingleOn ==
  ASSUME NEW s, NEW t, NEW w, Over(s, t, w), OnStatement(s)
  PROVE  /\ Over(<<Single>> \o s, t, w)
         /\ <<Single>> \o s # <<>> /\ Head(<<Single>> \o s) = Single
<1>1. FrameOK(Single) /\ OpenedBy(Single) = 0 /\ Single.size = 0 /\ Single.pc = "single"
  BY DEF Single, Frame, FrameOK, OpenedBy
<1>2. Fits(Kind(Single.pc), s)
  BY <1>1, KindIs DEF Fits, LinePlaces
<1>3. w \in Nat
  BY DEF Over
<1>4. /\ Over(<<Single>> \o s, t, 0 + w)
      /\ <<Single>> \o s # <<>> /\ Head(<<Single>> \o s) = Single
  BY <1>1, <1>2, OverCons
<1>5. QED
  BY <1>3, <1>4

\* The call of ParseCodeDomain.
LEMMA DomainOn ==
  ASSUME NEW s, NEW t, NEW w, Over(s, t, w), s # <<>>, Head(s).pc \in ListWaits,
         NoValueWaits(s), Domains(s) > 0
  PROVE  LET f == Frame("domain")
         IN  /\ Over(<<f>> \o s, t, w)
             /\ <<f>> \o s # <<>> /\ Head(<<f>> \o s) = f
<1> DEFINE f == Frame("domain")
<1>1. FrameOK(f) /\ OpenedBy(f) = 0 /\ f.size = 0 /\ f.pc = "domain"
  BY DEF Frame, FrameOK, OpenedBy
<1> HIDE DEF f
<1>2. Fits(Kind(f.pc), s)
  BY <1>1, KindIs DEF Fits, ListPlaces
<1>3. w \in Nat
  BY DEF Over
<1>4. Over(<<f>> \o s, t, 0 + w) /\ <<f>> \o s # <<>> /\ Head(<<f>> \o s) = f
  BY <1>1, <1>2, OverCons
<1>5. QED
  BY <1>3, <1>4 DEF f

-----------------------------------------------------------------------------
(* The kinds of steps.                                                      *)

LEMMA FlightNat == ASSUME NEW f, NEW r, ResultOK(r) PROVE Flight(f, r) \in Nat
BY DEF Flight, ResultOK

LEMMA SafeWeights ==
  ASSUME NEW s, NEW r, NEW ss, NEW cf, NEW es, NEW lv, Safe(s, r, ss, cf, es, lv)
  PROVE  /\ Weight(s) = Head(s).size + Weight(Tail(s))
         /\ Weight(Tail(s)) \in Nat /\ Head(s).size \in Nat /\ lv \in Nat
         /\ Weight(ss) = Head(ss).size + Weight(Tail(ss))
         /\ Weight(Tail(ss)) \in Nat /\ Head(ss).size \in Nat
         /\ Flight(Head(s), r) \in Nat
<1>1. StackOK(s) /\ s # <<>> /\ ScopesOK(ss, cf) /\ ResultOK(r) /\ lv \in Nat
  BY DEF Safe
<1>2. FrameOK(Head(s)) /\ Weight(s) = Head(s).size + Weight(Tail(s)) /\ Weight(Tail(s)) \in Nat
  BY <1>1, StackSplit, StackFront
<1>3. /\ Weight(ss) = Head(ss).size + Weight(Tail(ss)) /\ Weight(Tail(ss)) \in Nat
      /\ ScopeOK(Head(ss))
  BY <1>1, ScopesSplit
<1>4. QED
  BY <1>1, <1>2, <1>3, FlightNat DEF FrameOK, ScopeOK

\* The calls go on, or return, and the domains are as before.
LEMMA Moves ==
  ASSUME NEW s, NEW r, NEW ss, NEW cf, NEW es, NEW lv, Safe(s, r, ss, cf, es, lv),
         OpenedBy(Head(s)) = 0,
         NEW s2, NEW w, Over(s2, Tail(s), w), s2 # <<>>,
         NEW r2, ResultOK(r2), NEW es2 \in BOOLEAN, NEW lv2 \in Int,
         es => es2, es2 => ~r2.ok /\ Head(s2).pc \in Waits,
         Chooses(s2) /\ ~r2.ok => es2,
         lv2 + Head(s).size + Flight(Head(s), r) >= lv + w + Flight(Head(s2), r2),
         ~es2 => lv2 + Head(s).size + Flight(Head(s), r) = lv + w + Flight(Head(s2), r2)
  PROVE  Safe(s2, r2, ss, cf, es2, lv2)
<1> DEFINE t == Tail(s)
<1>1. /\ StackOK(s) /\ s # <<>> /\ ScopesOK(ss, cf) /\ Len(ss) = 1 + Domains(s)
      /\ (cf # None <=> Runs(s)) /\ HeadsOK(s, r, ss, es)
  BY DEF Safe
<1>2. /\ Suffixes(s) = {s} \union Suffixes(t)
      /\ Domains(s) = OpenedBy(Head(s)) + Domains(t) /\ Domains(t) \in Nat
      /\ Runs(s) <=> Head(s).pc = "functionEnd" \/ Runs(t)
  BY <1>1, StackFront
<1>3. Head(s).pc # "functionEnd"
  BY PlainPlaces
<1>4. /\ StackOK(s2) /\ Weight(s2) = w + Weight(t) /\ w \in Nat /\ Weight(t) \in Nat
      /\ Domains(s2) = Domains(t) /\ (Runs(s2) <=> Runs(t))
      /\ Suffixes(t) \subseteq Suffixes(s2)
      /\ \A u \in Suffixes(s2) : u \in Suffixes(t) \/ OpenedBy(Head(u)) = 0
  BY DEF Over
<1>5. Len(ss) = 1 + Domains(s2) /\ (cf # None <=> Runs(s2))
  BY <1>1, <1>2, <1>3, <1>4
<1>6. Suffixes(s2) = {s2} \union Suffixes(Tail(s2))
  BY <1>4, StackFront
<1>7. Heads(t, ss) /\ Conds(s, ss)
  BY <1>1 DEF HeadsOK
<1>8. \A u \in Suffixes(s2) :
         u \in Suffixes(t) \/ Head(u).pc \notin {"forStart", "forCond", "forStep"}
  BY <1>4, PlainPlaces
<1>9. Heads(Tail(s2), ss)
  BY <1>6, <1>7, <1>8 DEF Heads
<1>10. Conds(s2, ss)
  BY <1>2, <1>7, <1>8 DEF Conds
<1>11. Head(s2).pc = "forStart" => Head(ss).cnt = 0
  <2>1. ss \in Suffixes(ss)
    BY <1>1, ScopesSplit
  <2>2. Head(s2).pc = "forStart" => s2 \in Suffixes(t)
    BY <1>6, <1>8
  <2>3. QED
    BY <1>5, <1>7, <2>1, <2>2 DEF Heads
<1>12. HeadsOK(s2, r2, ss, es2)
  BY <1>9, <1>10, <1>11 DEF HeadsOK
<1>13. Balanced(s2, r2, ss, es2, lv2) /\ lv2 \in Nat
  <2>1. /\ Weight(s) = Head(s).size + Weight(t) /\ Head(s).size \in Nat /\ lv \in Nat
        /\ Weight(ss) \in Nat /\ Flight(Head(s), r) \in Nat
    BY SafeWeights
  <2>2. /\ Weight(s) + Weight(ss) + Flight(Head(s), r) <= lv
        /\ ~es => lv = Weight(s) + Weight(ss) + Flight(Head(s), r)
    BY DEF Safe, Balanced
  <2>3. Flight(Head(s2), r2) \in Nat
    BY FlightNat
  <2> DEFINE a == Head(s).size
             b == Weight(t)
             c == Weight(ss)
             f == Flight(Head(s), r)
             g == Flight(Head(s2), r2)
             x == Weight(s2)
  <2>4. /\ a \in Nat /\ b \in Nat /\ c \in Nat /\ f \in Nat /\ g \in Nat /\ w \in Nat /\ lv \in Nat
        /\ x = w + b /\ a + b + c + f <= lv /\ (~es => lv = a + b + c + f)
        /\ lv2 + a + f >= lv + w + g /\ (~es2 => lv2 + a + f = lv + w + g)
    BY <1>4, <2>1, <2>2, <2>3
  <2> HIDE DEF a, b, c, f, g, x
  <2>5. x + c + g <= lv2 /\ (~es2 => lv2 = x + c + g) /\ lv2 \in Nat
    BY <2>4
  <2>6. QED
    BY <2>5 DEF Balanced, a, b, c, f, g, x
<1>14. QED
  BY <1>1, <1>4, <1>5, <1>12, <1>13 DEF Safe

\* Who waits for a call.
LEMMA Caller ==
  ASSUME NEW s, StackOK(s), s # <<>>, Head(s).pc # "root"
  PROVE  LET t == Tail(s)
         IN  /\ t # <<>> /\ Over(t, t, 0) /\ Head(t).pc \in Waits
             /\ Chooses(t) <=> Kind(Head(s).pc) = "choice"
             /\ Kind(Head(s).pc) \in {"operand", "choice", "compound"} => Head(t).pc \in Carries
             /\ Kind(Head(s).pc) \in {"line", "declaration", "kept"} => OnStatement(t)
             /\ Kind(Head(s).pc) = "list" => Head(t).pc \in ListWaits
<1> DEFINE t == Tail(s)
           k == Kind(Head(s).pc)
<1>1. StackOK(t) /\ Fits(k, t)
  BY StackSplit
<1>2. Over(t, t, 0)
  BY <1>1, OverSelf
<1>3. k # "root"
  BY KindOf
<1>4. Head(t).pc \in ValueWaits \union StatementWaits \union ListWaits \union {"keep"} /\ t # <<>>
  BY <1>1, <1>3 DEF Fits, OnStatement, Chooses, ValueWaits
<1>5. Chooses(t) <=> k = "choice"
  BY <1>1, <1>3 DEF Fits, OnStatement, Chooses, ValueWaits, StatementWaits, ListWaits
<1>6. k \in {"operand", "choice", "compound"} => Head(t).pc \in Carries
  BY <1>1, <1>3 DEF Fits, Chooses, Carries, ValueWaits
<1>7. /\ k \in {"line", "declaration", "kept"} => OnStatement(t)
      /\ k = "list" => Head(t).pc \in ListWaits
  BY <1>1, <1>3 DEF Fits
<1>8. QED
  BY <1>2, <1>4, <1>5, <1>6, <1>7 DEF Waits

LEMMA Results ==
  /\ Failed.ok = FALSE /\ Failed.size = 0 /\ ResultOK(Failed)
  /\ Passed.ok = TRUE /\ Passed.size = 0 /\ ResultOK(Passed)
  /\ \A f : Flight(f, Failed) = 0 /\ Flight(f, Passed) = 0
BY DEF Failed, Passed, ResultOK, Flight

\* A call returns: failure and a message, failure without one, success, a value, or what
\* was returned to it.
LEMMA ReturnsError ==
  ASSUME NEW s, NEW r, NEW ss, NEW cf, NEW es, NEW lv, Safe(s, r, ss, cf, es, lv),
         OpenedBy(Head(s)) = 0, Head(s).pc # "root",
         NEW freed \in Nat, freed <= Head(s).size + Flight(Head(s), r)
  PROVE  Safe(Tail(s), Failed, ss, cf, TRUE, lv - freed)
<1> DEFINE t == Tail(s)
<1>1. StackOK(s) /\ s # <<>> /\ lv \in Nat
  BY DEF Safe
<1>2. t # <<>> /\ Over(t, t, 0) /\ Head(t).pc \in Waits
  BY <1>1, Caller
<1>3. Flight(Head(s), r) \in Nat /\ Head(s).size \in Nat
  BY SafeWeights
<1>4. lv - freed \in Int /\ TRUE \in BOOLEAN
      /\ lv - freed + Head(s).size + Flight(Head(s), r) >= lv + 0 + Flight(Head(t), Failed)
  BY <1>1, <1>3, Results
<1>5. ResultOK(Failed) /\ ~Failed.ok
  BY Results
<1> HIDE DEF t
<1>6. QED
  BY <1>2, <1>4, <1>5, Moves DEF t

LEMMA ReturnsNothing ==
  ASSUME NEW s, NEW r, NEW ss, NEW cf, NEW es, NEW lv, Safe(s, r, ss, cf, es, lv),
         OpenedBy(Head(s)) = 0, Head(s).pc # "root", Kind(Head(s).pc) # "choice",
         NEW freed \in Nat, freed = Head(s).size + Flight(Head(s), r)
  PROVE  Safe(Tail(s), Failed, ss, cf, es, lv - freed)
<1> DEFINE t == Tail(s)
<1>1. StackOK(s) /\ s # <<>> /\ lv \in Nat /\ es \in BOOLEAN
  BY DEF Safe
<1>2. t # <<>> /\ Over(t, t, 0) /\ Head(t).pc \in Waits /\ ~Chooses(t)
  BY <1>1, Caller
<1>3. Flight(Head(s), r) \in Nat /\ Head(s).size \in Nat
  BY SafeWeights
<1>4. lv - freed \in Int
      /\ lv - freed + Head(s).size + Flight(Head(s), r) = lv + 0 + Flight(Head(t), Failed)
      /\ lv - freed + Head(s).size + Flight(Head(s), r) >= lv + 0 + Flight(Head(t), Failed)
  <2> DEFINE a == Head(s).size
             b == Flight(Head(s), r)
             e == Flight(Head(t), Failed)
  <2>1. a \in Nat /\ b \in Nat /\ freed = a + b /\ lv \in Nat
    BY <1>1, <1>3
  <2>2. e = 0
    BY Results
  <2> HIDE DEF a, b, e
  <2>3. lv - freed \in Int /\ lv - freed + a + b = lv + 0 + e /\ lv - freed + a + b >= lv + 0 + e
    BY <2>1, <2>2
  <2>4. QED
    BY <2>3 DEF a, b, e
<1>5. ResultOK(Failed) /\ ~Failed.ok
  BY Results
<1> HIDE DEF t
<1>6. QED
  BY <1>1, <1>2, <1>4, <1>5, Moves DEF t

LEMMA ReturnsPassed ==
  ASSUME NEW s, NEW r, NEW ss, NEW cf, NEW es, NEW lv, Safe(s, r, ss, cf, es, lv), ~es,
         OpenedBy(Head(s)) = 0, Head(s).pc # "root",
         Head(s).size + Flight(Head(s), r) = 0
  PROVE  Safe(Tail(s), Passed, ss, cf, es, lv)
<1> DEFINE t == Tail(s)
<1>1. StackOK(s) /\ s # <<>> /\ lv \in Nat /\ es \in BOOLEAN
  BY DEF Safe
<1>2. t # <<>> /\ Over(t, t, 0) /\ Head(t).pc \in Waits
  BY <1>1, Caller
<1>3. Flight(Head(s), r) \in Nat /\ Head(s).size \in Nat
  BY SafeWeights
<1>4. /\ lv \in Int
      /\ lv + Head(s).size + Flight(Head(s), r) = lv + 0 + Flight(Head(t), Passed)
      /\ lv + Head(s).size + Flight(Head(s), r) >= lv + 0 + Flight(Head(t), Passed)
  BY <1>1, <1>3, Results
<1>5. ResultOK(Passed) /\ Passed.ok
  BY Results
<1> HIDE DEF t
<1>6. QED
  BY <1>1, <1>2, <1>4, <1>5, Moves DEF t

LEMMA ReturnsValue ==
  ASSUME NEW s, NEW r, NEW ss, NEW cf, NEW es, NEW lv, Safe(s, r, ss, cf, es, lv), ~es,
         OpenedBy(Head(s)) = 0, Kind(Head(s).pc) \in {"operand", "choice", "compound"},
         NEW r2, ResultOK(r2), r2.ok, NEW lv2 \in Int,
         lv2 + (Head(s).size + Flight(Head(s), r)) = lv + r2.size
  PROVE  Safe(Tail(s), r2, ss, cf, es, lv2)
<1> DEFINE t == Tail(s)
<1>1. StackOK(s) /\ s # <<>> /\ lv \in Nat /\ es \in BOOLEAN
  BY DEF Safe
<1>2. Head(s).pc # "root"
  BY KindIs
<1>3. t # <<>> /\ Over(t, t, 0) /\ Head(t).pc \in Waits /\ Head(t).pc \in Carries
  BY <1>1, <1>2, Caller
<1>4. Flight(Head(s), r) \in Nat /\ Head(s).size \in Nat /\ r2.size \in Nat
  BY SafeWeights DEF ResultOK
<1>5. Flight(Head(t), r2) = r2.size
  BY <1>3 DEF Flight
<1>6. /\ lv2 + Head(s).size + Flight(Head(s), r) = lv + 0 + Flight(Head(t), r2)
      /\ lv2 + Head(s).size + Flight(Head(s), r) >= lv + 0 + Flight(Head(t), r2)
  <2> DEFINE a == Flight(Head(s), r)
             b == Flight(Head(t), r2)
             c == Head(s).size
             d == r2.size
  <2>1. b = d /\ lv2 + (c + a) = lv + d /\ a \in Nat /\ c \in Nat /\ d \in Nat /\ lv \in Nat
    BY <1>1, <1>4, <1>5
  <2> HIDE DEF a, b, c, d
  <2>2. lv2 + c + a = lv + 0 + b /\ lv2 + c + a >= lv + 0 + b
    BY <2>1
  <2>3. QED
    BY <2>2 DEF a, b, c, d
<1> HIDE DEF t
<1>7. QED
  BY <1>1, <1>3, <1>6, Moves DEF t

LEMMA ReturnsSame ==
  ASSUME NEW s, NEW r, NEW ss, NEW cf, NEW es, NEW lv, Safe(s, r, ss, cf, es, lv),
         OpenedBy(Head(s)) = 0, Kind(Head(s).pc) = "operand", Head(s).pc \in Carries,
         Head(s).size = 0
  PROVE  Safe(Tail(s), r, ss, cf, es, lv)
<1> DEFINE t == Tail(s)
<1>1. StackOK(s) /\ s # <<>> /\ lv \in Nat /\ es \in BOOLEAN /\ ResultOK(r) /\ (es => ~r.ok)
  BY DEF Safe
<1>2. Head(s).pc # "root"
  BY KindIs
<1>3. t # <<>> /\ Over(t, t, 0) /\ Head(t).pc \in Waits /\ Head(t).pc \in Carries /\ ~Chooses(t)
  BY <1>1, <1>2, Caller
<1>4. Flight(Head(s), r) = Flight(Head(t), r) /\ Flight(Head(s), r) \in Nat
  BY <1>1, <1>3, FlightNat DEF Flight
<1>5. /\ lv \in Int
      /\ lv + Head(s).size + Flight(Head(s), r) = lv + 0 + Flight(Head(t), r)
      /\ lv + Head(s).size + Flight(Head(s), r) >= lv + 0 + Flight(Head(t), r)
  <2> DEFINE a == Flight(Head(s), r)
             b == Flight(Head(t), r)
             c == Head(s).size
  <2>1. a = b /\ a \in Nat /\ c = 0 /\ lv \in Nat
    BY <1>1, <1>4
  <2> HIDE DEF a, b, c
  <2>2. lv \in Int /\ lv + c + a = lv + 0 + b /\ lv + c + a >= lv + 0 + b
    BY <2>1
  <2>3. QED
    BY <2>2 DEF a, b, c
<1> HIDE DEF t
<1>6. QED
  BY <1>1, <1>3, <1>5, Moves DEF t

\* Heads and conditions, when the stack loses its front and gets other calls.
LEMMA NoConds ==
  ASSUME NEW s, NEW t, NEW w, Over(s, t, w), NoValueWaits(t), NEW ss
  PROVE  Conds(s, ss)
<1>1. \A u \in Suffixes(s) : u \in Suffixes(t) \/ OpenedBy(Head(u)) = 0
  BY DEF Over
<1>2. \A u \in Suffixes(s) : u \in Suffixes(t) \/ Head(u).pc \notin {"forCond", "forStep"}
  BY <1>1, PlainPlaces
<1>3. \A u \in Suffixes(s) : Head(u).pc \notin {"forCond", "forStep"}
  BY <1>2 DEF NoValueWaits, ValueWaits
<1>4. QED
  BY <1>3 DEF Conds

LEMMA NoWaitsBelow ==
  ASSUME NEW s, StackOK(s), s # <<>>, Kind(Head(s).pc) \notin {"operand", "choice"}
  PROVE  NoValueWaits(Tail(s))
<1>1. Fits(Kind(Head(s).pc), Tail(s))
  BY StackSplit
<1>2. NoValueWaits(<<>>)
  BY SuffixesEmpty DEF NoValueWaits
<1>3. QED
  BY <1>1, <1>2 DEF Fits, OnStatement

\* The innermost domain gets an item, and the call that gave it returns.
LEMMA Adds ==
  ASSUME NEW s, NEW r, NEW ss, NEW cf, NEW es, NEW lv, Safe(s, r, ss, cf, es, lv), ~es,
         OpenedBy(Head(s)) = 0, Kind(Head(s).pc) \in {"line", "kept"},
         NEW d, ScopeOK(d), d.kind = Head(ss).kind, NEW lv2 \in Int,
         lv2 + (Head(s).size + Flight(Head(s), r)) + Head(ss).size = lv + d.size
  PROVE  Safe(Tail(s), Passed, <<d>> \o Tail(ss), cf, es, lv2)
<1> DEFINE t  == Tail(s)
           rest == Tail(ss)
           ds == <<d>> \o rest
<1>1. /\ StackOK(s) /\ s # <<>> /\ ScopesOK(ss, cf) /\ Len(ss) = 1 + Domains(s)
      /\ (cf # None <=> Runs(s)) /\ HeadsOK(s, r, ss, es) /\ es \in BOOLEAN
  BY DEF Safe
<1>2. Head(s).pc # "root"
  BY KindIs
<1>3. t # <<>> /\ OnStatement(t) /\ StackOK(t) /\ ~Chooses(t) /\ Head(t).pc \in Waits
  BY <1>1, <1>2, Caller, StackSplit
<1>4. /\ Suffixes(s) = {s} \union Suffixes(t)
      /\ Domains(s) = Domains(t) /\ Domains(t) \in Nat
      /\ (cf # None <=> Runs(t))
  BY <1>1, StackFront, PlainPlaces
<1>7. /\ ScopesOK(ds, cf) /\ Len(ds) = Len(ss) /\ Len(ss) \in Nat
      /\ Suffixes(ss) = {ss} \union Suffixes(rest) /\ Suffixes(ds) = {ds} \union Suffixes(rest)
      /\ Head(ds) = d /\ Weight(ds) = d.size + Weight(rest) /\ d.size \in Nat
  BY <1>1, ScopesChange
<1>8. Heads(Tail(t), ds)
  <2>1. Heads(t, ss)
    BY <1>1 DEF HeadsOK
  <2>2. Suffixes(t) = {t} \union Suffixes(Tail(t))
    BY <1>3, StackFront
  <2>3. \A u \in Suffixes(Tail(t)) : Head(u).pc = "forStart" => Domains(u) < Domains(t) /\ Domains(u) \in Nat
    BY <1>3, StatementShields
  <2> HIDE DEF ds, rest, t
  <2>4. \A u \in Suffixes(Tail(t)) : Head(u).pc = "forStart" => Len(ds) # 1 + Domains(u)
    BY <1>1, <1>4, <1>7, <2>3
  <2>5. QED
    BY <1>7, <2>1, <2>2, <2>4 DEF Heads
<1>9. Conds(t, ds)
  BY <1>3, OverSelf, NoConds DEF OnStatement
<1>10. HeadsOK(t, Passed, ds, es)
  BY <1>8, <1>9, Results DEF HeadsOK
<1>11. Balanced(t, Passed, ds, es, lv2) /\ lv2 \in Nat
  <2>1. /\ Weight(s) = Head(s).size + Weight(t) /\ Weight(t) \in Nat /\ Head(s).size \in Nat
        /\ lv \in Nat /\ Weight(ss) = Head(ss).size + Weight(rest) /\ Weight(rest) \in Nat
        /\ Head(ss).size \in Nat /\ Flight(Head(s), r) \in Nat
    BY SafeWeights
  <2>2. lv = Weight(s) + Weight(ss) + Flight(Head(s), r)
    BY DEF Safe, Balanced
  <2>3. d.size \in Nat /\ Flight(Head(t), Passed) = 0
    BY Results DEF ScopeOK
  <2> DEFINE a == Head(s).size
             b == Weight(t)
             c == Head(ss).size
             e == Weight(rest)
             f == Flight(Head(s), r)
             g == Flight(Head(t), Passed)
             n == d.size
  <2>4. /\ a \in Nat /\ b \in Nat /\ c \in Nat /\ e \in Nat /\ f \in Nat /\ n \in Nat /\ g = 0
        /\ lv = (a + b) + (c + e) + f /\ lv2 + (a + f) + c = lv + n
    BY <2>1, <2>2, <2>3
  <2>5. Weight(ds) = n + e
    BY <1>7
  <2> HIDE DEF a, b, c, e, f, g, n
  <2>6. lv2 \in Nat /\ lv2 = b + (n + e) + g /\ b + (n + e) + g <= lv2
    BY <2>4
  <2>7. QED
    BY <2>5, <2>6 DEF Balanced, b, g
<1> HIDE DEF ds, rest, t
<1>12. Safe(t, Passed, ds, cf, es, lv2)
  BY <1>1, <1>3, <1>4, <1>7, <1>10, <1>11, Results DEF Safe
<1>13. QED
  BY <1>12 DEF ds, rest, t

\* The innermost domain gets an item from a call that goes on in the same place: a
\* declaration, at the root, or a list of statements.
LEMMA AddsUnder ==
  ASSUME NEW s, NEW r, NEW ss, NEW cf, NEW es, NEW lv, Safe(s, r, ss, cf, es, lv), ~es,
         OpenedBy(Head(s)) = 0, Kind(Head(s).pc) \in {"declaration", "list"},
         NEW d, ScopeOK(d), d.kind = Head(ss).kind,
         NEW g, FrameOK(g), OpenedBy(g) = 0, Kind(g.pc) = Kind(Head(s).pc),
         NEW r2, ResultOK(r2), NEW lv2 \in Int,
         lv2 + (Head(s).size + Flight(Head(s), r)) + Head(ss).size = lv + g.size + Flight(g, r2) + d.size
  PROVE  Safe(<<g>> \o Tail(s), r2, <<d>> \o Tail(ss), cf, es, lv2)
<1> DEFINE t  == Tail(s)
           rest == Tail(ss)
           ds == <<d>> \o rest
           gs == <<g>> \o t
<1>1. /\ StackOK(s) /\ s # <<>> /\ ScopesOK(ss, cf) /\ Len(ss) = 1 + Domains(s)
      /\ (cf # None <=> Runs(s)) /\ HeadsOK(s, r, ss, es) /\ es \in BOOLEAN
  BY DEF Safe
<1>2. StackOK(t) /\ IsSeq(t) /\ Fits(Kind(g.pc), t) /\ NoValueWaits(t)
  BY <1>1, StackSplit, NoWaitsBelow
<1>3. /\ StackOK(gs) /\ gs # <<>> /\ Head(gs) = g /\ Tail(gs) = t
      /\ Weight(gs) = g.size + Weight(t) /\ Over(gs, t, g.size + 0)
      /\ Domains(gs) = Domains(t) /\ (Runs(gs) <=> Runs(t)) /\ ~Chooses(gs)
  <2>1. Over(gs, t, g.size + 0) /\ StackOK(gs) /\ gs # <<>> /\ Head(gs) = g /\ Tail(gs) = t
    BY <1>2, OverSelf, OverCons, StackCons
  <2>2. Weight(gs) = g.size + Weight(t)
    BY <1>2, StackWeight
  <2>3. g.pc # "combine"
    BY KindIs DEF OperandPlaces
  <2>4. QED
    BY <2>1, <2>2, <2>3 DEF Over, Chooses
<1>4. /\ Suffixes(s) = {s} \union Suffixes(t)
      /\ Domains(s) = Domains(t) /\ Domains(t) \in Nat
      /\ (cf # None <=> Runs(t))
  BY <1>1, StackFront, PlainPlaces
<1>7. /\ ScopesOK(ds, cf) /\ Len(ds) = Len(ss) /\ Len(ss) \in Nat
      /\ Suffixes(ss) = {ss} \union Suffixes(rest) /\ Suffixes(ds) = {ds} \union Suffixes(rest)
      /\ Head(ds) = d /\ Weight(ds) = d.size + Weight(rest) /\ d.size \in Nat
  BY <1>1, ScopesChange
<1>8. \A u \in Suffixes(t) : Head(u).pc = "forStart" => Len(ds) # 1 + Domains(u)
  <2>1. CASE Kind(g.pc) = "list"
    <3>1. t # <<>> /\ Head(t).pc \in ListWaits
      BY <1>2, <2>1 DEF Fits
    <3>2. \A u \in Suffixes(t) : Head(u).pc = "forStart" => Domains(u) < Domains(t) /\ Domains(u) \in Nat
      BY <1>2, <3>1, ListShields
    <3> HIDE DEF ds, rest, t
    <3>3. QED
      BY <1>1, <1>4, <1>7, <3>2
  <2>2. CASE Kind(g.pc) = "declaration"
    <3>1. Domains(t) = 0
      BY <1>2, <2>2 DEF Fits
    <3>2. QED
      BY <1>2, <3>1, NoneRuns
  <2>3. QED
    BY <2>1, <2>2
<1>9. HeadsOK(gs, r2, ds, es)
  <2>1. Heads(t, ss)
    BY <1>1 DEF HeadsOK
  <2> HIDE DEF ds, rest, t
  <2>2. Heads(t, ds)
    BY <1>7, <1>8, <2>1 DEF Heads
  <2>3. Conds(gs, ds)
    BY <1>2, <1>3, NoConds
  <2>4. g.pc # "forStart"
    BY PlainPlaces
  <2>5. QED
    BY <1>3, <2>2, <2>3, <2>4 DEF HeadsOK
<1>10. Balanced(gs, r2, ds, es, lv2) /\ lv2 \in Nat
  <2>1. /\ Weight(s) = Head(s).size + Weight(t) /\ Weight(t) \in Nat /\ Head(s).size \in Nat
        /\ lv \in Nat /\ Weight(ss) = Head(ss).size + Weight(rest) /\ Weight(rest) \in Nat
        /\ Head(ss).size \in Nat /\ Flight(Head(s), r) \in Nat
    BY SafeWeights
  <2>2. lv = Weight(s) + Weight(ss) + Flight(Head(s), r)
    BY DEF Safe, Balanced
  <2>3. d.size \in Nat /\ g.size \in Nat /\ Flight(g, r2) \in Nat
    BY FlightNat DEF ScopeOK, FrameOK
  <2> DEFINE a == Head(s).size
             b == Weight(t)
             c == Head(ss).size
             e == Weight(rest)
             f == Flight(Head(s), r)
             h == Flight(g, r2)
             m == g.size
             n == d.size
  <2>4. /\ a \in Nat /\ b \in Nat /\ c \in Nat /\ e \in Nat /\ f \in Nat /\ h \in Nat /\ m \in Nat /\ n \in Nat
        /\ lv = (a + b) + (c + e) + f /\ lv2 + (a + f) + c = lv + m + h + n
    BY <2>1, <2>2, <2>3
  <2>5. Weight(ds) = n + e /\ Weight(gs) = m + b /\ Flight(Head(gs), r2) = h
    BY <1>3, <1>7
  <2> HIDE DEF a, b, c, e, f, h, m, n
  <2>6. lv2 \in Nat /\ lv2 = (m + b) + (n + e) + h /\ (m + b) + (n + e) + h <= lv2
    <3> DEFINE x == (m + b) + (n + e) + h
    <3>1. x \in Nat
      BY <2>4
    <3>2. lv2 = x
      BY <2>4
    <3> HIDE DEF x
    <3>3. lv2 \in Nat /\ lv2 = x /\ x <= lv2
      BY <3>1, <3>2
    <3>4. QED
      BY <3>3 DEF x
  <2> HIDE DEF ds, gs
  <2>7. QED
    BY <2>5, <2>6 DEF Balanced
<1> HIDE DEF ds, rest, t, gs
<1>11. Safe(gs, r2, ds, cf, es, lv2)
  BY <1>1, <1>3, <1>4, <1>7, <1>9, <1>10 DEF Safe
<1>12. QED
  BY <1>11 DEF ds, rest, t, gs

LEMMA HeadsOver ==
  ASSUME NEW s, NEW t, NEW w, Over(s, t, w), s # <<>>, NEW ds, Heads(t, ds), Conds(t, ds),
         ds \in Suffixes(ds), Len(ds) = 1 + Domains(t), NEW r, NEW es
  PROVE  HeadsOK(s, r, ds, es)
<1>1. /\ StackOK(s) /\ Domains(s) = Domains(t)
      /\ \A u \in Suffixes(s) : u \in Suffixes(t) \/ OpenedBy(Head(u)) = 0
  BY DEF Over
<1>2. Suffixes(s) = {s} \union Suffixes(Tail(s))
  BY <1>1, StackFront
<1>3. \A u \in Suffixes(s) :
         u \in Suffixes(t) \/ Head(u).pc \notin {"forStart", "forCond", "forStep"}
  BY <1>1, PlainPlaces
<1>4. Heads(Tail(s), ds)
  BY <1>2, <1>3 DEF Heads
<1>5. Conds(s, ds)
  BY <1>3 DEF Conds
<1>6. Head(s).pc = "forStart" => Head(ds).cnt = 0
  <2>1. Head(s).pc = "forStart" => s \in Suffixes(t)
    BY <1>2, <1>3
  <2>2. QED
    BY <1>1, <2>1 DEF Heads
<1>7. QED
  BY <1>4, <1>5, <1>6 DEF HeadsOK

\* A domain is opened by a call that waits for what goes into it.
LEMMA Opens ==
  ASSUME NEW s, NEW r, NEW ss, NEW cf, NEW es, NEW lv, Safe(s, r, ss, cf, es, lv), ~es,
         Kind(Head(s).pc) \notin {"operand", "choice"}, Head(s).pc # "functionEnd",
         NEW g, FrameOK(g), Fits(Kind(g.pc), Tail(s)), OpenedBy(g) = OpenedBy(Head(s)) + 1,
         g.pc \notin ValueWaits,
         NEW cf2, IF g.pc = "functionEnd" THEN cf2 # None ELSE cf2 = cf,
         NEW d, ScopeOK(d), d.kind # "root", d.kind = "function" => cf2 # None,
         g.pc = "forStart" => d.cnt = 0,
         NEW s2, NEW w, Over(s2, <<g>> \o Tail(s), w), s2 # <<>>, ~Chooses(s2),
         NEW r2, ResultOK(r2), NEW lv2 \in Int,
         lv2 + (Head(s).size + Flight(Head(s), r)) = lv + w + g.size + d.size + Flight(Head(s2), r2)
  PROVE  Safe(s2, r2, <<d>> \o ss, cf2, es, lv2)
<1> DEFINE t  == Tail(s)
           gs == <<g>> \o t
           ds == <<d>> \o ss
<1>1. /\ StackOK(s) /\ s # <<>> /\ ScopesOK(ss, cf) /\ Len(ss) = 1 + Domains(s)
      /\ (cf # None <=> Runs(s)) /\ HeadsOK(s, r, ss, es) /\ es \in BOOLEAN
  BY DEF Safe
<1>2. /\ StackOK(t) /\ IsSeq(t) /\ NoValueWaits(t)
      /\ Domains(s) = OpenedBy(Head(s)) + Domains(t) /\ Domains(t) \in Nat
      /\ OpenedBy(Head(s)) \in Nat
      /\ Runs(s) <=> Runs(t)
  BY <1>1, StackSplit, StackFront, NoWaitsBelow
<1>3. /\ Suffixes(gs) = {gs} \union Suffixes(t) /\ Head(gs) = g
      /\ Domains(gs) = OpenedBy(g) + Domains(t)
      /\ Runs(gs) <=> g.pc = "functionEnd" \/ Runs(t)
      /\ Weight(gs) = g.size + Weight(t)
      /\ NoValueWaits(gs)
  <2>1. Suffixes(gs) = {gs} \union Suffixes(t) /\ Head(gs) = g
    <3>1. Suffixes(gs) = {gs} \union Suffixes(t)
      BY <1>2, SuffixesCons, Zenon
    <3>2. Head(gs) = g
      BY <1>2, ConsParts, Zenon
    <3>3. QED
      BY <3>1, <3>2
  <2>2. Domains(gs) = OpenedBy(g) + Domains(t)
    BY <1>2, DomainsCons
  <2>3. Runs(gs) <=> g.pc = "functionEnd" \/ Runs(t)
    BY <1>2, RunsCons
  <2>4. Weight(gs) = g.size + Weight(t)
    BY <1>2, StackWeight
  <2>5. NoValueWaits(gs)
    BY <1>2, NoValueWaitsCons
  <2> HIDE DEF t, gs
  <2>6. QED
    BY <2>1, <2>2, <2>3, <2>4, <2>5
<1>4. /\ StackOK(s2) /\ Weight(s2) = w + Weight(gs) /\ w \in Nat
      /\ Domains(s2) = Domains(gs) /\ (Runs(s2) <=> Runs(gs))
  BY DEF Over
<1>5. IsSeq(ss) /\ ss # <<>> /\ ScopesOK(ss, cf2)
  BY <1>1 DEF ScopesOK
<1>6. /\ ScopesOK(ds, cf2) /\ Len(ds) = Len(ss) + 1 /\ Len(ss) \in Nat
      /\ Suffixes(ds) = {ds} \union Suffixes(ss)
      /\ Head(ds) = d /\ Weight(ds) = d.size + Weight(ss)
  BY <1>5, ScopesCons
<1> HIDE DEF t, gs, ds
<1>7. Len(ds) = 1 + Domains(s2) /\ Len(ds) = 1 + Domains(gs)
  BY <1>1, <1>2, <1>3, <1>4, <1>6
<1>8. cf2 # None <=> Runs(s2)
  BY <1>1, <1>2, <1>3, <1>4
<1>9. Heads(gs, ds)
  <2>1. Heads(t, ss)
    BY <1>1 DEF HeadsOK, t
  <2>2. \A u \in Suffixes(t) : Domains(u) <= Domains(t) /\ Domains(u) \in Nat
    BY <1>2, DomainsBelow
  <2>3. \A u \in Suffixes(t) : Len(ds) # 1 + Domains(u)
    BY <1>1, <1>2, <1>6, <2>2
  <2>4. \A x \in Suffixes(ss) : Len(x) <= Len(ss) /\ Len(x) \in Nat
    BY <1>5, SuffixParts, SeqParts
  <2>5. \A x \in Suffixes(ss) : Len(x) # 1 + Domains(gs)
    BY <1>6, <1>7, <2>4
  <2>6. QED
    BY <1>3, <1>6, <2>1, <2>3, <2>5 DEF Heads
<1>10. Conds(gs, ds)
  BY <1>3 DEF NoValueWaits, ValueWaits, Conds
<1>11. HeadsOK(s2, r2, ds, es)
  <2>1. Over(s2, gs, w)
    BY DEF gs, t
  <2>2. QED
    BY <1>6, <1>7, <1>9, <1>10, <2>1, HeadsOver
<1>12. Balanced(s2, r2, ds, es, lv2) /\ lv2 \in Nat
  <2>1. /\ Weight(s) = Head(s).size + Weight(t) /\ Weight(t) \in Nat /\ Head(s).size \in Nat
        /\ lv \in Nat /\ Flight(Head(s), r) \in Nat
        /\ Weight(ss) = Head(ss).size + Weight(Tail(ss)) /\ Weight(Tail(ss)) \in Nat /\ Head(ss).size \in Nat
    BY SafeWeights DEF t
  <2>2. lv = Weight(s) + Weight(ss) + Flight(Head(s), r)
    BY DEF Safe, Balanced
  <2>3. d.size \in Nat /\ g.size \in Nat /\ Flight(Head(s2), r2) \in Nat
    BY FlightNat DEF ScopeOK, FrameOK
  <2>4. Weight(ss) \in Nat
    BY <2>1
  <2> DEFINE a == Head(s).size
             b == Weight(t)
             c == Weight(ss)
             f == Flight(Head(s), r)
             h == Flight(Head(s2), r2)
             m == g.size
             n == d.size
  <2>5. /\ a \in Nat /\ b \in Nat /\ c \in Nat /\ f \in Nat /\ h \in Nat /\ m \in Nat /\ n \in Nat
        /\ w \in Nat /\ lv = (a + b) + c + f /\ lv2 + (a + f) = lv + w + m + n + h
    BY <1>4, <2>1, <2>2, <2>3, <2>4
  <2>6. Weight(ds) = n + c /\ Weight(s2) = w + (m + b)
    BY <1>3, <1>4, <1>6
  <2> HIDE DEF a, b, c, f, h, m, n
  <2>7. /\ lv2 \in Nat /\ lv2 = (w + (m + b)) + (n + c) + h
        /\ (w + (m + b)) + (n + c) + h <= lv2
    BY <2>5
  <2>8. QED
    BY <2>6, <2>7 DEF Balanced, h
<1>13. Safe(s2, r2, ds, cf2, es, lv2)
  BY <1>1, <1>4, <1>6, <1>7, <1>8, <1>11, <1>12 DEF Safe
<1>14. QED
  BY <1>13 DEF ds

\* The head of a for gets its next part.
LEMMA HeadMoves ==
  ASSUME NEW s, NEW r, NEW ss, NEW cf, NEW es, NEW lv, Safe(s, r, ss, cf, es, lv), ~es,
         Head(s).pc \in {"forStart", "forCond", "forStep"},
         NEW g, FrameOK(g), Kind(g.pc) = "compound", OpenedBy(g) = 1, g.pc # "forStart",
         NEW d, ScopeOK(d), d.kind = Head(ss).kind,
         g.pc = "forCond" => d.cnt = 1, g.pc = "forStep" => d.cnt = 2,
         NEW s2, NEW w, Over(s2, <<g>> \o Tail(s), w), s2 # <<>>, ~Chooses(s2),
         NEW r2, ResultOK(r2), NEW lv2 \in Int,
         lv2 + (Head(s).size + Flight(Head(s), r)) + Head(ss).size
            = lv + w + g.size + d.size + Flight(Head(s2), r2)
  PROVE  Safe(s2, r2, <<d>> \o Tail(ss), cf, es, lv2)
<1> DEFINE t  == Tail(s)
           gs == <<g>> \o t
           rest == Tail(ss)
           ds == <<d>> \o rest
<1>1. /\ StackOK(s) /\ s # <<>> /\ ScopesOK(ss, cf) /\ Len(ss) = 1 + Domains(s)
      /\ (cf # None <=> Runs(s)) /\ HeadsOK(s, r, ss, es) /\ es \in BOOLEAN
  BY DEF Safe
<1>2. Kind(Head(s).pc) = "compound" /\ OpenedBy(Head(s)) = 1
  BY KindIs DEF CompoundPlaces, OpenedBy
<1>3. /\ StackOK(t) /\ IsSeq(t) /\ NoValueWaits(t)
      /\ Domains(s) = 1 + Domains(t) /\ Domains(t) \in Nat
      /\ Runs(s) <=> Runs(t)
  BY <1>1, <1>2, StackSplit, StackFront, NoWaitsBelow
<1>4. g.pc # "functionEnd"
  BY KindIs DEF DeclarationPlaces
<1>5. /\ Suffixes(gs) = {gs} \union Suffixes(t) /\ Head(gs) = g
      /\ Domains(gs) = OpenedBy(g) + Domains(t)
      /\ Runs(gs) <=> Runs(t)
      /\ Weight(gs) = g.size + Weight(t)
  <2>1. Suffixes(gs) = {gs} \union Suffixes(t) /\ Head(gs) = g
    <3>1. Suffixes(gs) = {gs} \union Suffixes(t)
      BY <1>3, SuffixesCons, Zenon
    <3>2. Head(gs) = g
      BY <1>3, ConsParts, Zenon
    <3>3. QED
      BY <3>1, <3>2
  <2>2. Domains(gs) = OpenedBy(g) + Domains(t)
    BY <1>3, DomainsCons
  <2>3. Runs(gs) <=> Runs(t)
    BY <1>3, <1>4, RunsCons
  <2>4. Weight(gs) = g.size + Weight(t)
    BY <1>3, StackWeight
  <2> HIDE DEF t, gs
  <2>5. QED
    BY <2>1, <2>2, <2>3, <2>4
<1>6. /\ StackOK(s2) /\ Weight(s2) = w + Weight(gs) /\ w \in Nat
      /\ Domains(s2) = Domains(gs) /\ (Runs(s2) <=> Runs(gs))
  BY DEF Over
<1>7. /\ ScopesOK(ds, cf) /\ Len(ds) = Len(ss) /\ Len(ss) \in Nat
      /\ Suffixes(ss) = {ss} \union Suffixes(rest) /\ Suffixes(ds) = {ds} \union Suffixes(rest)
      /\ Head(ds) = d /\ Weight(ds) = d.size + Weight(rest) /\ d.size \in Nat
  BY <1>1, ScopesChange
<1> HIDE DEF t, gs, ds, rest
<1>8. Len(ds) = 1 + Domains(s2) /\ Len(ds) = 1 + Domains(gs) /\ (cf # None <=> Runs(s2))
  BY <1>1, <1>3, <1>5, <1>6, <1>7
<1>9. Heads(gs, ds)
  <2>1. Heads(t, ss)
    BY <1>1 DEF HeadsOK, t
  <2>2. \A u \in Suffixes(t) : Domains(u) <= Domains(t) /\ Domains(u) \in Nat
    BY <1>3, DomainsBelow
  <2>3. \A u \in Suffixes(t) : Len(ds) # 1 + Domains(u)
    BY <1>1, <1>3, <1>7, <2>2
  <2>4. QED
    BY <1>5, <1>7, <2>1, <2>3 DEF Heads
<1>10. Conds(gs, ds)
  BY <1>3, <1>5, <1>7 DEF NoValueWaits, ValueWaits, Conds
<1>11. HeadsOK(s2, r2, ds, es)
  <2>1. Over(s2, gs, w)
    BY DEF gs, t
  <2>2. QED
    BY <1>7, <1>8, <1>9, <1>10, <2>1, HeadsOver
<1>12. Balanced(s2, r2, ds, es, lv2) /\ lv2 \in Nat
  <2>1. /\ Weight(s) = Head(s).size + Weight(t) /\ Weight(t) \in Nat /\ Head(s).size \in Nat
        /\ lv \in Nat /\ Flight(Head(s), r) \in Nat
        /\ Weight(ss) = Head(ss).size + Weight(rest) /\ Weight(rest) \in Nat /\ Head(ss).size \in Nat
    BY SafeWeights DEF t, rest
  <2>2. lv = Weight(s) + Weight(ss) + Flight(Head(s), r)
    BY DEF Safe, Balanced
  <2>3. d.size \in Nat /\ g.size \in Nat /\ Flight(Head(s2), r2) \in Nat
    BY FlightNat DEF ScopeOK, FrameOK
  <2> DEFINE a == Head(s).size
             b == Weight(t)
             c == Head(ss).size
             e == Weight(rest)
             f == Flight(Head(s), r)
             h == Flight(Head(s2), r2)
             m == g.size
             n == d.size
  <2>4. /\ a \in Nat /\ b \in Nat /\ c \in Nat /\ e \in Nat /\ f \in Nat /\ h \in Nat
        /\ m \in Nat /\ n \in Nat /\ w \in Nat
        /\ lv = (a + b) + (c + e) + f /\ lv2 + (a + f) + c = lv + w + m + n + h
    BY <1>6, <2>1, <2>2, <2>3
  <2>5. Weight(ds) = n + e /\ Weight(s2) = w + (m + b)
    BY <1>5, <1>6, <1>7
  <2> HIDE DEF a, b, c, e, f, h, m, n
  <2>6. /\ lv2 \in Nat /\ lv2 = (w + (m + b)) + (n + e) + h
        /\ (w + (m + b)) + (n + e) + h <= lv2
    <3> DEFINE z == (w + (m + b)) + (n + e) + h
               y == (a + f) + c
    <3>1. y \in Nat /\ z \in Nat
      BY <2>4
    <3>2. lv2 + y = z + y
      BY <2>4
    <3> HIDE DEF y, z
    <3>3. lv2 = z /\ lv2 \in Nat /\ z <= lv2
      BY <3>1, <3>2
    <3>4. QED
      BY <3>3 DEF z
  <2>7. QED
    BY <2>5, <2>6 DEF Balanced, h
<1>13. Safe(s2, r2, ds, cf, es, lv2)
  BY <1>1, <1>6, <1>7, <1>8, <1>11, <1>12 DEF Safe
<1>14. QED
  BY <1>13 DEF ds, rest

\* The domains that a call has opened are closed; the innermost that is left may take
\* over what they own.
LEMMA Closes ==
  ASSUME NEW s, NEW r, NEW ss, NEW cf, NEW es, NEW lv, Safe(s, r, ss, cf, es, lv),
         Kind(Head(s).pc) \notin {"operand", "choice"},
         NEW rest, ScopesOK(rest, cf), Suffixes(rest) \subseteq Suffixes(ss),
         Len(rest) = Len(ss) - OpenedBy(Head(s)),
         NEW d, ScopeOK(d), d.kind = Head(rest).kind, d.cnt = Head(rest).cnt,
         NEW cf2, cf2 = IF Head(s).pc = "functionEnd" THEN None ELSE cf,
         NEW s2, NEW w, Over(s2, Tail(s), w), s2 # <<>>, ~Chooses(s2),
         NEW r2, ResultOK(r2), NEW es2 \in BOOLEAN, NEW lv2 \in Int,
         es => es2, es2 => ~r2.ok /\ Head(s2).pc \in Waits,
         lv2 + (Head(s).size + Flight(Head(s), r)) + Weight(ss) + Head(rest).size
            >= lv + w + d.size + Weight(rest) + Flight(Head(s2), r2),
         ~es2 => lv2 + (Head(s).size + Flight(Head(s), r)) + Weight(ss) + Head(rest).size
                   = lv + w + d.size + Weight(rest) + Flight(Head(s2), r2)
  PROVE  Safe(s2, r2, <<d>> \o Tail(rest), cf2, es2, lv2)
<1> DEFINE t  == Tail(s)
           under == Tail(rest)
           ds == <<d>> \o under
<1>1. /\ StackOK(s) /\ s # <<>> /\ ScopesOK(ss, cf) /\ Len(ss) = 1 + Domains(s)
      /\ (cf # None <=> Runs(s)) /\ HeadsOK(s, r, ss, es) /\ es \in BOOLEAN
  BY DEF Safe
<1>2. /\ StackOK(t) /\ NoValueWaits(t) /\ Fits(Kind(Head(s).pc), t)
      /\ Domains(s) = OpenedBy(Head(s)) + Domains(t) /\ Domains(t) \in Nat
      /\ OpenedBy(Head(s)) \in Nat
      /\ Runs(s) <=> Head(s).pc = "functionEnd" \/ Runs(t)
  BY <1>1, StackSplit, StackFront, NoWaitsBelow
<1>3. /\ StackOK(s2) /\ Weight(s2) = w + Weight(t) /\ w \in Nat /\ Weight(t) \in Nat
      /\ Domains(s2) = Domains(t) /\ (Runs(s2) <=> Runs(t))
  BY DEF Over
<1>4. /\ ScopesOK(ds, cf) /\ Len(ds) = Len(rest) /\ Len(rest) \in Nat
      /\ Suffixes(rest) = {rest} \union Suffixes(under) /\ Suffixes(ds) = {ds} \union Suffixes(under)
      /\ Head(ds) = d /\ Weight(ds) = d.size + Weight(under) /\ d.size \in Nat
  BY ScopesChange
<1>5. /\ Weight(rest) = Head(rest).size + Weight(under) /\ Weight(under) \in Nat
      /\ Head(rest).size \in Nat
  BY ScopesSplit DEF ScopeOK
<1>6. Over(s2, t, w)
  OBVIOUS
<1> HIDE DEF t, ds, under
<1>7. Len(ds) = 1 + Domains(s2) /\ Len(ds) = 1 + Domains(t)
  BY <1>1, <1>2, <1>3, <1>4
<1>8. cf2 # None <=> Runs(s2)
  <2>1. CASE Head(s).pc = "functionEnd"
    <3>1. Domains(t) = 0
      BY <1>2, <2>1, KindIs DEF Fits, DeclarationPlaces
    <3>2. ~Runs(t)
      BY <1>2, <3>1, NoneRuns
    <3>3. QED
      BY <1>3, <2>1, <3>2
  <2>2. CASE Head(s).pc # "functionEnd"
    BY <1>1, <1>2, <1>3, <2>2
  <2>3. QED
    BY <2>1, <2>2
<1>9. ScopesOK(ds, cf2)
  <2>1. CASE Head(s).pc = "functionEnd"
    <3>1. Domains(t) = 0
      BY <1>2, <2>1, KindIs DEF Fits, DeclarationPlaces
    <3>2. Len(ds) = 1
      <4> DEFINE k == Domains(t)
                 n == Len(ds)
      <4>1. k = 0 /\ n = 1 + k
        BY <1>7, <3>1
      <4> HIDE DEF k, n
      <4>2. n = 1
        BY <4>1
      <4>3. QED
        BY <4>2 DEF n
    <3>3. under = <<>>
      BY <1>4, <3>2, ScopesSplit DEF under
    <3>4. Suffixes(ds) = {ds} /\ Head(ds).kind = "root"
      BY <1>4, <3>2, <3>3, SuffixesEmpty DEF ScopesOK
    <3>5. QED
      BY <1>4, <3>4 DEF ScopesOK
  <2>2. CASE Head(s).pc # "functionEnd"
    BY <1>4, <2>2
  <2>3. QED
    BY <2>1, <2>2
<1>10. Heads(t, ds)
  <2>1. Heads(t, ss)
    BY <1>1 DEF HeadsOK, t
  <2>2. QED
    BY <1>4, <2>1 DEF Heads
<1>11. Conds(t, ds)
  BY <1>2 DEF NoValueWaits, ValueWaits, Conds
<1>12. HeadsOK(s2, r2, ds, es2)
  BY <1>4, <1>6, <1>7, <1>10, <1>11, HeadsOver
<1>13. Balanced(s2, r2, ds, es2, lv2) /\ lv2 \in Nat
  <2>1. /\ Weight(s) = Head(s).size + Weight(t) /\ Head(s).size \in Nat
        /\ lv \in Nat /\ Flight(Head(s), r) \in Nat
        /\ Weight(ss) = Head(ss).size + Weight(Tail(ss)) /\ Weight(Tail(ss)) \in Nat /\ Head(ss).size \in Nat
    BY SafeWeights DEF t
  <2>2. /\ Weight(s) + Weight(ss) + Flight(Head(s), r) <= lv
        /\ ~es => lv = Weight(s) + Weight(ss) + Flight(Head(s), r)
    BY DEF Safe, Balanced
  <2>3. Flight(Head(s2), r2) \in Nat
    BY FlightNat
  <2>4. Weight(ss) \in Nat
    BY <2>1
  <2> DEFINE a == Head(s).size
             b == Weight(t)
             c == Weight(ss)
             f == Flight(Head(s), r)
             h == Flight(Head(s2), r2)
             m == Head(rest).size
             n == d.size
             e == Weight(under)
  <2>5. /\ a \in Nat /\ b \in Nat /\ c \in Nat /\ f \in Nat /\ h \in Nat /\ m \in Nat /\ n \in Nat
        /\ e \in Nat /\ w \in Nat /\ lv \in Nat
        /\ (a + b) + c + f <= lv /\ (~es => lv = (a + b) + c + f)
        /\ lv2 + (a + f) + c + m >= lv + w + n + (m + e) + h
        /\ ~es2 => lv2 + (a + f) + c + m = lv + w + n + (m + e) + h
    BY <1>3, <1>4, <1>5, <2>1, <2>2, <2>3, <2>4
  <2>6. Weight(ds) = n + e /\ Weight(s2) = w + b
    BY <1>3, <1>4
  <2> HIDE DEF a, b, c, f, h, m, n, e
  <2>7. /\ lv2 \in Nat /\ (w + b) + (n + e) + h <= lv2
        /\ ~es2 => lv2 = (w + b) + (n + e) + h
    <3>1. /\ lv \in Nat /\ (a + b) + c + f <= lv
          /\ lv2 + (a + f) + c + m >= lv + w + n + (m + e) + h
      BY <2>5
    <3>2. lv2 \in Nat /\ (w + b) + (n + e) + h <= lv2
      BY <2>5, <3>1
    <3>3. ASSUME ~es2 PROVE lv2 = (w + b) + (n + e) + h
      <4>1. /\ lv = (a + b) + c + f
            /\ lv2 + (a + f) + c + m = lv + w + n + (m + e) + h
        BY <2>5, <3>3
      <4>2. QED
        BY <2>5, <4>1
    <3>4. QED
      BY <3>2, <3>3
  <2>8. QED
    BY <2>6, <2>7 DEF Balanced, h
<1>14. Safe(s2, r2, ds, cf2, es2, lv2)
  BY <1>3, <1>7, <1>8, <1>9, <1>12, <1>13 DEF Safe
<1>15. QED
  BY <1>14 DEF ds, under

\* What is left of the domains.
LEMMA OneLess ==
  ASSUME NEW ss, NEW cf, ScopesOK(ss, cf), Len(ss) > 1
  PROVE  /\ ScopesOK(Tail(ss), cf) /\ Suffixes(Tail(ss)) \subseteq Suffixes(ss)
         /\ Len(Tail(ss)) = Len(ss) - 1
         /\ Weight(ss) = Head(ss).size + Weight(Tail(ss))
         /\ Head(ss).size \in Nat /\ Weight(Tail(ss)) \in Nat
         /\ Head(ss) = ss[1] /\ Head(Tail(ss)) = ss[2] /\ Head(Tail(ss)) = Tail(ss)[1]
         /\ Tail(ss) = <<Head(Tail(ss))>> \o Tail(Tail(ss))
<1>1. /\ Tail(ss) # <<>> /\ ScopesOK(Tail(ss), cf) /\ Suffixes(Tail(ss)) \subseteq Suffixes(ss)
      /\ Len(Tail(ss)) = Len(ss) - 1
      /\ Weight(ss) = Head(ss).size + Weight(Tail(ss))
      /\ Head(ss).size \in Nat /\ Weight(Tail(ss)) \in Nat
  <2>1. /\ Tail(ss) = <<>> <=> Len(ss) = 1
        /\ Tail(ss) # <<>> => ScopesOK(Tail(ss), cf)
        /\ Suffixes(ss) = {ss} \union Suffixes(Tail(ss))
        /\ Len(Tail(ss)) = Len(ss) - 1
        /\ Weight(ss) = Head(ss).size + Weight(Tail(ss))
        /\ ScopeOK(Head(ss)) /\ Weight(Tail(ss)) \in Nat
    BY ScopesSplit
  <2>2. Len(ss) # 1
    <3>1. Len(ss) \in Nat
      BY ScopesSplit
    <3> DEFINE n == Len(ss)
    <3>2. n \in Nat /\ n > 1
      BY <3>1
    <3> HIDE DEF n
    <3>3. n # 1
      BY <3>2
    <3>4. QED
      BY <3>3 DEF n
  <2>3. Head(ss).size \in Nat
    BY <2>1 DEF ScopeOK
  <2>4. Tail(ss) # <<>>
    BY <2>1, <2>2
  <2>5. QED
    BY <2>1, <2>3, <2>4
<1>2. Head(ss) = ss[1] /\ ss = <<Head(ss)>> \o Tail(ss) /\ IsSeq(Tail(ss))
  BY SeqSplit DEF ScopesOK
<1>3. Head(Tail(ss)) = Tail(ss)[1] /\ Tail(ss) = <<Head(Tail(ss))>> \o Tail(Tail(ss))
  BY <1>1, <1>2, SeqSplit
<1>4. ss[2] = Tail(ss)[1]
  <2> DEFINE t == Tail(ss)
             h == Head(ss)
  <2>1. IsSeq(t) /\ t # <<>> /\ ss = <<h>> \o t
    BY <1>1, <1>2
  <2> HIDE DEF t, h
  <2>2. 1 \in 1..Len(t)
    BY <2>1, SeqParts
  <2>3. (<<h>> \o t)[1 + 1] = t[1]
    BY <2>1, <2>2, ConsParts
  <2>4. QED
    BY <2>1, <2>3 DEF t
<1>5. QED
  BY <1>1, <1>2, <1>3, <1>4

-----------------------------------------------------------------------------
(* From the invariant before a step to the invariant after it.              *)

LEMMA TakeOK ==
  ASSUME NEW b, IsSeq(b), Len(b) <= 3, NEW n \in Nat
  PROVE  IsSeq(SubSeq(b, n + 1, Len(b))) /\ Len(SubSeq(b, n + 1, Len(b))) <= 3
<1> DEFINE S == {b[k] : k \in DOMAIN b}
<1>1. Len(b) \in Nat /\ DOMAIN b = 1..Len(b)
  BY SeqParts
<1>2. \A k \in (n + 1)..Len(b) : b[k] \in S
  BY <1>1
<1> HIDE DEF S
<1>3. /\ SubSeq(b, n + 1, Len(b)) \in Seq(S)
      /\ Len(SubSeq(b, n + 1, Len(b))) = IF n + 1 <= Len(b) THEN Len(b) - (n + 1) + 1 ELSE 0
  BY <1>1, <1>2, SubSeqProperties
<1>4. IsSeq(SubSeq(b, n + 1, Len(b)))
  BY <1>3, SeqOfAny
<1>5. QED
  BY <1>1, <1>3, <1>4

LEMMA AppendOK ==
  ASSUME NEW b, IsSeq(b), NEW x
  PROVE  IsSeq(Append(b, x)) /\ Len(Append(b, x)) = Len(b) + 1
<1> DEFINE S == {b[k] : k \in DOMAIN b} \union {x}
<1>1. {b[k] : k \in DOMAIN b} \subseteq S /\ x \in S
  OBVIOUS
<1>2. b \in Seq(S)
  BY <1>1, SeqMonotonic DEF IsSeq
<1> HIDE DEF S
<1>3. Append(b, x) \in Seq(S) /\ Len(Append(b, x)) = Len(b) + 1
  BY <1>1, <1>2
<1>4. QED
  BY <1>3, SeqOfAny

\* A call goes on: what is known of its frame and of what was returned to it.
LEMMA Reading ==
  ASSUME IInv, NEW p, On(p)
  PROVE  /\ verdict = "parsing" /\ failed = 0 /\ Top.pc = p
         /\ Safe(stack, ret, scopes, curFunc, errs, live) /\ FuncsOK(funcs)
         /\ StackOK(stack) /\ stack # <<>>
         /\ stack = <<Top>> \o Tail(stack)
         /\ IsSeq(Tail(stack)) /\ StackOK(Tail(stack))
         /\ FrameOK(Top) /\ Fits(Kind(p), Tail(stack)) /\ Top.size \in Nat
         /\ ScopesOK(scopes, curFunc) /\ ScopeOK(Cur)
         /\ Len(scopes) = 1 + Domains(stack)
         /\ ResultOK(ret) /\ ret.size \in Nat /\ ret.ok \in BOOLEAN /\ (~ret.ok => ret.size = 0)
         /\ errs \in BOOLEAN /\ live \in Nat
         /\ errs => ~ret.ok /\ p \in Waits
<1>1. /\ verdict = "parsing" /\ failed = 0 /\ Top.pc = p
      /\ Safe(stack, ret, scopes, curFunc, errs, live) /\ FuncsOK(funcs)
  BY DEF IInv, On
<1>2. /\ StackOK(stack) /\ stack # <<>> /\ ScopesOK(scopes, curFunc)
      /\ Len(scopes) = 1 + Domains(stack)
      /\ ResultOK(ret) /\ errs \in BOOLEAN /\ live \in Nat
      /\ errs => ~ret.ok /\ Head(stack).pc \in Waits
  BY <1>1 DEF Safe
<1>3. /\ stack = <<Head(stack)>> \o Tail(stack)
      /\ IsSeq(Tail(stack)) /\ StackOK(Tail(stack))
      /\ FrameOK(Head(stack)) /\ Fits(Kind(Head(stack).pc), Tail(stack))
  BY <1>2, StackSplit
<1>4. ScopeOK(Head(scopes))
  BY <1>2, ScopesSplit
<1>5. /\ ret.size \in Nat /\ ret.ok \in BOOLEAN /\ (~ret.ok => ret.size = 0)
      /\ Head(stack).size \in Nat
  BY <1>2, <1>3 DEF ResultOK, FrameOK
<1>6. QED
  BY <1>1, <1>2, <1>3, <1>4, <1>5 DEF Top, Cur

\* The nodes of a call and of the value that was returned to it.
Carried == Top.size + Flight(Top, ret)

LEMMA CarriedIs ==
  ASSUME IInv, NEW p, On(p)
  PROVE  /\ Carried \in Nat /\ Top.size \in Nat /\ ret.size \in Nat
         /\ p \in OwnsNothing => Top.size = 0
         /\ p \notin Carries \/ ~ret.ok => Carried = Top.size
         /\ p \in Carries => Carried = Top.size + ret.size
         /\ p \in OwnsNothing /\ p \in Carries => Carried = ret.size
         /\ p \in OwnsNothing /\ (p \notin Carries \/ ~ret.ok) => Carried = 0
<1>1. /\ Top.pc = p /\ FrameOK(Top) /\ Top.size \in Nat /\ ret.size \in Nat
      /\ ret.ok \in BOOLEAN /\ (~ret.ok => ret.size = 0)
  BY Reading
<1>2. p \in OwnsNothing => Top.size = 0
  BY <1>1 DEF FrameOK
<1>3. Flight(Top, ret) = IF p \in Carries THEN ret.size ELSE 0
  BY <1>1 DEF Flight
<1> DEFINE a == Top.size
           b == Flight(Top, ret)
           c == ret.size
<1>4. /\ a \in Nat /\ c \in Nat /\ Carried = a + b
      /\ p \in OwnsNothing => a = 0
      /\ b = IF p \in Carries THEN c ELSE 0
      /\ ~ret.ok => c = 0
  BY <1>1, <1>2, <1>3 DEF Carried
<1> HIDE DEF a, b, c
<1>5. /\ Carried \in Nat
      /\ p \notin Carries \/ ~ret.ok => Carried = a
      /\ p \in Carries => Carried = a + c
      /\ p \in OwnsNothing /\ p \in Carries => Carried = c
      /\ p \in OwnsNothing /\ (p \notin Carries \/ ~ret.ok) => Carried = 0
  BY <1>4
<1>6. QED
  BY <1>1, <1>2, <1>5 DEF a, b, c

\* What it carries is alive.
LEMMA CarriedLives ==
  ASSUME IInv, NEW p, On(p)
  PROVE  live \in Nat /\ Carried <= live
<1>1. Safe(stack, ret, scopes, curFunc, errs, live) /\ live \in Nat
  BY Reading
<1>2. /\ Weight(stack) = Top.size + Weight(Tail(stack)) /\ Weight(Tail(stack)) \in Nat
      /\ Top.size \in Nat /\ Flight(Top, ret) \in Nat
      /\ Weight(scopes) = Head(scopes).size + Weight(Tail(scopes))
      /\ Weight(Tail(scopes)) \in Nat /\ Head(scopes).size \in Nat
  BY <1>1, SafeWeights DEF Top
<1>3. Weight(stack) + Weight(scopes) + Flight(Top, ret) <= live
  BY <1>1 DEF Safe, Balanced, Top
<1> DEFINE a == Top.size
           b == Flight(Top, ret)
           c == Weight(Tail(stack))
           d == Weight(scopes)
<1>4. d \in Nat
  BY <1>2
<1>5. a \in Nat /\ b \in Nat /\ c \in Nat /\ (a + c) + d + b <= live /\ Carried = a + b
  BY <1>2, <1>3 DEF Carried
<1> HIDE DEF a, b, c, d
<1>6. QED
  BY <1>1, <1>4, <1>5

LEMMA Proceeds ==
  ASSUME IInv, verdict = "parsing", NEW n \in Nat, Take(n), UNCHANGED outcome,
         Safe(stack', ret', scopes', curFunc', errs', live'), FuncsOK(funcs'),
         curFunc' \in Idents \union {None}
  PROVE  IInv'
<1>1. /\ IsSeq(buf) /\ Len(buf) <= 3 /\ failed = 0
  BY DEF IInv, TypeOK
<1>2. IsSeq(buf') /\ Len(buf') <= 3
  BY <1>1, TakeOK DEF Take
<1>3. verdict' = "parsing" /\ failed' = 0
  BY <1>1 DEF outcome
<1>4. live' \in Nat /\ scopes' # <<>> /\ errs' \in BOOLEAN
  BY DEF Safe, ScopesOK
<1>5. TypeOK'
  BY <1>2, <1>3, <1>4 DEF TypeOK
<1>6. AcceptedLeaksNothing' /\ AssertionsHold'
  BY <1>3 DEF AcceptedLeaksNothing, AssertionsHold
<1>7. QED
  BY <1>2, <1>3, <1>4, <1>5, <1>6 DEF IInv

\* The domains and the functions stay; the parser is at work.
LEMMA Stays ==
  ASSUME IInv, NEW p, On(p), NEW n \in Nat, Take(n), UNCHANGED <<tables, outcome>>,
         Safe(stack', ret', scopes, curFunc, errs', live')
  PROVE  IInv'
<1>1. scopes' = scopes /\ curFunc' = curFunc /\ funcs' = funcs /\ UNCHANGED outcome
  BY DEF tables
<1>2. verdict = "parsing" /\ FuncsOK(funcs)
  BY Reading
<1>3. curFunc \in Idents \union {None}
  BY DEF IInv, TypeOK
<1>4. Safe(stack', ret', scopes', curFunc', errs', live') /\ FuncsOK(funcs')
      /\ curFunc' \in Idents \union {None}
  BY <1>1, <1>2, <1>3
<1>5. QED
  BY <1>1, <1>2, <1>4, Proceeds

\* What a call owns and what was returned to it, together.
LEMMA Together ==
  ASSUME NEW s, NEW r, NEW ss, NEW cf, NEW es, NEW lv, Safe(s, r, ss, cf, es, lv), ~es,
         OpenedBy(Head(s)) = 0,
         NEW s2, NEW w, Over(s2, Tail(s), w), s2 # <<>>, ~Chooses(s2),
         NEW r2, ResultOK(r2), NEW lv2 \in Int,
         lv2 + (Head(s).size + Flight(Head(s), r)) = lv + w + Flight(Head(s2), r2)
  PROVE  Safe(s2, r2, ss, cf, es, lv2)
<1> DEFINE a == Head(s).size
           b == Flight(Head(s), r)
           c == Flight(Head(s2), r2)
<1>1. es \in BOOLEAN /\ a \in Nat /\ b \in Nat /\ lv \in Nat
  BY SafeWeights DEF Safe
<1>2. c \in Nat /\ w \in Nat
  BY FlightNat DEF Over
<1>3. lv2 + (a + b) = lv + w + c
  OBVIOUS
<1> HIDE DEF a, b, c
<1>4. lv2 + a + b = lv + w + c /\ lv2 + a + b >= lv + w + c
  BY <1>1, <1>2, <1>3
<1>5. QED
  BY <1>1, <1>4, Moves DEF a, b, c

\* The call goes on, or makes calls.
LEMMA Goes ==
  ASSUME IInv, NEW p, On(p), ~errs, OpenedBy(Top) = 0,
         NEW frames, NEW n \in Nat, Go(frames, n), UNCHANGED <<tables, errs, outcome>>,
         NEW w, Over(frames \o Tail(stack), Tail(stack), w),
         frames \o Tail(stack) # <<>>, ~Chooses(frames \o Tail(stack)),
         ResultOK(ret'), live' \in Int,
         live' + Carried = live + w + Flight(Head(frames \o Tail(stack)), ret')
  PROVE  IInv'
<1> DEFINE s2 == frames \o Tail(stack)
<1>1. stack' = s2 /\ Take(n) /\ UNCHANGED <<tables, outcome>> /\ errs' = errs
  BY DEF Go
<1>2. Safe(stack, ret, scopes, curFunc, errs, live)
  BY Reading
<1>3. /\ OpenedBy(Head(stack)) = 0 /\ s2 # <<>> /\ ~Chooses(s2) /\ Over(s2, Tail(stack), w)
      /\ live' + (Head(stack).size + Flight(Head(stack), ret)) = live + w + Flight(Head(s2), ret')
  BY DEF Top, Carried
<1> HIDE DEF s2
<1>4. Safe(s2, ret', scopes, curFunc, errs, live')
  BY <1>2, <1>3, Together
<1>5. QED
  BY <1>1, <1>4, Stays

\* It goes on in another place.
LEMMA GoesTo ==
  ASSUME IInv, NEW p, On(p), p \notin Waits \/ ret.ok, OpenedBy(Top) = 0,
         NEW g, FrameOK(g), OpenedBy(g) = 0, g.pc # "combine", Fits(Kind(g.pc), Tail(stack)),
         NEW n \in Nat, Go(<<g>>, n), UNCHANGED <<tables, errs, outcome>>,
         ResultOK(ret'), live' \in Int, live' + Carried = live + g.size + Flight(g, ret')
  PROVE  IInv'
<1> DEFINE t == Tail(stack)
           s2 == <<g>> \o t
<1>1. ~errs /\ StackOK(t) /\ IsSeq(t) /\ live \in Nat
  BY Reading
<1>2. Over(t, t, 0)
  BY <1>1, OverSelf
<1>3. Over(s2, t, g.size + 0) /\ s2 # <<>> /\ Head(s2) = g
  BY <1>2, OverCons
<1>4. ~Chooses(s2)
  BY <1>3 DEF Chooses
<1>5. g.size \in Nat
  BY DEF FrameOK
<1>6. Over(s2, t, g.size)
  BY <1>3, <1>5
<1>7. live' + Carried = live + g.size + Flight(Head(s2), ret')
  BY <1>3
<1> HIDE DEF s2
<1>8. QED
  BY <1>1, <1>3, <1>4, <1>6, <1>7, Goes DEF s2

LEMMA CallsOn ==
  ASSUME IInv, NEW p, On(p), p \notin Waits \/ ret.ok, OpenedBy(Top) = 0,
         NEW g, FrameOK(g), OpenedBy(g) = 0, g.pc # "combine", g.pc \notin Carries,
         Kind(g.pc) = Kind(p), g.size = Carried,
         NEW n \in Nat, Calls(<<g>>, n)
  PROVE  IInv'
<1>1. Go(<<g>>, n) /\ UNCHANGED <<tables, errs, outcome>> /\ ret' = ret /\ live' = live
  BY DEF Calls
<1>2. ResultOK(ret) /\ live \in Nat /\ Fits(Kind(g.pc), Tail(stack))
  BY Reading
<1>3. Flight(g, ret') = 0 /\ Carried \in Nat
  BY CarriedIs DEF Flight
<1>4. live' + Carried = live + g.size + Flight(g, ret')
  BY <1>1, <1>2, <1>3
<1>5. ResultOK(ret') /\ live' \in Int
  BY <1>1, <1>2
<1>6. QED
  BY <1>1, <1>2, <1>4, <1>5, GoesTo

\* It has made a node of an expression, and looks what comes after it.
LEMMA PostfixIs ==
  /\ FrameOK(Postfix) /\ OpenedBy(Postfix) = 0 /\ Postfix.pc = "postfix" /\ Postfix.size = 0
  /\ Kind(Postfix.pc) = "operand"
<1>1. FrameOK(Postfix) /\ OpenedBy(Postfix) = 0 /\ Postfix.pc = "postfix" /\ Postfix.size = 0
  BY DEF Postfix, Frame, FrameOK, OpenedBy
<1>2. QED
  BY <1>1, KindIs DEF OperandPlaces

LEMMA MakesPostfix ==
  ASSUME IInv, NEW p, On(p), p \notin Waits \/ ret.ok, OpenedBy(Top) = 0, Kind(p) = "operand",
         NEW r, ResultOK(r), r.ok, r.size = Carried + 1,
         NEW n \in Nat, Makes(<<Postfix>>, r, n)
  PROVE  IInv'
<1>1. /\ Go(<<Postfix>>, n) /\ UNCHANGED <<tables, errs, outcome>>
      /\ ret' = r /\ live' = live + 1
  BY DEF Makes
<1>2. live \in Nat /\ Fits(Kind(Postfix.pc), Tail(stack))
  BY Reading, PostfixIs
<1>3. Flight(Postfix, r) = r.size /\ Carried \in Nat
  BY CarriedIs, PostfixIs DEF Flight, Carries
<1>4. live' + Carried = live + Postfix.size + Flight(Postfix, ret')
  BY <1>1, <1>2, <1>3, PostfixIs
<1>5. ResultOK(ret') /\ live' \in Int
  BY <1>1, <1>2
<1>6. QED
  BY <1>1, <1>2, <1>4, <1>5, PostfixIs, GoesTo

\* It goes on in the same kind of place with an expression that is read first.
LEMMA Asks ==
  ASSUME IInv, NEW p, On(p), p \notin Waits \/ ret.ok, OpenedBy(Top) = 0,
         NEW g, FrameOK(g), OpenedBy(g) = 0, g.pc \in ValueWaits \ {"combine"},
         Fits(Kind(g.pc), Tail(stack)),
         NEW n \in Nat, Go(Complex \o <<g>>, n), UNCHANGED <<tables, errs, outcome>>,
         ResultOK(ret'), live' \in Int, live' + Carried = live + g.size
  PROVE  IInv'
<1> DEFINE t == Tail(stack)
           s2 == (Complex \o <<g>>) \o t
<1>1. ~errs /\ StackOK(t) /\ IsSeq(t) /\ live \in Nat /\ g.size \in Nat
  BY Reading DEF FrameOK
<1>2. Over(t, t, 0)
  BY <1>1, OverSelf
<1>3. Over(<<g>> \o t, t, g.size)
  BY <1>1, <1>2, OverCons
<1>4. Over(s2, t, g.size) /\ s2 # <<>> /\ Head(s2) = Simple
  BY <1>1, <1>3, ComplexOn
<1>5. Simple.pc = "simple"
  BY DEF Simple, Frame
<1>6. ~Chooses(s2) /\ Flight(Head(s2), ret') = 0
  BY <1>4, <1>5 DEF Chooses, Flight, Carries, ValueWaits
<1>7. live' + Carried = live + g.size + Flight(Head(s2), ret')
  <2>1. live + g.size + 0 = live + g.size
    BY <1>1
  <2> HIDE DEF s2
  <2>2. QED
    BY <1>6, <2>1
<1> HIDE DEF s2
<1>8. QED
  BY <1>1, <1>4, <1>6, <1>7, Goes DEF s2

LEMMA CallsAsking ==
  ASSUME IInv, NEW p, On(p), p \notin Waits \/ ret.ok, OpenedBy(Top) = 0,
         NEW g, FrameOK(g), OpenedBy(g) = 0, g.pc \in ValueWaits \ {"combine"},
         Kind(g.pc) = Kind(p), g.size = Carried,
         NEW n \in Nat, Calls(Complex \o <<g>>, n)
  PROVE  IInv'
<1>1. Go(Complex \o <<g>>, n) /\ UNCHANGED <<tables, errs, outcome>> /\ ret' = ret /\ live' = live
  BY DEF Calls
<1>2. ResultOK(ret) /\ live \in Nat /\ Fits(Kind(g.pc), Tail(stack))
  BY Reading
<1>3. live' + Carried = live + g.size
  BY <1>1
<1>4. ResultOK(ret') /\ live' \in Int
  BY <1>1, <1>2
<1>5. QED
  BY <1>1, <1>2, <1>3, <1>4, Asks

-----------------------------------------------------------------------------
(* The call returns.                                                        *)

LEMMA FailsStep ==
  ASSUME IInv, NEW p, On(p), OpenedBy(Top) = 0, p # "root",
         NEW freed \in Nat, freed <= Carried, NEW n \in Nat, Fails(freed, n)
  PROVE  IInv'
<1>1. /\ stack' = Tail(stack) /\ Take(n) /\ ret' = Failed /\ live' = live - freed
      /\ errs' = TRUE /\ UNCHANGED <<tables, outcome>>
  BY DEF Fails, Quit, Give
<1>2. Safe(stack, ret, scopes, curFunc, errs, live) /\ Top.pc = p
  BY Reading
<1>3. OpenedBy(Head(stack)) = 0 /\ Head(stack).pc # "root"
      /\ freed <= Head(stack).size + Flight(Head(stack), ret)
  BY <1>2 DEF Top, Carried
<1>4. Safe(Tail(stack), Failed, scopes, curFunc, TRUE, live - freed)
  BY <1>2, <1>3, ReturnsError
<1>5. QED
  BY <1>1, <1>4, Stays

LEMMA ShirksStep ==
  ASSUME IInv, NEW p, On(p), OpenedBy(Top) = 0, p # "root", Kind(p) # "choice",
         NEW freed \in Nat, freed = Carried, NEW n \in Nat, Shirks(freed, n)
  PROVE  IInv'
<1>1. /\ stack' = Tail(stack) /\ Take(n) /\ ret' = Failed /\ live' = live - freed
      /\ errs' = errs /\ UNCHANGED <<tables, outcome>>
  BY DEF Shirks, Quit, Give
<1>2. Safe(stack, ret, scopes, curFunc, errs, live) /\ Top.pc = p
  BY Reading
<1>3. OpenedBy(Head(stack)) = 0 /\ Head(stack).pc # "root" /\ Kind(Head(stack).pc) # "choice"
      /\ freed = Head(stack).size + Flight(Head(stack), ret)
  BY <1>2 DEF Top, Carried
<1>4. Safe(Tail(stack), Failed, scopes, curFunc, errs, live - freed)
  BY <1>2, <1>3, ReturnsNothing
<1>5. QED
  BY <1>1, <1>4, Stays

LEMMA PassesStep ==
  ASSUME IInv, NEW p, On(p), p \notin Waits \/ ret.ok \/ ~errs, OpenedBy(Top) = 0, p # "root",
         Carried = 0, NEW n \in Nat, Returns(Passed, n)
  PROVE  IInv'
<1>1. /\ stack' = Tail(stack) /\ Take(n) /\ ret' = Passed /\ live' = live
      /\ errs' = errs /\ UNCHANGED <<tables, outcome>>
  BY DEF Returns, Give
<1>2. Safe(stack, ret, scopes, curFunc, errs, live) /\ ~errs /\ Top.pc = p
  BY Reading
<1>3. OpenedBy(Head(stack)) = 0 /\ Head(stack).pc # "root"
      /\ Head(stack).size + Flight(Head(stack), ret) = 0
  BY <1>2 DEF Top, Carried
<1>4. Safe(Tail(stack), Passed, scopes, curFunc, errs, live)
  BY <1>2, <1>3, ReturnsPassed
<1>5. QED
  BY <1>1, <1>4, Stays

\* With a value that is made of what it carries, and perhaps one node more.
LEMMA GivesValue ==
  ASSUME IInv, NEW p, On(p), p \notin Waits \/ ret.ok, OpenedBy(Top) = 0,
         Kind(p) \in {"operand", "choice", "compound"},
         NEW r, ResultOK(r), r.ok, NEW n \in Nat, Give(r, n), UNCHANGED <<tables, errs, outcome>>,
         live' \in Int, live' + Carried = live + r.size
  PROVE  IInv'
<1>1. stack' = Tail(stack) /\ Take(n) /\ ret' = r /\ UNCHANGED <<tables, outcome>> /\ errs' = errs
  BY DEF Give
<1>2. Safe(stack, ret, scopes, curFunc, errs, live) /\ ~errs /\ Top.pc = p
  BY Reading
<1>3. /\ OpenedBy(Head(stack)) = 0 /\ Kind(Head(stack).pc) \in {"operand", "choice", "compound"}
      /\ live' + (Head(stack).size + Flight(Head(stack), ret)) = live + r.size
  BY <1>2 DEF Top, Carried
<1>4. Safe(Tail(stack), r, scopes, curFunc, errs, live')
  BY <1>2, <1>3, ReturnsValue
<1>5. QED
  BY <1>1, <1>4, Stays

-----------------------------------------------------------------------------
(* The expressions.                                                         *)

\* The places that open no domain.
Opening == {"part", "block", "line", "close", "functionEnd", "structEnd", "structDone",
            "forStart", "forCond", "forStep"}

LEMMA Quiet ==
  ASSUME IInv, NEW p, On(p), p \notin Opening
  PROVE  OpenedBy(Top) = 0
<1>1. Top.pc = p
  BY Reading
<1>2. QED
  BY <1>1 DEF OpenedBy, Opening

LEMMA ExpIs ==
  ASSUME NEW n \in Nat, NEW t
  PROVE  LET e == Exp(n, t)
         IN  /\ DOMAIN e = {"ok", "size", "type", "arr", "lval", "mark", "const", "rets"}
             /\ e.ok /\ e.size = n /\ ResultOK(e)
BY DEF Exp, Passed, Failed, ResultOK

LEMMA StatementIs ==
  ASSUME NEW n \in Nat, NEW good, NEW rets
  PROVE  LET e == Statement(n, good, rets)
         IN  e.ok /\ e.size = n /\ ResultOK(e)
BY DEF Statement, Passed, Failed, ResultOK

\* Nothing is there, and nothing is owned.
LEMMA FindsNothing ==
  ASSUME IInv, NEW p, On(p), OpenedBy(Top) = 0, p # "root", Kind(p) # "choice", Carried = 0,
         NEW n \in Nat, Returns(Failed, n)
  PROVE  IInv'
<1>1. live \in Nat
  BY Reading
<1>2. Shirks(0, n)
  BY <1>1 DEF Returns, Shirks, Quit
<1>3. QED
  BY <1>2, ShirksStep

\* What was returned to it is returned.
LEMMA GivesBack ==
  ASSUME IInv, NEW p \in {"operator", "postfix"}, On(p), NEW n \in Nat, Returns(ret, n)
  PROVE  IInv'
<1>1. /\ stack' = Tail(stack) /\ Take(n) /\ ret' = ret /\ live' = live
      /\ errs' = errs /\ UNCHANGED <<tables, outcome>>
  BY DEF Returns, Give
<1>2. /\ Safe(stack, ret, scopes, curFunc, errs, live) /\ Top.pc = p /\ Top.size = 0
      /\ OpenedBy(Top) = 0
  BY Reading, CarriedIs, Quiet DEF Opening, OwnsNothing
<1>3. /\ OpenedBy(Head(stack)) = 0 /\ Kind(Head(stack).pc) = "operand"
      /\ Head(stack).pc \in Carries /\ Head(stack).size = 0
  BY <1>2, KindIs DEF Top, OperandPlaces, Carries, ValueWaits
<1>4. Safe(Tail(stack), ret, scopes, curFunc, errs, live)
  BY <1>2, <1>3, ReturnsSame
<1>5. QED
  BY <1>1, <1>4, Stays

\* The operand alone is read first.
LEMMA CallsSimple ==
  ASSUME IInv, NEW p, On(p), p \notin Waits \/ ret.ok, OpenedBy(Top) = 0,
         NEW g, FrameOK(g), OpenedBy(g) = 0, g.pc \in ValueWaits \ {"combine"},
         Kind(g.pc) = Kind(p), g.size = Carried,
         NEW n \in Nat, Calls(<<Simple, g>>, n)
  PROVE  IInv'
<1> DEFINE t  == Tail(stack)
           gs == <<g>> \o t
           s2 == <<Simple, g>> \o t
<1>1. /\ Go(<<Simple, g>>, n) /\ UNCHANGED <<tables, errs, outcome>> /\ ret' = ret
      /\ live' = live
  BY DEF Calls
<1>2. /\ ~errs /\ StackOK(t) /\ IsSeq(t) /\ live \in Nat /\ ResultOK(ret)
      /\ Fits(Kind(g.pc), t) /\ g.size \in Nat
  BY Reading DEF FrameOK
<1>3. Over(gs, t, g.size) /\ gs # <<>> /\ Head(gs) = g
  BY <1>2, OverSelf, OverCons
<1>4. s2 = <<Simple>> \o gs
  BY <1>2, TwoOnTop
<1> HIDE DEF gs, s2
<1>5. ~Chooses(gs)
  BY <1>3 DEF Chooses
<1>6. Over(s2, t, g.size) /\ s2 # <<>> /\ Head(s2) = Simple
  BY <1>3, <1>4, <1>5, SimpleOn
<1>7. Simple.pc = "simple"
  BY DEF Simple, Frame
<1>8. ~Chooses(s2) /\ Flight(Head(s2), ret') = 0
  BY <1>6, <1>7 DEF Chooses, Flight, Carries, ValueWaits
<1>9. live' + Carried = live + g.size + Flight(Head(s2), ret')
  <2>1. live + g.size + 0 = live + g.size
    BY <1>2
  <2>2. QED
    BY <1>1, <1>8, <2>1
<1>10. ResultOK(ret') /\ live' \in Int
  BY <1>1, <1>2
<1>11. QED
  BY <1>1, <1>2, <1>6, <1>8, <1>9, <1>10, Goes DEF s2

\* A binary expression owns its operands.
LEMMA BinaryIs ==
  ASSUME NEW op, NEW l, NEW r, l.size \in Nat, r.size \in Nat
  PROVE  /\ Binary(op, l, r).ok /\ ResultOK(Binary(op, l, r))
         /\ Binary(op, l, r).size = l.size + r.size + 1
<1>1. \A t : LET e == Exp(l.size + r.size + 1, t)
             IN  e.ok /\ ResultOK(e) /\ e.size = l.size + r.size + 1
  BY ExpIs
<1>2. \E t : Binary(op, l, r) = Exp(l.size + r.size + 1, t)
  BY DEF Binary
<1>3. QED
  BY <1>1, <1>2

LEMMA OperatorStep == ASSUME IInv, Operator PROVE IInv'
<1>1. On("operator")
  BY DEF Operator
<1>2. OpenedBy(Top) = 0 /\ Carried = ret.size /\ ret.size \in Nat
  BY <1>1, Quiet, CarriedIs DEF Opening, OwnsNothing, Carries, ValueWaits
<1> DEFINE g == [pc |-> "right", size |-> ret.size, op |-> Tok(1), left |-> ret]
<1>3. FrameOK(g) /\ OpenedBy(g) = 0 /\ g.pc = "right" /\ g.size = ret.size
  BY <1>2 DEF FrameOK, OpenedBy, OwnsNothing
<1>4. CASE ret.ok /\ Calls(<<Simple, g>>, 1)
  <2>1. Kind(g.pc) = Kind("operator") /\ g.pc \in ValueWaits \ {"combine"}
    BY <1>3, KindIs DEF OperandPlaces, ValueWaits
  <2> HIDE DEF g
  <2>2. QED
    BY <1>1, <1>2, <1>3, <1>4, <2>1, CallsSimple
<1>5. CASE Returns(ret, 0)
  BY <1>1, <1>5, GivesBack
<1>6. QED
  BY <1>4, <1>5 DEF Operator

\* An assertion fails: the debug build ends here.
LEMMA Aborts ==
  ASSUME IInv, NEW p, On(p), verdict' = "aborted", failed' \in {1213, 2258},
         buf' = buf \/ Take(0), live' \in Nat, scopes' = scopes, curFunc' = curFunc, errs' = errs
  PROVE  IInv'
<1>1. /\ IsSeq(buf) /\ Len(buf) <= 3 /\ errs \in BOOLEAN /\ scopes # <<>>
      /\ curFunc \in Idents \union {None}
  BY DEF IInv, TypeOK
<1>2. IsSeq(buf') /\ Len(buf') <= 3
  <2>1. CASE buf' = buf
    BY <1>1, <2>1
  <2>2. CASE Take(0)
    <3>1. 0 \in Nat
      OBVIOUS
    <3>2. IsSeq(SubSeq(buf, 0 + 1, Len(buf))) /\ Len(SubSeq(buf, 0 + 1, Len(buf))) <= 3
      BY <1>1, <3>1, TakeOK
    <3>3. QED
      BY <2>2, <3>2 DEF Take
  <2>3. QED
    BY <2>1, <2>2
<1>3. TypeOK'
  BY <1>1, <1>2 DEF TypeOK
<1>4. AcceptedLeaksNothing' /\ AssertionsHold' /\ errs' \in BOOLEAN /\ verdict' # "parsing"
  BY <1>1 DEF AcceptedLeaksNothing, AssertionsHold
<1>5. QED
  BY <1>2, <1>3, <1>4 DEF IInv

LEMMA RightMissingStep == ASSUME IInv, RightMissing PROVE IInv'
<1>1. /\ On("right") /\ ~ret.ok /\ Claim(errs, 1213) /\ Give(Failed, 0)
      /\ live' = live - Top.size /\ UNCHANGED <<tables, errs>>
  BY DEF RightMissing
<1>2. OpenedBy(Top) = 0 /\ Carried = Top.size /\ Top.size \in Nat
  BY <1>1, Quiet, CarriedIs DEF Opening
<1>3. CASE errs
  <2>1. errs' = TRUE /\ UNCHANGED outcome
    BY <1>1, <1>3, Reading DEF Claim, outcome
  <2>2. Fails(Top.size, 0)
    BY <1>1, <2>1 DEF Fails, Quit
  <2>3. QED
    BY <1>1, <1>2, <2>2, FailsStep
<1>4. CASE ~errs
  <2>1. verdict' = "aborted" /\ failed' = 1213
    BY <1>1, <1>4 DEF Claim
  <2>2. live' \in Nat
    BY <1>1, <1>2, CarriedLives
  <2>3. Take(0) /\ scopes' = scopes /\ curFunc' = curFunc /\ errs' = errs
    BY <1>1 DEF Give, tables
  <2>4. QED
    BY <1>1, <2>1, <2>2, <2>3, Aborts
<1>5. QED
  BY <1>3, <1>4

\* Where the left operand waits while the right one binds more.
LEMMA CombiningIs ==
  ASSUME IInv, On("right"), NEW select \in BOOLEAN
  PROVE  LET c == Combining(select)
         IN  /\ FrameOK(c) /\ OpenedBy(c) = 0 /\ c.pc = "combine" /\ c.size = Top.size
             /\ Fits(Kind(c.pc), Tail(stack)) /\ c.select = select
<1>1. /\ Top.pc = "right" /\ FrameOK(Top) /\ Fits(Kind("right"), Tail(stack))
  BY Reading
<1>2. Kind("right") = "operand" /\ Kind("combine") = "operand"
  BY KindIs DEF OperandPlaces
<1>3. Top.left.size = Top.size /\ Top.size \in Nat
  BY <1>1 DEF FrameOK
<1>4. QED
  BY <1>1, <1>2, <1>3 DEF Combining, FrameOK, OpenedBy, OwnsNothing

LEMMA RightStep == ASSUME IInv, Right PROVE IInv'
<1>1. On("right") /\ ret.ok
  BY DEF Right
<1>2. /\ OpenedBy(Top) = 0 /\ Carried = Top.size + ret.size /\ Top.size \in Nat /\ ret.size \in Nat
      /\ Top.left.size = Top.size
  BY <1>1, Quiet, CarriedIs, Reading DEF Opening, Carries, ValueWaits, FrameOK
<1>3. /\ ~errs /\ live \in Nat /\ ResultOK(ret) /\ IsSeq(Tail(stack)) /\ StackOK(Tail(stack))
  BY <1>1, Reading
<1>4. Kind("right") = "operand" /\ Kind("operator") = "operand" /\ Kind("colon") = "choice"
  BY KindIs DEF OperandPlaces, ChoicePlaces
<1> DEFINE b == Binary(Top.op, Top.left, ret)
<1>5. b.ok /\ ResultOK(b) /\ b.size = Top.size + ret.size + 1
  BY <1>2, BinaryIs
<1> HIDE DEF b
<1>6. CASE Yields(b, 0)
  <2>1. Give(b, 0) /\ live' = live + 1 /\ UNCHANGED <<tables, errs, outcome>>
    BY <1>6 DEF Yields
  <2>2. live' \in Int /\ live' + Carried = live + b.size
    BY <1>2, <1>3, <1>5, <2>1
  <2>3. QED
    BY <1>1, <1>2, <1>4, <1>5, <2>1, <2>2, GivesValue
<1>7. CASE Makes(<<Frame("operator")>>, b, 0)
  <2> DEFINE o == Frame("operator")
  <2>1. FrameOK(o) /\ OpenedBy(o) = 0 /\ o.pc = "operator" /\ o.size = 0
    BY DEF Frame, FrameOK, OpenedBy
  <2>2. /\ Go(<<o>>, 0) /\ ret' = b /\ live' = live + 1 /\ UNCHANGED <<tables, errs, outcome>>
    BY <1>7 DEF Makes
  <2> HIDE DEF o
  <2>3. Flight(o, b) = b.size /\ Fits(Kind(o.pc), Tail(stack))
    BY <1>1, <1>4, <1>5, <2>1, Reading DEF Flight, Carries, ValueWaits
  <2>4. live' \in Int /\ live' + Carried = live + o.size + Flight(o, ret')
    BY <1>2, <1>3, <1>5, <2>1, <2>2, <2>3
  <2>5. ResultOK(ret')
    BY <1>5, <2>2
  <2>6. QED
    BY <1>1, <1>2, <2>1, <2>2, <2>3, <2>4, <2>5, GoesTo
<1> DEFINE t == Tail(stack)
<1>8. CASE Calls(<<Frame("operator"), Combining(FALSE)>>, 0)
  <2> DEFINE o == Frame("operator")
             c == Combining(FALSE)
             cs == <<c>> \o t
             fr == <<o, c>>
             s2 == fr \o t
  <2>1. /\ FrameOK(c) /\ OpenedBy(c) = 0 /\ c.pc = "combine" /\ c.size = Top.size
        /\ Fits(Kind(c.pc), t) /\ c.select = FALSE
    BY <1>1, CombiningIs
  <2>2. o.pc = "operator"
    BY DEF Frame
  <2>3. /\ Go(fr, 0) /\ ret' = ret /\ live' = live /\ UNCHANGED <<tables, errs, outcome>>
    BY <1>8 DEF Calls
  <2> HIDE DEF c
  <2>4. Over(cs, t, c.size + 0) /\ cs # <<>> /\ Head(cs) = c
    BY <1>3, <2>1, OverSelf, OverCons
  <2>5. Over(cs, t, Top.size)
    BY <1>2, <2>1, <2>4
  <2>6. s2 = <<o>> \o cs
    BY <1>3, TwoOnTop
  <2> HIDE DEF cs, s2
  <2>7. Head(cs).pc \in ValueWaits /\ ~Chooses(cs)
    BY <2>1, <2>4 DEF ValueWaits, Chooses
  <2>8. Over(s2, t, Top.size) /\ s2 # <<>> /\ Head(s2) = o
    BY <2>4, <2>5, <2>6, <2>7, OperatorOn
  <2> HIDE DEF o, fr
  <2>9. ~Chooses(s2) /\ Flight(Head(s2), ret') = ret.size
    BY <1>1, <2>2, <2>3, <2>8 DEF Chooses, Flight, Carries, ValueWaits
  <2>10. live' \in Int /\ ResultOK(ret') /\ live' + Carried = live + Top.size + Flight(Head(s2), ret')
    BY <1>2, <1>3, <2>3, <2>9
  <2>11. QED
    BY <1>1, <1>2, <1>3, <2>3, <2>8, <2>9, <2>10, Goes DEF s2
<1>9. CASE Calls(Complex \o <<[pc |-> "colon", size |-> ret.size, cond |-> ret],
                              Combining(TRUE)>>, 1)
  <2> DEFINE g == [pc |-> "colon", size |-> ret.size, cond |-> ret]
             c == Combining(TRUE)
             cs == <<c>> \o t
             gs == <<g>> \o cs
             s2 == (Complex \o <<g, c>>) \o t
  <2>1. /\ FrameOK(c) /\ OpenedBy(c) = 0 /\ c.pc = "combine" /\ c.size = Top.size
        /\ Fits(Kind(c.pc), t) /\ c.select = TRUE
    BY <1>1, CombiningIs
  <2>2. FrameOK(g) /\ OpenedBy(g) = 0 /\ g.pc = "colon" /\ g.size = ret.size
    BY <1>2 DEF FrameOK, OpenedBy, OwnsNothing
  <2>3. /\ Go(Complex \o <<g, c>>, 1) /\ ret' = ret /\ live' = live
        /\ UNCHANGED <<tables, errs, outcome>>
    BY <1>9 DEF Calls
  <2> HIDE DEF c, g
  <2>4. Over(cs, t, c.size + 0) /\ cs # <<>> /\ Head(cs) = c
    BY <1>3, <2>1, OverSelf, OverCons
  <2>5. Over(cs, t, Top.size)
    BY <1>2, <2>1, <2>4
  <2> HIDE DEF cs
  <2>6. Fits(Kind(g.pc), cs)
    BY <1>4, <2>1, <2>2, <2>4 DEF Fits, Chooses
  <2>7. Over(gs, t, ret.size + Top.size)
    BY <2>2, <2>5, <2>6, OverCons
  <2>8. g.pc \in ValueWaits \ {"combine"}
    BY <2>2 DEF ValueWaits
  <2>9. Over(s2, t, ret.size + Top.size) /\ s2 # <<>> /\ Head(s2) = Simple
    BY <1>3, <2>7, <2>8, ComplexOnTwo DEF cs
  <2>10. Simple.pc = "simple"
    BY DEF Simple, Frame
  <2> HIDE DEF s2
  <2>11. ~Chooses(s2) /\ Flight(Head(s2), ret') = 0
    BY <2>9, <2>10 DEF Chooses, Flight, Carries, ValueWaits
  <2>12. /\ live' \in Int /\ ResultOK(ret')
         /\ live' + Carried = live + (ret.size + Top.size) + Flight(Head(s2), ret')
    BY <1>2, <1>3, <2>3, <2>11
  <2>13. QED
    BY <1>1, <1>2, <1>3, <2>3, <2>9, <2>11, <2>12, Goes DEF s2
<1>10. QED
  BY <1>6, <1>7, <1>8, <1>9 DEF Right, b

LEMMA CombineStep == ASSUME IInv, Combine PROVE IInv'
<1>1. /\ On("combine") /\ Claim(Top.select /\ ~ret.ok => errs, 1232)
      /\ Give(IF ret.ok THEN Binary(Top.op, Top.left, ret) ELSE Failed, 0)
      /\ live' = (IF ret.ok THEN live + 1 ELSE live - Top.size) /\ UNCHANGED <<tables, errs>>
  BY DEF Combine
<1>2. /\ OpenedBy(Top) = 0 /\ Top.size \in Nat /\ ret.size \in Nat /\ Top.left.size = Top.size
      /\ Carried = Top.size + ret.size /\ (~ret.ok => Carried = Top.size)
  BY <1>1, Quiet, CarriedIs, Reading DEF Opening, Carries, ValueWaits, FrameOK
<1>3. Kind("combine") = "operand"
  BY KindIs DEF OperandPlaces
<1>4. Top.select /\ ~ret.ok => errs
  BY <1>1, Reading DEF Safe, Chooses, Top
<1>5. UNCHANGED outcome
  BY <1>1, <1>4 DEF Claim, outcome
<1>6. CASE ret.ok
  <2> DEFINE b == Binary(Top.op, Top.left, ret)
  <2>1. b.ok /\ ResultOK(b) /\ b.size = Top.size + ret.size + 1
    BY <1>2, BinaryIs
  <2>2. Give(b, 0) /\ live' = live + 1 /\ UNCHANGED <<tables, errs, outcome>>
    BY <1>1, <1>5, <1>6
  <2> HIDE DEF b
  <2>3. live \in Nat
    BY <1>1, Reading
  <2>4. live' \in Int /\ live' + Carried = live + b.size
    BY <1>2, <2>1, <2>2, <2>3
  <2>5. QED
    BY <1>1, <1>2, <1>3, <1>6, <2>1, <2>2, <2>4, GivesValue
<1>7. CASE ~ret.ok
  <2>1. Shirks(Top.size, 0)
    BY <1>1, <1>5, <1>7 DEF Shirks, Quit
  <2>2. QED
    BY <1>1, <1>2, <1>3, <1>7, <2>1, ShirksStep
<1>8. QED
  BY <1>6, <1>7, <1>1, Reading

LEMMA SelectYesStep == ASSUME IInv, SelectYes PROVE IInv'
<1>1. On("colon")
  BY DEF SelectYes
<1>2. /\ OpenedBy(Top) = 0 /\ Top.size \in Nat /\ ret.size \in Nat /\ Top.cond.size = Top.size
      /\ Carried \in Nat /\ Carried = Top.size + ret.size
  BY <1>1, Quiet, CarriedIs, Reading DEF Opening, Carries, ValueWaits, FrameOK
<1>3. CASE Fails(0, 0)
  BY <1>1, <1>2, <1>3, FailsStep
<1>4. CASE Fails(ret.size, 1)
  <2>1. ret.size <= Carried
    BY <1>2
  <2>2. QED
    BY <1>1, <1>2, <1>4, <2>1, FailsStep
<1> DEFINE g == [pc |-> "selectEnd", size |-> Top.size + ret.size, cond |-> Top.cond, yes |-> ret]
<1>5. CASE ret.ok /\ Calls(Complex \o <<g>>, 1)
  <2>1. FrameOK(g) /\ OpenedBy(g) = 0 /\ g.pc = "selectEnd" /\ g.size = Carried
    BY <1>2 DEF FrameOK, OpenedBy, OwnsNothing
  <2>2. Kind(g.pc) = Kind("colon") /\ g.pc \in ValueWaits \ {"combine"}
    BY <2>1, KindIs DEF ChoicePlaces, ValueWaits
  <2> HIDE DEF g
  <2>3. QED
    BY <1>1, <1>2, <1>5, <2>1, <2>2, CallsAsking
<1>6. QED
  BY <1>3, <1>4, <1>5 DEF SelectYes

LEMMA SelectNoStep == ASSUME IInv, SelectNo PROVE IInv'
<1>1. On("selectEnd")
  BY DEF SelectNo
<1>2. /\ OpenedBy(Top) = 0 /\ Top.size \in Nat /\ ret.size \in Nat /\ live \in Nat
      /\ Top.cond.size \in Nat /\ Top.yes.size \in Nat
      /\ Top.size = Top.cond.size + Top.yes.size /\ Carried = Top.size + ret.size
  BY <1>1, Quiet, CarriedIs, Reading DEF Opening, Carries, ValueWaits, FrameOK
<1>3. CASE ret.ok /\ Yields(Select(Top.cond, Top.yes, ret), 0)
  <2> DEFINE r == Select(Top.cond, Top.yes, ret)
             n == Top.cond.size + Top.yes.size + ret.size + 1
  <2>1. n \in Nat
    BY <1>2
  <2>2. r.ok /\ ResultOK(r) /\ r.size = n
    BY <2>1, ExpIs DEF Select
  <2> HIDE DEF r
  <2>3. /\ Give(r, 0) /\ live' = live + 1 /\ UNCHANGED <<tables, errs, outcome>>
    BY <1>3 DEF Yields, r
  <2>4. live' \in Int /\ live' + Carried = live + r.size
    BY <1>2, <2>2, <2>3
  <2>5. Kind("selectEnd") = "choice"
    BY KindIs DEF ChoicePlaces
  <2>6. QED
    BY <1>1, <1>2, <1>3, <2>2, <2>3, <2>4, <2>5, GivesValue
<1>4. CASE Fails(Top.yes.size, 0)
  <2>1. Top.yes.size <= Carried
    BY <1>2
  <2>2. QED
    BY <1>1, <1>2, <1>4, <2>1, FailsStep
<1>5. QED
  BY <1>3, <1>4 DEF SelectNo

\* At the beginning of an operand.
LEMMA AtSimple ==
  ASSUME IInv, On("simple")
  PROVE  /\ OpenedBy(Top) = 0 /\ Carried = 0 /\ Kind("simple") = "operand"
         /\ "simple" \notin Waits
BY Quiet, CarriedIs, KindIs
   DEF Opening, Carries, ValueWaits, OwnsNothing, OperandPlaces, Waits, StatementWaits, ListWaits

LEMMA SimpleNoneStep == ASSUME IInv, SimpleNone PROVE IInv'
<1>1. On("simple") /\ Returns(Failed, 0)
  BY DEF SimpleNone
<1>2. QED
  BY <1>1, AtSimple, FindsNothing

LEMMA SimpleLeafStep == ASSUME IInv, SimpleLeaf PROVE IInv'
<1>1. On("simple") /\ Makes(<<Postfix>>, Leaf(Tok(1)), 1)
  BY DEF SimpleLeaf
<1> DEFINE r == Leaf(Tok(1))
<1>2. r.ok /\ r.size = 1 /\ ResultOK(r)
  BY DEF Leaf, Exp, Passed, Failed, ResultOK
<1> HIDE DEF r
<1>3. Makes(<<Postfix>>, r, 1)
  BY <1>1 DEF r
<1>4. r.size = Carried + 1
  BY <1>1, <1>2, AtSimple
<1>5. QED
  BY <1>1, <1>2, <1>3, <1>4, AtSimple, MakesPostfix

LEMMA SimpleOpenStep == ASSUME IInv, SimpleOpen PROVE IInv'
<1>1. On("simple")
  BY DEF SimpleOpen
<1>2. OpenedBy(Top) = 0 /\ Carried = 0 /\ Kind("simple") = "operand" /\ "simple" \notin Waits
  BY <1>1, AtSimple
<1>3. CASE Calls(<<Simple, Frame("not")>>, 1)
  <2> DEFINE g == Frame("not")
  <2>1. FrameOK(g) /\ OpenedBy(g) = 0 /\ g.pc = "not" /\ g.size = 0
    BY DEF Frame, FrameOK, OpenedBy
  <2>2. Kind(g.pc) = "operand" /\ g.pc \in ValueWaits \ {"combine"}
    BY <2>1, KindIs DEF OperandPlaces, ValueWaits
  <2> HIDE DEF g
  <2>3. Calls(<<Simple, g>>, 1)
    BY <1>3 DEF g
  <2>4. QED
    BY <1>1, <1>2, <2>1, <2>2, <2>3, CallsSimple
<1>4. CASE Calls(Complex \o <<Frame("paren")>>, 1)
  <2> DEFINE g == Frame("paren")
  <2>1. FrameOK(g) /\ OpenedBy(g) = 0 /\ g.pc = "paren" /\ g.size = 0
    BY DEF Frame, FrameOK, OpenedBy
  <2>2. Kind(g.pc) = "operand" /\ g.pc \in ValueWaits \ {"combine"}
    BY <2>1, KindIs DEF OperandPlaces, ValueWaits
  <2> HIDE DEF g
  <2>3. Calls(Complex \o <<g>>, 1)
    BY <1>4 DEF g
  <2>4. QED
    BY <1>1, <1>2, <2>1, <2>2, <2>3, CallsAsking
<1>5. CASE Calls(<<Frame("init")>>, 1)
  <2> DEFINE g == Frame("init")
  <2>1. FrameOK(g) /\ OpenedBy(g) = 0 /\ g.pc = "init" /\ g.size = 0
    BY DEF Frame, FrameOK, OpenedBy
  <2>2. Kind(g.pc) = "operand" /\ g.pc \notin Carries /\ g.pc # "combine"
    BY <2>1, KindIs DEF OperandPlaces, Carries, ValueWaits
  <2> HIDE DEF g
  <2>3. Calls(<<g>>, 1)
    BY <1>5 DEF g
  <2>4. QED
    BY <1>1, <1>2, <2>1, <2>2, <2>3, CallsOn
<1>6. CASE Calls(<<[pc |-> "call", size |-> 0, name |-> Tok(1)]>>, 1)
  <2> DEFINE g == [pc |-> "call", size |-> 0, name |-> Tok(1)]
  <2>1. FrameOK(g) /\ OpenedBy(g) = 0 /\ g.pc = "call" /\ g.size = 0
    BY DEF FrameOK, OpenedBy
  <2>2. Kind(g.pc) = "operand" /\ g.pc \notin Carries /\ g.pc # "combine"
    BY <2>1, KindIs DEF OperandPlaces, Carries, ValueWaits
  <2> HIDE DEF g
  <2>3. Calls(<<g>>, 1)
    BY <1>6 DEF g
  <2>4. QED
    BY <1>1, <1>2, <2>1, <2>2, <2>3, CallsOn
<1>7. QED
  BY <1>3, <1>4, <1>5, <1>6 DEF SimpleOpen

LEMMA SimpleUnknownStep == ASSUME IInv, SimpleUnknown PROVE IInv'
<1>1. On("simple") /\ Fails(0, 1)
  BY DEF SimpleUnknown
<1>2. QED
  BY <1>1, AtSimple, FailsStep

LEMMA SimpleNotStep == ASSUME IInv, SimpleNot PROVE IInv'
<1>1. On("not")
  BY DEF SimpleNot
<1>2. /\ OpenedBy(Top) = 0 /\ Carried = ret.size /\ ret.size \in Nat /\ Kind("not") = "operand"
  BY <1>1, Quiet, CarriedIs, KindIs DEF Opening, Carries, ValueWaits, OwnsNothing, OperandPlaces
<1>3. CASE Fails(0, 0)
  BY <1>1, <1>2, <1>3, FailsStep
<1> DEFINE r == [Exp(ret.size + 1, IF ret.type = "bool" /\ ret.arr <= 0 THEN "bool" ELSE "bad")
                   EXCEPT !.arr = ret.arr, !.mark = ret.mark]
<1>4. CASE ret.ok /\ Makes(<<Postfix>>, r, 0)
  <2>1. r.ok /\ r.size = ret.size + 1 /\ ResultOK(r)
    BY <1>2 DEF Exp, Passed, Failed, ResultOK
  <2> HIDE DEF r
  <2>2. QED
    BY <1>1, <1>2, <1>4, <2>1, MakesPostfix
<1>5. QED
  BY <1>3, <1>4 DEF SimpleNot

LEMMA SimpleParenStep == ASSUME IInv, SimpleParen PROVE IInv'
<1>1. On("paren")
  BY DEF SimpleParen
<1>2. /\ OpenedBy(Top) = 0 /\ Carried = ret.size /\ ret.size \in Nat /\ Kind("paren") = "operand"
  BY <1>1, Quiet, CarriedIs, KindIs DEF Opening, Carries, ValueWaits, OwnsNothing, OperandPlaces
<1>3. CASE Fails(0, 0)
  BY <1>1, <1>2, <1>3, FailsStep
<1>4. CASE Fails(ret.size, 1)
  BY <1>1, <1>2, <1>4, FailsStep
<1>5. CASE ret.ok /\ Calls(<<Postfix>>, 1)
  <2>1. /\ Go(<<Postfix>>, 1) /\ UNCHANGED <<tables, errs, outcome>> /\ ret' = ret /\ live' = live
    BY <1>5 DEF Calls
  <2>2. /\ ResultOK(ret) /\ live \in Nat /\ Fits(Kind("paren"), Tail(stack))
    BY <1>1, Reading
  <2>3. Flight(Postfix, ret) = ret.size
    BY <1>5, PostfixIs DEF Flight, Carries
  <2>4. live' + Carried = live + Postfix.size + Flight(Postfix, ret')
    BY <1>2, <2>1, <2>2, <2>3, PostfixIs
  <2>5. ResultOK(ret') /\ live' \in Int /\ Fits(Kind(Postfix.pc), Tail(stack))
    BY <1>2, <2>1, <2>2, PostfixIs
  <2>6. Postfix.pc # "combine"
    BY PostfixIs
  <2>7. QED
    BY <1>1, <1>2, <1>5, <2>1, <2>4, <2>5, <2>6, PostfixIs, GoesTo
<1>6. QED
  BY <1>3, <1>4, <1>5 DEF SimpleParen

LEMMA SimpleInitStep == ASSUME IInv, SimpleInit PROVE IInv'
<1>1. On("init")
  BY DEF SimpleInit
<1>2. /\ OpenedBy(Top) = 0 /\ Carried = 0 /\ Kind("init") = "operand" /\ "init" \notin Waits
  BY <1>1, Quiet, CarriedIs, KindIs
     DEF Opening, Carries, ValueWaits, OwnsNothing, OperandPlaces, Waits, StatementWaits, ListWaits
<1>3. CASE Calls(Complex \o <<Frame("initArg")>>, 1)
  <2> DEFINE g == Frame("initArg")
  <2>1. FrameOK(g) /\ OpenedBy(g) = 0 /\ g.pc = "initArg" /\ g.size = 0
    BY DEF Frame, FrameOK, OpenedBy
  <2>2. Kind(g.pc) = "operand" /\ g.pc \in ValueWaits \ {"combine"}
    BY <2>1, KindIs DEF OperandPlaces, ValueWaits
  <2> HIDE DEF g
  <2>3. Calls(Complex \o <<g>>, 1)
    BY <1>3 DEF g
  <2>4. QED
    BY <1>1, <1>2, <2>1, <2>2, <2>3, CallsAsking
<1>4. CASE Fails(0, 1)
  BY <1>1, <1>2, <1>4, FailsStep
<1>5. QED
  BY <1>3, <1>4 DEF SimpleInit

LEMMA SimpleInitArgStep == ASSUME IInv, SimpleInitArg PROVE IInv'
<1>1. On("initArg")
  BY DEF SimpleInitArg
<1>2. /\ OpenedBy(Top) = 0 /\ Carried = ret.size /\ ret.size \in Nat
      /\ (~ret.ok => Carried = 0) /\ Kind("initArg") = "operand"
  BY <1>1, Quiet, CarriedIs, KindIs DEF Opening, Carries, ValueWaits, OwnsNothing, OperandPlaces
<1>3. CASE ~ret.ok /\ Shirks(0, 0)
  BY <1>1, <1>2, <1>3, ShirksStep
<1>4. CASE Fails(ret.size, 1)
  BY <1>1, <1>2, <1>4, FailsStep
<1> DEFINE r == Exp(ret.size + 1, IF ret.type = "int" THEN "int" ELSE "bad")
<1>5. CASE ret.ok /\ Makes(<<Postfix>>, r, 1)
  <2>1. ret.size + 1 \in Nat
    BY <1>2
  <2>2. r.ok /\ r.size = ret.size + 1 /\ ResultOK(r)
    BY <2>1, ExpIs
  <2> HIDE DEF r
  <2>3. QED
    BY <1>1, <1>2, <1>5, <2>2, MakesPostfix
<1>6. QED
  BY <1>3, <1>4, <1>5 DEF SimpleInitArg

LEMMA SimpleCallStep == ASSUME IInv, SimpleCall PROVE IInv'
<1>1. On("call")
  BY DEF SimpleCall
<1>2. /\ OpenedBy(Top) = 0 /\ Carried = 0 /\ Kind("call") = "operand" /\ "call" \notin Waits
  BY <1>1, Quiet, CarriedIs, KindIs
     DEF Opening, Carries, ValueWaits, OwnsNothing, OperandPlaces, Waits, StatementWaits, ListWaits
<1>3. CASE Fails(0, 0)
  BY <1>1, <1>2, <1>3, FailsStep
<1> DEFINE r == Exp(1, funcs[Top.name].ret)
<1>4. CASE Makes(<<Postfix>>, r, 1)
  <2>1. r.ok /\ r.size = 1 /\ ResultOK(r)
    BY ExpIs
  <2> HIDE DEF r
  <2>2. QED
    BY <1>1, <1>2, <1>4, <2>1, MakesPostfix
<1> DEFINE g == [pc |-> "callArg", size |-> 0, name |-> Top.name, i |-> 1, good |-> TRUE]
<1>5. CASE Calls(Complex \o <<g>>, 1)
  <2>1. FrameOK(g) /\ OpenedBy(g) = 0 /\ g.pc = "callArg" /\ g.size = 0
    BY DEF FrameOK, OpenedBy, OwnsNothing
  <2>2. Kind(g.pc) = "operand" /\ g.pc \in ValueWaits \ {"combine"}
    BY <2>1, KindIs DEF OperandPlaces, ValueWaits
  <2> HIDE DEF g
  <2>3. QED
    BY <1>1, <1>2, <1>5, <2>1, <2>2, CallsAsking
<1>6. QED
  BY <1>3, <1>4, <1>5 DEF SimpleCall

LEMMA SimpleCallArgStep == ASSUME IInv, SimpleCallArg PROVE IInv'
<1> DEFINE size == Top.size + ret.size
           G(good) == [Top EXCEPT !.size = size, !.i = @ + 1, !.good = good]
<1>1. On("callArg")
  BY DEF SimpleCallArg
<1>2. /\ OpenedBy(Top) = 0 /\ Carried = size /\ Top.size \in Nat /\ ret.size \in Nat /\ size \in Nat
      /\ (~ret.ok => Carried = Top.size) /\ Kind("callArg") = "operand"
      /\ FrameOK(Top) /\ Top.pc = "callArg"
  BY <1>1, Quiet, CarriedIs, KindIs, Reading DEF Opening, Carries, ValueWaits, OperandPlaces
<1>3. CASE ~ret.ok /\ Fails(Top.size, 0)
  BY <1>1, <1>2, <1>3, FailsStep
<1>4. CASE Fails(size, 1)
  BY <1>1, <1>2, <1>4, FailsStep
<1>5. ASSUME ret.ok, NEW good, Calls(Complex \o <<G(good)>>, 1) PROVE IInv'
  <2> DEFINE g == G(good)
  <2>1. FrameOK(g) /\ OpenedBy(g) = 0 /\ g.pc = "callArg" /\ g.size = size
    BY <1>2 DEF FrameOK, OpenedBy, OwnsNothing
  <2>2. Kind(g.pc) = "operand" /\ g.pc \in ValueWaits \ {"combine"}
    BY <2>1, <1>2 DEF ValueWaits
  <2> HIDE DEF g
  <2>3. Calls(Complex \o <<g>>, 1)
    BY <1>5 DEF g
  <2>4. QED
    BY <1>1, <1>2, <1>5, <2>1, <2>2, <2>3, CallsAsking
<1>6. ASSUME ret.ok, NEW type, Makes(<<Postfix>>, Exp(size + 1, type), 1) PROVE IInv'
  <2> DEFINE r == Exp(size + 1, type)
  <2>1. size + 1 \in Nat
    BY <1>2
  <2>2. r.ok /\ r.size = size + 1 /\ ResultOK(r)
    BY <2>1, ExpIs
  <2> HIDE DEF r
  <2>3. Makes(<<Postfix>>, r, 1)
    BY <1>6 DEF r
  <2>4. QED
    BY <1>1, <1>2, <1>6, <2>2, <2>3, MakesPostfix
<1>7. \/ ~ret.ok /\ Fails(Top.size, 0)
      \/ Fails(size, 1)
      \/ ret.ok /\ \E good : Calls(Complex \o <<G(good)>>, 1)
      \/ ret.ok /\ \E type : Makes(<<Postfix>>, Exp(size + 1, type), 1)
  BY DEF SimpleCallArg
<1>8. QED
  BY <1>3, <1>4, <1>5, <1>6, <1>7

LEMMA SimplePostfixStep == ASSUME IInv, SimplePostfix PROVE IInv'
<1>1. On("postfix")
  BY DEF SimplePostfix
<1>2. /\ OpenedBy(Top) = 0 /\ Carried = ret.size /\ ret.size \in Nat
      /\ Kind("postfix") = "operand" /\ "postfix" \notin Waits
  BY <1>1, Quiet, CarriedIs, KindIs
     DEF Opening, Carries, ValueWaits, OwnsNothing, OperandPlaces, Waits, StatementWaits, ListWaits
<1> DEFINE g == [pc |-> "index", size |-> ret.size, base |-> ret]
           h == [pc |-> "dot", size |-> ret.size, base |-> ret]
<1>3. CASE Calls(Complex \o <<g>>, 1)
  <2>1. FrameOK(g) /\ OpenedBy(g) = 0 /\ g.pc = "index" /\ g.size = ret.size
    BY <1>2 DEF FrameOK, OpenedBy, OwnsNothing
  <2>2. Kind(g.pc) = "operand" /\ g.pc \in ValueWaits \ {"combine"}
    BY <2>1, KindIs DEF OperandPlaces, ValueWaits
  <2> HIDE DEF g
  <2>3. QED
    BY <1>1, <1>2, <1>3, <2>1, <2>2, CallsAsking
<1>4. CASE Calls(<<h>>, 1)
  <2>1. FrameOK(h) /\ OpenedBy(h) = 0 /\ h.pc = "dot" /\ h.size = ret.size
    BY <1>2 DEF FrameOK, OpenedBy, OwnsNothing
  <2>2. Kind(h.pc) = "operand" /\ h.pc \notin Carries /\ h.pc # "combine"
    BY <2>1, KindIs DEF OperandPlaces, Carries, ValueWaits
  <2> HIDE DEF h
  <2>3. QED
    BY <1>1, <1>2, <1>4, <2>1, <2>2, CallsOn
<1>5. CASE Returns(ret, 0)
  BY <1>1, <1>5, GivesBack
<1>6. QED
  BY <1>3, <1>4, <1>5 DEF SimplePostfix

LEMMA SimpleIndexStep == ASSUME IInv, SimpleIndex PROVE IInv'
<1> DEFINE node(good, type) ==
             [Exp(Top.size + ret.size + 1, type) EXCEPT
                !.lval = IF good THEN "yes" ELSE "no", !.mark = good]
<1>1. On("index")
  BY DEF SimpleIndex
<1>2. /\ OpenedBy(Top) = 0 /\ Carried = Top.size + ret.size /\ Top.size \in Nat /\ ret.size \in Nat
      /\ Kind("index") = "operand"
  BY <1>1, Quiet, CarriedIs, KindIs DEF Opening, Carries, ValueWaits, OperandPlaces
<1>3. Top.size <= Carried
  BY <1>2
<1>4. CASE Fails(Top.size, 0)
  BY <1>1, <1>2, <1>3, <1>4, FailsStep
<1>5. CASE Fails(Top.size, 1)
  BY <1>1, <1>2, <1>3, <1>5, FailsStep
<1>6. ASSUME ret.ok, NEW good, NEW type, Makes(<<Postfix>>, node(good, type), 1) PROVE IInv'
  <2> DEFINE r == node(good, type)
  <2>1. r.ok /\ r.size = Top.size + ret.size + 1 /\ ResultOK(r)
    BY <1>2 DEF Exp, Passed, Failed, ResultOK
  <2> HIDE DEF r
  <2>2. Makes(<<Postfix>>, r, 1)
    BY <1>6 DEF r
  <2>3. r.size = Carried + 1
    BY <1>2, <2>1
  <2>4. QED
    BY <1>1, <1>2, <1>6, <2>1, <2>2, <2>3, MakesPostfix
<1>7. \/ Fails(Top.size, 0)
      \/ Fails(Top.size, 1)
      \/ ret.ok /\ \E good, type : Makes(<<Postfix>>, node(good, type), 1)
  BY DEF SimpleIndex
<1>8. QED
  BY <1>4, <1>5, <1>6, <1>7

LEMMA DotIs ==
  ASSUME NEW e, e.size \in Nat, NEW n
  PROVE  Dot(e, n).ok /\ Dot(e, n).size = e.size + 1 /\ ResultOK(Dot(e, n))
<1> DEFINE node(type, arr, lval) ==
             [Exp(e.size + 1, type) EXCEPT !.arr = arr, !.mark = e.mark,
                                           !.lval = IF e.mark THEN lval ELSE "no"]
<1>1. \A type, arr, lval : LET r == node(type, arr, lval)
                           IN  r.ok /\ r.size = e.size + 1 /\ ResultOK(r)
  BY DEF Exp, Passed, Failed, ResultOK
<1>2. \A type : LET r == Exp(e.size + 1, type) IN r.ok /\ r.size = e.size + 1 /\ ResultOK(r)
  BY DEF Exp, Passed, Failed, ResultOK
<1>3. \/ Dot(e, n) = node(Members(e.type)[n].type, Members(e.type)[n].arr, "yes")
      \/ Dot(e, n) = node(e.type, 0, "swizzle")
      \/ Dot(e, n) = Exp(e.size + 1, "bad")
  BY DEF Dot
<1> HIDE DEF node
<1>4. QED
  BY <1>1, <1>2, <1>3

LEMMA SimpleDotStep == ASSUME IInv, SimpleDot PROVE IInv'
<1>1. On("dot")
  BY DEF SimpleDot
<1>2. /\ OpenedBy(Top) = 0 /\ Carried = Top.size /\ Top.size \in Nat /\ Top.base.size = Top.size
      /\ Kind("dot") = "operand" /\ "dot" \notin Waits
  BY <1>1, Quiet, CarriedIs, KindIs, Reading
     DEF Opening, Carries, ValueWaits, OperandPlaces, Waits, StatementWaits, ListWaits, FrameOK
<1> DEFINE r == Dot(Top.base, Tok(1))
<1>3. CASE Makes(<<Postfix>>, r, 1)
  <2>1. r.ok /\ r.size = Top.size + 1 /\ ResultOK(r)
    BY <1>2, DotIs
  <2> HIDE DEF r
  <2>2. QED
    BY <1>1, <1>2, <1>3, <2>1, MakesPostfix
<1>4. CASE Fails(Top.size, 1)
  BY <1>1, <1>2, <1>4, FailsStep
<1>5. QED
  BY <1>3, <1>4 DEF SimpleDot

LEMMA ExpressionsStep == ASSUME IInv, Expressions PROVE IInv'
BY OperatorStep, RightMissingStep, RightStep, CombineStep, SelectYesStep, SelectNoStep,
   SimpleNoneStep, SimpleLeafStep, SimpleOpenStep, SimpleUnknownStep, SimpleNotStep,
   SimpleParenStep, SimpleInitStep, SimpleInitArgStep, SimpleCallStep, SimpleCallArgStep,
   SimplePostfixStep, SimpleIndexStep, SimpleDotStep DEF Expressions

-----------------------------------------------------------------------------
(* The statements.                                                          *)

LEMMA FramesAre ==
  \A pc \in OwnsNothing \ (Opening \union {"root", "body", "call"}) :
     LET f == Frame(pc)
     IN  f.pc = pc /\ f.size = 0 /\ FrameOK(f) /\ OpenedBy(f) = 0
BY DEF Frame, FrameOK, OpenedBy, OwnsNothing, Opening

\* The call asks for a statement.
LEMMA CallsSingle ==
  ASSUME IInv, NEW p, On(p), p \notin Waits \/ ret.ok, OpenedBy(Top) = 0, Carried = 0,
         NEW g, FrameOK(g), OpenedBy(g) = 0, g.pc \in StatementWaits, g.size = 0,
         Kind(g.pc) = Kind(p), Kind(p) \notin {"operand", "choice"},
         NEW n \in Nat, Calls(<<Single, g>>, n)
  PROVE  IInv'
<1> DEFINE t  == Tail(stack)
           gs == <<g>> \o t
           fr == <<Single, g>>
           s2 == fr \o t
<1>1. /\ Go(fr, n) /\ UNCHANGED <<tables, errs, outcome>> /\ ret' = ret /\ live' = live
  BY DEF Calls
<1>2. /\ ~errs /\ StackOK(t) /\ IsSeq(t) /\ live \in Nat /\ ResultOK(ret) /\ Fits(Kind(g.pc), t)
      /\ StackOK(stack) /\ stack # <<>> /\ Head(stack).pc = p
  BY Reading DEF Top
<1>3. NoValueWaits(t)
  BY <1>2, NoWaitsBelow
<1>4. Over(gs, t, 0 + 0) /\ gs # <<>> /\ Head(gs) = g
  BY <1>2, OverSelf, OverCons
<1>5. Over(gs, t, 0)
  BY <1>4
<1>6. NoValueWaits(gs)
  <2>1. g.pc \notin ValueWaits
    BY DEF StatementWaits, ValueWaits
  <2>2. QED
    BY <1>2, <1>3, <2>1, NoValueWaitsCons
<1>7. s2 = <<Single>> \o gs
  BY <1>2, TwoOnTop
<1> HIDE DEF gs, s2
<1>8. OnStatement(gs)
  BY <1>4, <1>6 DEF OnStatement
<1>9. Over(s2, t, 0) /\ s2 # <<>> /\ Head(s2) = Single
  BY <1>5, <1>7, <1>8, SingleOn
<1>10. Single.pc = "single"
  BY DEF Single, Frame
<1>11. ~Chooses(s2) /\ Flight(Head(s2), ret') = 0
  BY <1>9, <1>10 DEF Chooses, Flight, Carries, ValueWaits
<1> HIDE DEF fr
<1>12. ResultOK(ret') /\ live' \in Int /\ live' + Carried = live + 0 + Flight(Head(s2), ret')
  BY <1>1, <1>2, <1>11
<1>13. QED
  BY <1>1, <1>2, <1>9, <1>11, <1>12, Goes DEF s2

LEMMA TopAgain == ASSUME IInv, NEW p, On(p), Top.size = 0, p \notin Opening
                  PROVE  FrameOK(Top) /\ OpenedBy(Top) = 0 /\ Top.pc = p
BY Reading, Quiet

LEMMA RootLoopStep == ASSUME IInv, RootLoop PROVE IInv'
<1>1. On("root") /\ ret.ok /\ Calls(<<Single, Top>>, 0)
  BY DEF RootLoop
<1>2. Carried = 0 /\ Top.size = 0 /\ Kind("root") = "root"
  BY <1>1, CarriedIs, KindIs DEF Carries, ValueWaits, OwnsNothing
<1>3. FrameOK(Top) /\ OpenedBy(Top) = 0 /\ Top.pc = "root"
  BY <1>1, <1>2, TopAgain DEF Opening
<1>4. Top.pc \in StatementWaits
  BY <1>3 DEF StatementWaits
<1>5. QED
  BY <1>1, <1>2, <1>3, <1>4, CallsSingle

\* At the end nothing is left but the root: what it owns is deleted.
LEMMA FinishStep == ASSUME IInv, Finish PROVE IInv'
<1>1. /\ On("root") /\ ~ret.ok
      /\ verdict' = (IF ended /\ ~errs THEN "accepted" ELSE "rejected")
      /\ live' = live - Cur.size
      /\ UNCHANGED <<buf, stack, ret, tables, errs, failed>>
  BY DEF Finish
<1>2. /\ Safe(stack, ret, scopes, curFunc, errs, live) /\ stack # <<>> /\ StackOK(stack)
      /\ Top.pc = "root" /\ Fits("root", Tail(stack)) /\ failed = 0
      /\ ScopesOK(scopes, curFunc) /\ Len(scopes) = 1 + Domains(stack) /\ ScopeOK(Cur)
  BY <1>1, Reading, KindIs
<1>3. Tail(stack) = <<>>
  BY <1>2 DEF Fits
<1>4. /\ Top.size = 0 /\ Carried = 0 /\ OpenedBy(Top) = 0
  BY <1>1, Quiet, CarriedIs DEF OwnsNothing, Carries, ValueWaits, Opening
<1>5. Weight(stack) = 0 /\ Len(scopes) = 1
  <2>1. /\ Weight(stack) = Top.size + Weight(Tail(stack))
        /\ Domains(stack) = OpenedBy(Top) + Domains(Tail(stack))
    BY <1>2, StackFront DEF Top
  <2>2. Weight(Tail(stack)) = 0 /\ Domains(Tail(stack)) = 0
    BY <1>3, WeightEmpty, DomainsEmpty
  <2>3. Weight(stack) = 0 /\ Domains(stack) = 0
    BY <1>4, <2>1, <2>2
  <2>4. QED
    BY <1>2, <2>3
<1>6. Weight(scopes) = Cur.size
  <2>1. Weight(scopes) = Head(scopes).size + Weight(Tail(scopes)) /\ Tail(scopes) = <<>>
    BY <1>2, <1>5, ScopesSplit
  <2>2. Weight(Tail(scopes)) = 0 /\ Cur.size \in Nat
    BY <1>2, <2>1, WeightEmpty DEF ScopeOK
  <2> DEFINE a == Head(scopes).size
             b == Weight(Tail(scopes))
  <2>3. Weight(scopes) = a + b /\ b = 0 /\ a \in Nat
    BY <2>1, <2>2 DEF Cur
  <2> HIDE DEF a, b
  <2>4. Weight(scopes) = a
    BY <2>3
  <2>5. QED
    BY <2>4 DEF a, Cur
<1>7. Flight(Head(stack), ret) = 0
  BY <1>1 DEF Flight
<1>8. Cur.size <= live /\ (~errs => live = Cur.size) /\ Cur.size \in Nat /\ live \in Nat
  <2>1. /\ Weight(stack) + Weight(scopes) + Flight(Head(stack), ret) <= live
        /\ ~errs => live = Weight(stack) + Weight(scopes) + Flight(Head(stack), ret)
        /\ live \in Nat
    BY <1>2 DEF Safe, Balanced
  <2>2. Cur.size \in Nat
    BY <1>2 DEF ScopeOK
  <2>3. Weight(stack) + Weight(scopes) + Flight(Head(stack), ret) = Cur.size
    BY <1>5, <1>6, <1>7, <2>2
  <2>4. QED
    BY <2>1, <2>2, <2>3
<1>9. live' \in Nat /\ (verdict' = "accepted" => live' = 0)
  BY <1>1, <1>8
<1>10. /\ IsSeq(buf) /\ Len(buf) <= 3 /\ errs \in BOOLEAN /\ scopes # <<>>
       /\ curFunc \in Idents \union {None}
  BY DEF IInv, TypeOK
<1>11. /\ buf' = buf /\ errs' = errs /\ scopes' = scopes /\ curFunc' = curFunc /\ failed' = 0
  BY <1>1, <1>2 DEF tables
<1>12. TypeOK'
  BY <1>1, <1>9, <1>10, <1>11 DEF TypeOK
<1>13. AcceptedLeaksNothing' /\ AssertionsHold'
  BY <1>9, <1>11 DEF AcceptedLeaksNothing, AssertionsHold
<1>14. verdict' # "parsing"
  BY <1>1
<1>15. IsSeq(buf') /\ errs' \in BOOLEAN
  BY <1>10, <1>11
<1>16. QED
  BY <1>12, <1>13, <1>14, <1>15 DEF IInv

\* At the beginning of a statement.
LEMMA AtSingle ==
  ASSUME IInv, On("single")
  PROVE  /\ OpenedBy(Top) = 0 /\ Carried = 0 /\ Kind("single") = "line"
         /\ "single" \notin Waits /\ ~errs
BY Quiet, CarriedIs, KindIs, Reading
   DEF Opening, Carries, ValueWaits, OwnsNothing, LinePlaces, Waits, StatementWaits, ListWaits

LEMMA SingleEmptyStep == ASSUME IInv, SingleEmpty PROVE IInv'
<1>1. On("single") /\ Returns(Passed, 1)
  BY DEF SingleEmpty
<1>2. QED
  BY <1>1, AtSingle, PassesStep

LEMMA SingleNoneStep == ASSUME IInv, SingleNone PROVE IInv'
<1>1. On("single") /\ Returns(Failed, 0)
  BY DEF SingleNone
<1>2. QED
  BY <1>1, AtSingle, FindsNothing

\* Inside a function a domain is open, at least that of the function.
LEMMA InsideRuns ==
  ASSUME IInv, On("single"), Inside
  PROVE  /\ curFunc # None /\ Domains(Tail(stack)) > 0 /\ Domains(Tail(stack)) \in Nat
         /\ OnStatement(Tail(stack))
<1>1. /\ Top.pc = "single" /\ Safe(stack, ret, scopes, curFunc, errs, live)
      /\ ScopesOK(scopes, curFunc) /\ StackOK(stack) /\ stack # <<>> /\ StackOK(Tail(stack))
      /\ Fits("line", Tail(stack))
  BY Reading, AtSingle
<1>2. curFunc # None
  BY <1>1, ScopesSplit DEF Inside, Cur
<1>3. Runs(stack)
  BY <1>1, <1>2 DEF Safe
<1>4. Runs(Tail(stack))
  BY <1>1, <1>3, StackFront DEF Top
<1>5. Domains(Tail(stack)) \in Nat
  BY <1>1, StackFront
<1>6. Domains(Tail(stack)) # 0
  BY <1>1, <1>4, NoneRuns
<1>7. QED
  BY <1>1, <1>2, <1>5, <1>6 DEF Fits

\* The place where what a statement has made is given to the domain.
LEMMA KeepOn ==
  ASSUME IInv, On("single"), Inside
  PROVE  LET k == Frame("keep")
             ks == <<k>> \o Tail(stack)
         IN  /\ Over(ks, Tail(stack), 0) /\ IsSeq(ks)
             /\ Fits("compound", ks)
<1> DEFINE t  == Tail(stack)
           k  == Frame("keep")
           ks == <<k>> \o t
<1>1. StackOK(t) /\ IsSeq(t)
  BY Reading
<1>2. Domains(t) > 0 /\ Domains(t) \in Nat /\ OnStatement(t)
  BY InsideRuns
<1>3. k.pc = "keep" /\ k.size = 0 /\ FrameOK(k) /\ OpenedBy(k) = 0
  BY FramesAre DEF OwnsNothing, Opening
<1> HIDE DEF k
<1>4. Fits(Kind(k.pc), t)
  BY <1>2, <1>3, KindIs DEF Fits
<1>5. Over(ks, t, 0 + 0) /\ ks # <<>> /\ Head(ks) = k
  BY <1>1, <1>3, <1>4, OverSelf, OverCons
<1>6. Over(ks, t, 0)
  BY <1>5
<1>7. NoValueWaits(ks)
  <2>1. NoValueWaits(t) /\ k.pc \notin ValueWaits
    BY <1>2, <1>3 DEF OnStatement, ValueWaits
  <2>2. QED
    BY <1>1, <2>1, NoValueWaitsCons
<1> HIDE DEF ks
<1>8. IsSeq(ks) /\ Domains(ks) = Domains(t)
  BY <1>6 DEF Over, StackOK
<1>9. Fits("compound", ks)
  BY <1>2, <1>3, <1>5, <1>7, <1>8 DEF Fits
<1>10. QED
  BY <1>6, <1>8, <1>9 DEF ks, k

LEMMA SingleForStep == ASSUME IInv, SingleFor PROVE IInv'
<1>1. On("single") /\ Inside /\ Calls(<<Frame("for"), Frame("keep")>>, 1)
  BY DEF SingleFor
<1> DEFINE t  == Tail(stack)
           k  == Frame("keep")
           ks == <<k>> \o t
           f  == Frame("for")
           fr == <<f, k>>
           s2 == fr \o t
<1>2. OpenedBy(Top) = 0 /\ Carried = 0 /\ ~errs /\ live \in Nat /\ ResultOK(ret) /\ IsSeq(t)
  BY <1>1, AtSingle, Reading
<1>3. Over(ks, t, 0) /\ Fits("compound", ks)
  BY <1>1, KeepOn
<1>4. f.pc = "for" /\ f.size = 0 /\ FrameOK(f) /\ OpenedBy(f) = 0
  BY FramesAre DEF OwnsNothing, Opening
<1>5. /\ Go(fr, 1) /\ UNCHANGED <<tables, errs, outcome>> /\ ret' = ret /\ live' = live
  BY <1>1 DEF Calls
<1>6. s2 = <<f>> \o ks
  BY <1>2, TwoOnTop
<1> HIDE DEF f, k, fr, ks, s2
<1>7. Fits(Kind(f.pc), ks)
  BY <1>3, <1>4, KindIs DEF CompoundPlaces
<1>8. Over(s2, t, 0 + 0) /\ s2 # <<>> /\ Head(s2) = f
  BY <1>3, <1>4, <1>6, <1>7, OverCons
<1>9. ~Chooses(s2) /\ Flight(Head(s2), ret') = 0
  BY <1>4, <1>8 DEF Chooses, Flight, Carries, ValueWaits
<1>10. ResultOK(ret') /\ live' \in Int /\ live' + Carried = live + (0 + 0) + Flight(Head(s2), ret')
  BY <1>2, <1>5, <1>9
<1>11. QED
  BY <1>1, <1>2, <1>5, <1>8, <1>9, <1>10, Goes DEF s2

LEMMA SingleIfStep == ASSUME IInv, SingleIf PROVE IInv'
<1> DEFINE t  == Tail(stack)
           g  == [pc |-> "ifCond", size |-> 1]
           k  == Frame("keep")
           ks == <<k>> \o t
           fr == Complex \o <<g, k>>
           s2 == fr \o t
<1>1. On("single") /\ Inside /\ Makes(fr, ret, 2)
  BY DEF SingleIf
<1>2. OpenedBy(Top) = 0 /\ Carried = 0 /\ ~errs /\ live \in Nat /\ ResultOK(ret) /\ IsSeq(t)
  BY <1>1, AtSingle, Reading
<1>3. Over(ks, t, 0) /\ Fits("compound", ks)
  BY <1>1, KeepOn
<1>4. g.pc = "ifCond" /\ g.size = 1 /\ FrameOK(g) /\ OpenedBy(g) = 0
  BY DEF FrameOK, OpenedBy, OwnsNothing
<1>5. /\ Go(fr, 2) /\ UNCHANGED <<tables, errs, outcome>> /\ ret' = ret /\ live' = live + 1
  BY <1>1 DEF Makes
<1> HIDE DEF g, k
<1>6. Fits(Kind(g.pc), ks) /\ g.pc \in ValueWaits \ {"combine"}
  BY <1>3, <1>4, KindIs DEF CompoundPlaces, ValueWaits
<1>7. Over(<<g>> \o ks, t, g.size + 0)
  BY <1>3, <1>4, <1>6, OverCons
<1>8. Over(s2, t, g.size + 0) /\ s2 # <<>> /\ Head(s2) = Simple
  BY <1>2, <1>6, <1>7, ComplexOnTwo
<1>9. Simple.pc = "simple"
  BY DEF Simple, Frame
<1> HIDE DEF fr, ks, s2
<1>10. ~Chooses(s2) /\ Flight(Head(s2), ret') = 0
  BY <1>8, <1>9 DEF Chooses, Flight, Carries, ValueWaits
<1>11. /\ ResultOK(ret') /\ live' \in Int
       /\ live' + Carried = live + (g.size + 0) + Flight(Head(s2), ret')
  BY <1>2, <1>4, <1>5, <1>10
<1>12. QED
  BY <1>1, <1>2, <1>5, <1>8, <1>10, <1>11, Goes DEF s2

\* A domain with one item more.
With(d, n, rets) == [d EXCEPT !.size = d.size + n, !.cnt = d.cnt + 1, !.rets = d.rets \/ rets]

LEMMA AddedIs ==
  ASSUME NEW ss, NEW cf, ScopesOK(ss, cf), NEW n \in Nat, NEW rets
  PROVE  LET d == With(Head(ss), n, rets)
         IN  /\ Added(ss, n, rets) = <<d>> \o Tail(ss)
             /\ ScopeOK(d) /\ d.kind = Head(ss).kind
             /\ d.size = Head(ss).size + n /\ d.cnt = Head(ss).cnt + 1
<1> DEFINE h == Head(ss)
           d == With(h, n, rets)
<1>1. IsSeq(ss) /\ ss # <<>> /\ ScopeOK(h) /\ h = ss[1] /\ 1 \in DOMAIN ss
  <2>1. IsSeq(ss) /\ ss # <<>>
    BY DEF ScopesOK
  <2>2. h = ss[1] /\ 1 \in DOMAIN ss
    BY <2>1, SeqSplit, SeqParts
  <2>3. ScopeOK(h)
    BY ScopesSplit
  <2>4. QED
    BY <2>1, <2>2, <2>3
<1>2. Added(ss, n, rets) = [ss EXCEPT ![1] = d]
  BY <1>1 DEF Added, With
<1>3. ScopeOK(d) /\ d.kind = h.kind /\ d.size = h.size + n /\ d.cnt = h.cnt + 1
  BY <1>1 DEF ScopeOK, ScopeFields, With
<1> HIDE DEF d
<1>4. [ss EXCEPT ![1] = d] = <<d>> \o Tail(ss)
  BY <1>1, NewHead
<1>5. QED
  BY <1>2, <1>3, <1>4 DEF d

LEMMA AddsStep ==
  ASSUME IInv, NEW p, On(p), p \notin Waits \/ ret.ok, OpenedBy(Top) = 0,
         Kind(p) \in {"line", "kept"},
         NEW d, ScopeOK(d), d.kind = Cur.kind, scopes' = <<d>> \o Tail(scopes),
         NEW n \in Nat, Give(Passed, n), UNCHANGED <<funcs, curFunc, errs, outcome>>,
         live' \in Int, live' + Carried + Cur.size = live + d.size
  PROVE  IInv'
<1>1. stack' = Tail(stack) /\ Take(n) /\ ret' = Passed
  BY DEF Give
<1>2. /\ Safe(stack, ret, scopes, curFunc, errs, live) /\ ~errs /\ Top.pc = p
      /\ verdict = "parsing" /\ FuncsOK(funcs)
  BY Reading
<1>3. /\ OpenedBy(Head(stack)) = 0 /\ Kind(Head(stack).pc) \in {"line", "kept"}
      /\ d.kind = Head(scopes).kind
      /\ live' + (Head(stack).size + Flight(Head(stack), ret)) + Head(scopes).size = live + d.size
  BY <1>2 DEF Top, Carried, Cur
<1>4. Safe(Tail(stack), Passed, <<d>> \o Tail(scopes), curFunc, errs, live')
  BY <1>2, <1>3, Adds
<1>5. /\ Safe(stack', ret', scopes', curFunc', errs', live') /\ FuncsOK(funcs')
      /\ curFunc' \in Idents \union {None}
  BY <1>1, <1>2, <1>4 DEF IInv, TypeOK
<1>6. UNCHANGED outcome
  OBVIOUS
<1>7. QED
  BY <1>1, <1>2, <1>5, <1>6, Proceeds

\* No function begins but at the root.
LEMMA AtTheRoot ==
  ASSUME IInv, On("single"), Cur.kind = "root"
  PROVE  Fits("declaration", Tail(stack))
<1>1. /\ ScopesOK(scopes, curFunc) /\ Len(scopes) = 1 + Domains(stack)
      /\ StackOK(stack) /\ stack # <<>> /\ Fits("line", Tail(stack)) /\ OpenedBy(Head(stack)) = 0
  BY Reading, AtSingle DEF Top
<1>2. Len(scopes) = 1
  BY <1>1, ScopesSplit DEF Cur
<1>3. Domains(stack) = 0 + Domains(Tail(stack)) /\ Domains(Tail(stack)) \in Nat
  BY <1>1, StackFront
<1>4. Domains(Tail(stack)) = 0
  <2> DEFINE a == Domains(Tail(stack))
             b == Domains(stack)
  <2>1. a \in Nat /\ b = 0 + a /\ 1 = 1 + b
    BY <1>1, <1>2, <1>3
  <2> HIDE DEF a, b
  <2>2. a = 0
    BY <2>1
  <2>3. QED
    BY <2>2 DEF a
<1>5. QED
  BY <1>1, <1>4 DEF Fits

LEMMA SingleFunctionStep == ASSUME IInv, SingleFunction PROVE IInv'
<1> DEFINE g == [pc |-> "args", size |-> 1, name |-> Tok(2), ret |-> TypeNamed(Tok(1)),
                 args |-> <<>>, names |-> <<>>]
<1>1. On("single") /\ Cur.kind = "root" /\ Tok(2) \in Idents
      /\ (Makes(<<g>>, ret, 3) \/ Fails(0, 1))
  BY DEF SingleFunction, FuncPattern
<1>2. /\ OpenedBy(Top) = 0 /\ Carried = 0 /\ "single" \notin Waits /\ ~errs
      /\ live \in Nat /\ ResultOK(ret)
  BY <1>1, AtSingle, Reading
<1>3. CASE Makes(<<g>>, ret, 3)
  <2>1. DeclOK(g)
    BY <1>1, EmptyIsSeq DEF DeclOK
  <2>2. FrameOK(g) /\ OpenedBy(g) = 0 /\ g.pc = "args" /\ g.size = 1
    BY <2>1 DEF FrameOK, OpenedBy, OwnsNothing
  <2>3. /\ Go(<<g>>, 3) /\ UNCHANGED <<tables, errs, outcome>> /\ ret' = ret
        /\ live' = live + 1
    BY <1>3 DEF Makes
  <2> HIDE DEF g
  <2>4. Fits(Kind(g.pc), Tail(stack)) /\ g.pc # "combine"
    BY <1>1, <2>2, AtTheRoot, KindIs DEF DeclarationPlaces
  <2>5. Flight(g, ret') = 0
    BY <2>2 DEF Flight, Carries, ValueWaits
  <2>6. ResultOK(ret') /\ live' \in Int /\ live' + Carried = live + g.size + Flight(g, ret')
    BY <1>2, <2>2, <2>3, <2>5
  <2>7. QED
    BY <1>1, <1>2, <2>2, <2>3, <2>4, <2>6, GoesTo
<1>4. CASE Fails(0, 1)
  BY <1>1, <1>2, <1>4, FailsStep
<1>5. QED
  BY <1>1, <1>3, <1>4

\* It goes on in another place of a statement, or fails.
LEMMA SingleGoesOn ==
  ASSUME IInv, On("single"), NEW g, FrameOK(g), g.pc \in {"varName", "externEnd", "return"},
         g.size = 0, NEW n \in Nat, NEW m \in Nat, Calls(<<g>>, n) \/ Fails(0, m)
  PROVE  IInv'
<1>1. /\ OpenedBy(Top) = 0 /\ Carried = 0 /\ "single" \notin Waits
  BY AtSingle
<1>2. OpenedBy(g) = 0 /\ g.pc # "combine" /\ g.pc \notin Carries
  BY DEF OpenedBy, Carries, ValueWaits
<1>3. Kind(g.pc) = Kind("single")
  BY KindIs DEF LinePlaces
<1>4. CASE Calls(<<g>>, n)
  BY <1>1, <1>2, <1>3, <1>4, CallsOn
<1>5. CASE Fails(0, m)
  BY <1>1, <1>5, FailsStep
<1>6. QED
  BY <1>4, <1>5

LEMMA SingleVarsStep == ASSUME IInv, SingleVars PROVE IInv'
<1> DEFINE g == [pc |-> "varName", size |-> 0, type |-> TypeNamed(Tok(1)), cnt |-> 0,
                 vars |-> NoVars]
<1>1. On("single") /\ (Calls(<<g>>, 1) \/ Fails(0, 1))
  BY DEF SingleVars
<1>2. FrameOK(g) /\ g.pc = "varName" /\ g.size = 0
  BY DEF FrameOK, OwnsNothing
<1> HIDE DEF g
<1>3. QED
  BY <1>1, <1>2, SingleGoesOn

LEMMA SingleExternStep == ASSUME IInv, SingleExtern PROVE IInv'
<1> DEFINE g == [pc |-> "externEnd", size |-> 0, name |-> Tok(2)]
<1>1. On("single") /\ (Calls(<<g>>, 2) \/ Fails(0, 2))
  BY DEF SingleExtern
<1>2. FrameOK(g) /\ g.pc = "externEnd" /\ g.size = 0
  BY DEF FrameOK, OwnsNothing
<1> HIDE DEF g
<1>3. QED
  BY <1>1, <1>2, SingleGoesOn

LEMMA SingleReturnStep == ASSUME IInv, SingleReturn PROVE IInv'
<1>1. /\ On("single") /\ Inside /\ Claim(curFunc # None, 643) /\ Go(<<Frame("return")>>, 1)
      /\ UNCHANGED <<ret, tables, errs, live>>
  BY DEF SingleReturn, AtValue
<1>2. curFunc # None
  BY <1>1, InsideRuns
<1>3. UNCHANGED outcome
  BY <1>1, <1>2 DEF Claim, outcome
<1>4. Calls(<<Frame("return")>>, 1)
  BY <1>1, <1>3 DEF Calls
<1>5. FrameOK(Frame("return")) /\ Frame("return").pc = "return" /\ Frame("return").size = 0
  BY FramesAre DEF OwnsNothing, Opening
<1>6. QED
  BY <1>1, <1>4, <1>5, SingleGoesOn

LEMMA ExternEndStep == ASSUME IInv, ExternEnd PROVE IInv'
<1>1. On("externEnd")
  BY DEF ExternEnd
<1>2. /\ OpenedBy(Top) = 0 /\ Carried = 0 /\ Kind("externEnd") = "line" /\ "externEnd" \notin Waits
      /\ live \in Nat /\ ScopesOK(scopes, curFunc) /\ ScopeOK(Cur)
  BY <1>1, Quiet, CarriedIs, KindIs, Reading
     DEF Opening, Carries, ValueWaits, OwnsNothing, LinePlaces, Waits, StatementWaits, ListWaits
<1>3. CASE Fails(0, 0)
  BY <1>1, <1>2, <1>3, FailsStep
<1>4. CASE /\ scopes' = [scopes EXCEPT ![1].externs = @ \union {Top.name}]
           /\ Give(Passed, 1) /\ UNCHANGED <<funcs, curFunc, errs, live, outcome>>
  <2> DEFINE d == [Cur EXCEPT !.externs = Cur.externs \union {Top.name}]
  <2>1. IsSeq(scopes) /\ scopes # <<>>
    BY <1>2 DEF ScopesOK
  <2>2. Cur = scopes[1]
    BY <2>1, SeqSplit DEF Cur
  <2>3. scopes' = [scopes EXCEPT ![1] = d]
    BY <1>4, <2>2
  <2>4. ScopeOK(d) /\ d.kind = Cur.kind /\ d.size = Cur.size /\ Cur.size \in Nat
    BY <1>2 DEF ScopeOK, ScopeFields
  <2> HIDE DEF d
  <2>5. scopes' = <<d>> \o Tail(scopes)
    BY <2>1, <2>3, NewHead
  <2>6. live' \in Int /\ live' + Carried + Cur.size = live + d.size
    BY <1>2, <1>4, <2>4
  <2>7. UNCHANGED <<funcs, curFunc, errs, outcome>>
    BY <1>4
  <2>8. QED
    BY <1>1, <1>2, <1>4, <2>4, <2>5, <2>6, <2>7, AddsStep
<1>5. QED
  BY <1>3, <1>4 DEF ExternEnd

\* An expression that is a statement, or is returned.
LEMMA AsksForValue ==
  ASSUME IInv, NEW p \in {"single", "return"}, On(p), NEW isRet \in BOOLEAN, NEW n \in Nat,
         Calls(Complex \o <<[pc |-> "value", size |-> 0, isRet |-> isRet]>>, n)
  PROVE  IInv'
<1> DEFINE g == [pc |-> "value", size |-> 0, isRet |-> isRet]
<1>1. /\ OpenedBy(Top) = 0 /\ Carried = 0 /\ p \notin Waits
  BY Quiet, CarriedIs
     DEF Opening, Carries, ValueWaits, OwnsNothing, Waits, StatementWaits, ListWaits
<1>2. FrameOK(g) /\ OpenedBy(g) = 0 /\ g.pc = "value" /\ g.size = 0
  BY DEF FrameOK, OpenedBy, OwnsNothing
<1>3. Calls(Complex \o <<g>>, n)
  OBVIOUS
<1> HIDE DEF g
<1>4. Kind(g.pc) = Kind(p) /\ g.pc \in ValueWaits \ {"combine"}
  BY <1>2, KindIs DEF LinePlaces, ValueWaits
<1>5. QED
  BY <1>1, <1>2, <1>3, <1>4, CallsAsking

LEMMA SingleValueStep == ASSUME IInv, SingleValue PROVE IInv'
<1>1. On("single") /\ Calls(Complex \o <<[pc |-> "value", size |-> 0, isRet |-> FALSE]>>, 0)
  BY DEF SingleValue, AtValue
<1>2. QED
  BY <1>1, AsksForValue

LEMMA ReturnValueStep == ASSUME IInv, ReturnValue PROVE IInv'
<1>1. On("return") /\ Calls(Complex \o <<[pc |-> "value", size |-> 0, isRet |-> TRUE]>>, 0)
  BY DEF ReturnValue
<1>2. QED
  BY <1>1, AsksForValue

\* A statement with so many nodes of its own is given to the domain.
LEMMA GivesToDomain ==
  ASSUME IInv, NEW p, On(p), p \notin Waits \/ ret.ok, OpenedBy(Top) = 0,
         Kind(p) \in {"line", "kept"}, NEW own \in Nat, NEW rets, scopes' = Added(scopes, Carried + own, rets),
         live' = live + own, NEW n \in Nat, Give(Passed, n),
         UNCHANGED <<funcs, curFunc, errs, outcome>>
  PROVE  IInv'
<1>1. live \in Nat /\ ScopesOK(scopes, curFunc) /\ ScopeOK(Cur) /\ Carried \in Nat
  BY Reading, CarriedIs
<1> DEFINE more == Carried + own
           d    == With(Head(scopes), more, rets)
<1>2. more \in Nat /\ more = Carried + own /\ scopes' = Added(scopes, more, rets)
  BY <1>1
<1> HIDE DEF more
<1>3. /\ scopes' = <<d>> \o Tail(scopes)
      /\ ScopeOK(d) /\ d.kind = Head(scopes).kind
      /\ d.size = Head(scopes).size + more
  BY <1>1, <1>2, AddedIs
<1> HIDE DEF d
<1>4. live' \in Int /\ live' + Carried + Cur.size = live + d.size
  <2>1. Cur.size \in Nat /\ d.size = Cur.size + more
    BY <1>1, <1>3 DEF ScopeOK, Cur
  <2> DEFINE c == Cur.size
             e == d.size
  <2>2. c \in Nat /\ e = c + more
    BY <2>1
  <2> HIDE DEF c, e
  <2>3. live' \in Int /\ live' + Carried + c = live + e
    BY <1>1, <1>2, <2>2
  <2>4. QED
    BY <2>3 DEF c, e
<1>5. d.kind = Cur.kind
  BY <1>3 DEF Cur
<1>6. QED
  BY <1>3, <1>4, <1>5, AddsStep

LEMMA KeepStep == ASSUME IInv, Keep PROVE IInv'
<1>1. On("keep")
  BY DEF Keep
<1>2. /\ OpenedBy(Top) = 0 /\ Carried = ret.size /\ Kind("keep") = "kept"
      /\ ret.size \in Nat /\ (~ret.ok => ret.size = 0) /\ live \in Nat
  BY <1>1, Quiet, CarriedIs, KindIs, Reading DEF Opening, Carries, OwnsNothing
<1>3. CASE ~ret.ok /\ Shirks(0, 0)
  BY <1>1, <1>2, <1>3, ShirksStep
<1>4. CASE ret.ok /\ Fails(ret.size, 0)
  BY <1>1, <1>2, <1>4, FailsStep
<1>5. CASE /\ ret.ok /\ scopes' = Added(scopes, ret.size, ret.rets)
           /\ Give(Passed, 0) /\ UNCHANGED <<funcs, curFunc, errs, live, outcome>>
  <2>1. ret.size = Carried + 0 /\ live' = live + 0
    BY <1>2, <1>5
  <2>2. scopes' = Added(scopes, Carried + 0, ret.rets) /\ 0 \in Nat
    BY <1>5, <2>1
  <2>3. UNCHANGED <<funcs, curFunc, errs, outcome>> /\ Give(Passed, 0)
    BY <1>5
  <2>4. QED
    BY <1>1, <1>2, <1>5, <2>1, <2>2, <2>3, GivesToDomain
<1>6. QED
  BY <1>1, <1>3, <1>4, <1>5 DEF Keep

LEMMA ReturnVoidStep == ASSUME IInv, ReturnVoid PROVE IInv'
<1>1. On("return")
  BY DEF ReturnVoid
<1>2. /\ OpenedBy(Top) = 0 /\ Carried = 0 /\ Kind("return") = "line" /\ "return" \notin Waits
      /\ Carried + 1 = 1
  BY <1>1, Quiet, CarriedIs, KindIs
     DEF Opening, Carries, ValueWaits, OwnsNothing, LinePlaces, Waits, StatementWaits, ListWaits
<1>3. CASE Fails(0, 0)
  BY <1>1, <1>2, <1>3, FailsStep
<1>4. CASE /\ scopes' = Added(scopes, 1, TRUE) /\ live' = live + 1 /\ Give(Passed, 0)
           /\ UNCHANGED <<funcs, curFunc, errs, outcome>>
  <2>1. scopes' = Added(scopes, Carried + 1, TRUE) /\ 1 \in Nat
    BY <1>2, <1>4
  <2>2. live' = live + 1 /\ Give(Passed, 0) /\ UNCHANGED <<funcs, curFunc, errs, outcome>>
    BY <1>4
  <2>3. 0 \in Nat
    OBVIOUS
  <2>4. QED
    BY <1>1, <1>2, <2>1, <2>2, <2>3, GivesToDomain
<1>5. QED
  BY <1>3, <1>4 DEF ReturnVoid

\* At a value that was read.
LEMMA AtTheValue ==
  ASSUME IInv, On("value")
  PROVE  /\ OpenedBy(Top) = 0 /\ Carried = ret.size /\ ret.size \in Nat /\ Kind("value") = "line"
         /\ ~ret.ok => ret.size = 0
BY Quiet, CarriedIs, KindIs, Reading DEF Opening, Carries, ValueWaits, OwnsNothing, LinePlaces

LEMMA ValueNoneStep == ASSUME IInv, ValueNone PROVE IInv'
<1>1. On("value") /\ ~ret.ok /\ Shirks(0, 0)
  BY DEF ValueNone
<1>2. QED
  BY <1>1, AtTheValue, ShirksStep

LEMMA ValueUnendedStep == ASSUME IInv, ValueUnended PROVE IInv'
<1>1. On("value") /\ Fails(0, 1)
  BY DEF ValueUnended
<1>2. QED
  BY <1>1, AtTheValue, FailsStep

LEMMA ValueEndedStep == ASSUME IInv, ValueEnded PROVE IInv'
<1> DEFINE own == IF Top.isRet THEN 1 ELSE 0
<1>1. On("value") /\ ret.ok
  BY DEF ValueEnded
<1>2. CASE /\ scopes' = Added(scopes, ret.size + own, Top.isRet) /\ live' = live + own
           /\ Give(Passed, 1) /\ UNCHANGED <<funcs, curFunc, errs, outcome>>
  <2>1. own \in Nat
    OBVIOUS
  <2> HIDE DEF own
  <2>2. QED
    BY <1>1, <1>2, <2>1, AtTheValue, GivesToDomain
<1>3. CASE Fails(ret.size, 1)
  BY <1>1, <1>3, AtTheValue, FailsStep
<1>4. QED
  BY <1>2, <1>3 DEF ValueEnded

-----------------------------------------------------------------------------
(* Domains.                                                                 *)

\* What is read first by a call that opens a domain.
LEMMA DomainIn ==
  ASSUME NEW t, StackOK(t), NEW g, FrameOK(g), Fits(Kind(g.pc), t), g.pc \in ListWaits,
         NoValueWaits(t), OpenedBy(g) > 0, NEW r
  PROVE  LET s == <<Frame("domain"), g>> \o t
         IN  Over(s, <<g>> \o t, 0) /\ s # <<>> /\ ~Chooses(s) /\ Flight(Head(s), r) = 0
<1> DEFINE gs == <<g>> \o t
           f  == Frame("domain")
<1>1. IsSeq(t)
  BY DEF StackOK
<1>2. StackOK(gs) /\ gs # <<>> /\ Head(gs) = g
  BY <1>1, StackCons
<1>3. Over(gs, gs, 0)
  BY <1>2, OverSelf
<1>4. NoValueWaits(gs)
  BY <1>1, NoValueWaitsCons DEF ListWaits, ValueWaits
<1>5. Domains(gs) > 0
  <2> DEFINE a == OpenedBy(g)
             b == Domains(t)
             c == Domains(gs)
  <2>1. c = a + b /\ b \in Nat /\ a > 0 /\ a \in 0..2
    BY <1>1, DomainsCons, OpenedByNat
  <2> HIDE DEF a, b, c
  <2>2. c > 0
    BY <2>1
  <2>3. QED
    BY <2>2 DEF c
<1>6. <<f, g>> \o t = <<f>> \o gs
  BY <1>1, TwoOnTop
<1>7. f.pc = "domain"
  BY DEF Frame
<1> HIDE DEF gs
<1>8. Over(<<f>> \o gs, gs, 0) /\ <<f>> \o gs # <<>> /\ Head(<<f>> \o gs) = f
  BY <1>2, <1>3, <1>4, <1>5, DomainOn
<1> HIDE DEF f
<1>9. ~Chooses(<<f>> \o gs) /\ Flight(Head(<<f>> \o gs), r) = 0
  BY <1>7, <1>8 DEF Chooses, Flight, Carries, ValueWaits
<1>10. QED
  BY <1>6, <1>8, <1>9 DEF gs, f

LEMMA SingleIn ==
  ASSUME NEW t, StackOK(t), NEW g, FrameOK(g), Fits(Kind(g.pc), t), g.pc \in StatementWaits,
         NoValueWaits(t), NEW r
  PROVE  LET s == <<Single, g>> \o t
         IN  Over(s, <<g>> \o t, 0) /\ s # <<>> /\ ~Chooses(s) /\ Flight(Head(s), r) = 0
<1> DEFINE gs == <<g>> \o t
<1>1. IsSeq(t)
  BY DEF StackOK
<1>2. StackOK(gs) /\ gs # <<>> /\ Head(gs) = g
  BY <1>1, StackCons
<1>3. Over(gs, gs, 0)
  BY <1>2, OverSelf
<1>4. NoValueWaits(gs)
  BY <1>1, NoValueWaitsCons DEF StatementWaits, ValueWaits
<1>5. OnStatement(gs)
  BY <1>2, <1>4 DEF OnStatement
<1>6. <<Single, g>> \o t = <<Single>> \o gs
  BY <1>1, TwoOnTop
<1>7. Single.pc = "single"
  BY DEF Single, Frame
<1> HIDE DEF gs
<1>8. Over(<<Single>> \o gs, gs, 0) /\ <<Single>> \o gs # <<>> /\ Head(<<Single>> \o gs) = Single
  BY <1>3, <1>5, SingleOn
<1>9. ~Chooses(<<Single>> \o gs) /\ Flight(Head(<<Single>> \o gs), r) = 0
  BY <1>7, <1>8 DEF Chooses, Flight, Carries, ValueWaits
<1>10. QED
  BY <1>6, <1>8, <1>9 DEF gs

\* A call opens a domain and reads what goes into it.
LEMMA OpensStep ==
  ASSUME IInv, NEW p, On(p), p \notin Waits \/ ret.ok,
         Kind(p) \notin {"operand", "choice"}, p # "functionEnd",
         NEW g, FrameOK(g), Fits(Kind(g.pc), Tail(stack)), OpenedBy(g) = OpenedBy(Top) + 1,
         g.pc \notin ValueWaits,
         IF g.pc = "functionEnd" THEN curFunc' # None ELSE curFunc' = curFunc,
         NEW d, ScopeOK(d), d.kind # "root", d.kind = "function" => curFunc' # None,
         g.pc = "forStart" => d.cnt = 0, scopes' = <<d>> \o scopes,
         NEW s2, stack' = s2, Over(s2, <<g>> \o Tail(stack), 0), s2 # <<>>, ~Chooses(s2),
         Flight(Head(s2), ret) = 0,
         NEW n \in Nat, Take(n), UNCHANGED <<ret, funcs, errs, outcome>>,
         live' \in Int, live' + Carried = live + g.size + d.size,
         curFunc' \in Idents \union {None}
  PROVE  IInv'
<1>1. /\ Safe(stack, ret, scopes, curFunc, errs, live) /\ ~errs /\ Top.pc = p
      /\ verdict = "parsing" /\ FuncsOK(funcs) /\ ResultOK(ret) /\ live \in Nat
  BY Reading
<1>2. g.size \in Nat /\ d.size \in Nat
  BY DEF FrameOK, ScopeOK
<1>3. live' + (Head(stack).size + Flight(Head(stack), ret))
        = live + 0 + g.size + d.size + Flight(Head(s2), ret)
  <2>1. live + 0 + g.size + d.size + 0 = live + g.size + d.size
    BY <1>1, <1>2
  <2>2. Carried = Head(stack).size + Flight(Head(stack), ret)
    BY DEF Carried, Top
  <2>3. QED
    BY <2>1, <2>2
<1>4. /\ Kind(Head(stack).pc) \notin {"operand", "choice"} /\ Head(stack).pc # "functionEnd"
      /\ OpenedBy(g) = OpenedBy(Head(stack)) + 1
  BY <1>1 DEF Top
<1>5. Safe(s2, ret, <<d>> \o scopes, curFunc', errs, live')
  BY <1>1, <1>3, <1>4, Opens
<1>6. UNCHANGED outcome /\ Safe(stack', ret', scopes', curFunc', errs', live') /\ FuncsOK(funcs')
  BY <1>1, <1>5
<1>7. QED
  BY <1>1, <1>6, Proceeds

LEMMA NewScopeIs ==
  ASSUME NEW kind
  PROVE  /\ ScopeOK(NewScope(kind)) /\ NewScope(kind).kind = kind
         /\ NewScope(kind).size = 1 /\ NewScope(kind).cnt = 0
BY DEF NewScope, ScopeOK, ScopeFields

LEMMA SingleStructStep == ASSUME IInv, SingleStruct PROVE IInv'
<1> DEFINE g == [pc |-> "structEnd", size |-> 0, name |-> Tok(2)]
           t == Tail(stack)
           d == NewScope("struct")
           s2 == <<Frame("domain"), g>> \o t
<1>1. On("single")
  BY DEF SingleStruct
<1>2. /\ OpenedBy(Top) = 0 /\ Carried = 0 /\ "single" \notin Waits /\ live \in Nat
      /\ StackOK(t) /\ Fits("line", t) /\ Kind("single") = "line"
      /\ StackOK(stack) /\ stack # <<>> /\ Head(stack).pc = "single"
  BY <1>1, AtSingle, Reading DEF Top
<1>3. CASE Fails(0, 2)
  BY <1>1, <1>2, <1>3, FailsStep
<1>4. CASE /\ scopes' = <<NewScope("struct")>> \o scopes /\ live' = live + 1
           /\ Go(<<Frame("domain"), g>>, 3) /\ UNCHANGED <<ret, funcs, curFunc, errs, outcome>>
  <2>1. FrameOK(g) /\ OpenedBy(g) = 1 /\ g.pc = "structEnd" /\ g.size = 0
    BY DEF FrameOK, OpenedBy, OwnsNothing
  <2>2. stack' = s2 /\ Take(3) /\ scopes' = <<d>> \o scopes
    BY <1>4 DEF Go
  <2>3. ScopeOK(d) /\ d.kind = "struct" /\ d.size = 1
    BY NewScopeIs
  <2> HIDE DEF g, d
  <2>4. /\ Fits(Kind(g.pc), t) /\ g.pc \in ListWaits /\ g.pc \notin ValueWaits
        /\ g.pc \notin {"functionEnd", "forStart"}
    BY <1>2, <2>1, KindIs DEF LinePlaces, ListWaits, ValueWaits
  <2>5. NoValueWaits(t)
    BY <1>2, NoWaitsBelow
  <2>6. Over(s2, <<g>> \o t, 0) /\ s2 # <<>> /\ ~Chooses(s2) /\ Flight(Head(s2), ret) = 0
    BY <1>2, <2>1, <2>4, <2>5, DomainIn
  <2>7. /\ OpenedBy(g) = OpenedBy(Top) + 1 /\ live' \in Int
        /\ live' + Carried = live + g.size + d.size
    BY <1>2, <1>4, <2>1, <2>3
  <2>8. /\ IF g.pc = "functionEnd" THEN curFunc' # None ELSE curFunc' = curFunc
        /\ d.kind # "root" /\ d.kind # "function" /\ curFunc' \in Idents \union {None}
    BY <1>4, <2>3, <2>4 DEF IInv, TypeOK
  <2>9. UNCHANGED <<ret, funcs, errs, outcome>>
    BY <1>4
  <2> HIDE DEF s2
  <2>10. QED
    BY <1>1, <1>2, <2>1, <2>2, <2>3, <2>4, <2>6, <2>7, <2>8, <2>9, OpensStep
<1>5. QED
  BY <1>3, <1>4 DEF SingleStruct

\* At the place where a list of statements is read.
LEMMA AtList ==
  ASSUME IInv, NEW p \in {"domain", "open", "repeat"}, On(p)
  PROVE  /\ OpenedBy(Top) = 0 /\ Carried = 0 /\ Kind(p) = "list" /\ Top.pc = p
         /\ NoValueWaits(Tail(stack)) /\ Tail(stack) # <<>> /\ Domains(Tail(stack)) > 0
         /\ Head(Tail(stack)).pc \in ListWaits
<1>1. OpenedBy(Top) = 0 /\ Carried = 0
  BY Quiet, CarriedIs DEF Opening, Carries, ValueWaits, OwnsNothing
<1>2. Kind(p) = "list"
  BY KindIs DEF ListPlaces
<1>3. Fits("list", Tail(stack)) /\ Top.pc = p
  BY <1>2, Reading
<1>4. QED
  BY <1>1, <1>2, <1>3 DEF Fits

LEMMA DomainEnterStep == ASSUME IInv, DomainEnter PROVE IInv'
<1>1. On("domain")
  BY DEF DomainEnter
<1>2. OpenedBy(Top) = 0 /\ Carried = 0 /\ Kind("domain") = "list" /\ "domain" \notin Waits
  BY <1>1, AtList DEF Waits, ValueWaits, StatementWaits, ListWaits
<1>3. CASE Shirks(0, 0)
  BY <1>1, <1>2, <1>3, ShirksStep
<1>4. CASE Calls(<<Frame("open")>>, 0)
  <2> DEFINE g == Frame("open")
  <2>1. g.pc = "open" /\ g.size = 0 /\ FrameOK(g) /\ OpenedBy(g) = 0
    BY FramesAre DEF OwnsNothing, Opening
  <2>2. Calls(<<g>>, 0)
    BY <1>4
  <2> HIDE DEF g
  <2>3. Kind(g.pc) = Kind("domain") /\ g.pc # "combine" /\ g.pc \notin Carries
    BY <2>1, KindIs DEF ListPlaces, Carries, ValueWaits
  <2>4. QED
    BY <1>1, <1>2, <2>1, <2>2, <2>3, CallsOn
<1>5. QED
  BY <1>3, <1>4 DEF DomainEnter

\* A block is in the domain that is open.
LEMMA InADomain ==
  ASSUME IInv, NEW p \in {"domain", "open", "repeat"}, On(p)
  PROVE  Cur.kind # "root"
<1>1. /\ StackOK(stack) /\ stack # <<>> /\ Len(scopes) = 1 + Domains(stack)
      /\ ScopesOK(scopes, curFunc)
  BY Reading
<1>2. Domains(stack) = OpenedBy(Head(stack)) + Domains(Tail(stack))
      /\ Domains(Tail(stack)) \in Nat
  BY <1>1, StackFront
<1>3. Domains(Tail(stack)) > 0 /\ OpenedBy(Head(stack)) = 0
  BY AtList DEF Top
<1>4. Len(scopes) # 1
  <2> DEFINE a == Domains(Tail(stack))
             b == Domains(stack)
             c == Len(scopes)
  <2>1. b = 0 + a /\ a \in Nat /\ a > 0 /\ c = 1 + b
    BY <1>1, <1>2, <1>3
  <2> HIDE DEF a, b, c
  <2>2. c # 1
    BY <2>1
  <2>3. QED
    BY <2>2 DEF c
<1>5. QED
  BY <1>1, <1>4, ScopesSplit DEF Cur

LEMMA DomainBracesStep == ASSUME IInv, DomainBraces PROVE IInv'
<1> DEFINE t == Tail(stack)
           f == Frame("open")
           g == Frame("close")
           d == With(Head(scopes), 0, FALSE)
           ss == <<d>> \o Tail(scopes)
           e == NewScope(Head(ss).kind)
           s == <<f>> \o t
           s2 == <<Frame("domain"), g>> \o t
<1>1. /\ On("open") /\ scopes' = Opened(Added(scopes, 0, FALSE)) /\ live' = live + 1
      /\ stack' = s2 /\ Take(1) /\ UNCHANGED <<ret, funcs, curFunc, errs, outcome>>
  BY DEF DomainBraces, Go
<1>2. /\ Safe(stack, ret, scopes, curFunc, errs, live) /\ ~errs /\ StackOK(t) /\ IsSeq(t)
      /\ ScopesOK(scopes, curFunc) /\ ScopeOK(Cur) /\ live \in Nat /\ ResultOK(ret)
      /\ verdict = "parsing" /\ FuncsOK(funcs) /\ Fits("list", t)
  BY <1>1, Reading, AtList DEF Waits, ValueWaits, StatementWaits, ListWaits
<1>3. /\ OpenedBy(Head(stack)) = 0 /\ Kind(Head(stack).pc) = "list" /\ NoValueWaits(t)
      /\ Head(stack).size + Flight(Head(stack), ret) = 0
  BY <1>1, AtList DEF Top, Carried
<1>4. /\ Added(scopes, 0, FALSE) = ss /\ ScopeOK(d) /\ d.kind = Head(scopes).kind
      /\ d.size = Head(scopes).size + 0
  <2>1. 0 \in Nat
    OBVIOUS
  <2>2. QED
    BY <1>2, <2>1, AddedIs
<1>5. f.pc = "open" /\ f.size = 0 /\ FrameOK(f) /\ OpenedBy(f) = 0
  BY FramesAre DEF OwnsNothing, Opening
<1>6. g.pc = "close" /\ g.size = 0 /\ FrameOK(g) /\ OpenedBy(g) = 1
  BY DEF Frame, FrameOK, OpenedBy, OwnsNothing
<1> HIDE DEF f, g, d
<1>7. Kind(f.pc) = "list" /\ Kind(g.pc) = "list" /\ Flight(f, ret) = 0
  BY <1>5, <1>6, KindIs DEF ListPlaces, Flight, Carries, ValueWaits
<1>8. live \in Int /\ live + (Head(stack).size + Flight(Head(stack), ret)) + Head(scopes).size
        = live + f.size + Flight(f, ret) + d.size
  <2>1. Head(scopes).size \in Nat
    BY <1>2 DEF ScopeOK, Cur
  <2>2. live + 0 + Head(scopes).size = live + 0 + 0 + (Head(scopes).size + 0)
    BY <1>2, <2>1
  <2>3. QED
    BY <1>2, <1>3, <1>4, <1>5, <1>7, <2>2
<1>9. Safe(<<f>> \o Tail(stack), ret, <<d>> \o Tail(scopes), curFunc, errs, live)
  BY <1>2, <1>3, <1>4, <1>5, <1>7, <1>8, AddsUnder
<1>10. Head(s) = f /\ Tail(s) = t
  BY <1>2, ConsParts
<1>11. Head(ss) = d /\ Cur.kind # "root" /\ d.kind = Cur.kind
  BY <1>1, <1>2, <1>4, ScopesChange, InADomain DEF Cur
<1>12. ScopeOK(e) /\ e.kind = d.kind /\ e.size = 1
  BY <1>11, NewScopeIs
<1>13. scopes' = <<e>> \o ss
  BY <1>1, <1>4 DEF Opened
<1>14. d.kind = "function" => curFunc # None
  BY <1>2, <1>11, ScopesSplit DEF Cur
<1>15. g.pc \in ListWaits /\ g.pc \notin ValueWaits /\ g.pc \notin {"functionEnd", "forStart"}
  BY <1>6 DEF ListWaits, ValueWaits
<1>16. Over(s2, <<g>> \o t, 0) /\ s2 # <<>> /\ ~Chooses(s2) /\ Flight(Head(s2), ret) = 0
  BY <1>2, <1>3, <1>6, <1>7, <1>15, DomainIn
<1>17. Safe(s, ret, ss, curFunc, errs, live)
  BY <1>9
<1> HIDE DEF s, ss, e, s2, t
<1>18. /\ FrameOK(g) /\ Fits(Kind(g.pc), Tail(s)) /\ OpenedBy(g) = OpenedBy(Head(s)) + 1
       /\ Kind(Head(s).pc) \notin {"operand", "choice"} /\ Head(s).pc # "functionEnd"
       /\ Over(s2, <<g>> \o Tail(s), 0)
  <2>1. OpenedBy(g) = OpenedBy(Head(s)) + 1
    BY <1>5, <1>6, <1>10
  <2>2. Fits(Kind(g.pc), Tail(s)) /\ Over(s2, <<g>> \o Tail(s), 0)
    BY <1>2, <1>7, <1>10, <1>16
  <2>3. Kind(Head(s).pc) = "list" /\ Head(s).pc = "open"
    BY <1>5, <1>7, <1>10
  <2>4. QED
    BY <1>6, <2>1, <2>2, <2>3
<1>19. /\ live + 1 \in Int
       /\ live + 1 + (Head(s).size + Flight(Head(s), ret))
            = live + 0 + g.size + e.size + Flight(Head(s2), ret)
  <2>1. live + 1 + (0 + 0) = live + 0 + 0 + 1 + 0
    BY <1>2
  <2>2. QED
    BY <1>2, <1>5, <1>6, <1>7, <1>10, <1>12, <1>16, <2>1
<1>20. e.kind # "root" /\ (e.kind = "function" => curFunc # None)
  BY <1>11, <1>12, <1>14
<1>21. Safe(s2, ret, <<e>> \o ss, curFunc, errs, live + 1)
  BY <1>2, <1>12, <1>15, <1>16, <1>17, <1>18, <1>19, <1>20, Opens
<1>22. /\ UNCHANGED outcome /\ Safe(stack', ret', scopes', curFunc', errs', live')
       /\ FuncsOK(funcs') /\ curFunc' \in Idents \union {None} /\ Take(1)
  BY <1>1, <1>2, <1>13, <1>21 DEF IInv, TypeOK
<1>23. QED
  BY <1>2, <1>22, Proceeds

LEMMA DomainPlainStep == ASSUME IInv, DomainPlain PROVE IInv'
<1> DEFINE g == Frame("repeat")
<1>1. On("open") /\ Calls(<<Single, g>>, 0)
  BY DEF DomainPlain
<1>2. OpenedBy(Top) = 0 /\ Carried = 0 /\ Kind("open") = "list" /\ "open" \notin Waits
  BY <1>1, AtList DEF Waits, ValueWaits, StatementWaits, ListWaits
<1>3. g.pc = "repeat" /\ g.size = 0 /\ FrameOK(g) /\ OpenedBy(g) = 0
  BY FramesAre DEF OwnsNothing, Opening
<1> HIDE DEF g
<1>4. Kind(g.pc) = Kind("open") /\ g.pc \in StatementWaits
  BY <1>3, KindIs DEF ListPlaces, StatementWaits
<1>5. QED
  BY <1>1, <1>2, <1>3, <1>4, CallsSingle

LEMMA DomainRepeatStep == ASSUME IInv, DomainRepeat PROVE IInv'
<1>1. On("repeat")
  BY DEF DomainRepeat
<1>2. OpenedBy(Top) = 0 /\ Carried = 0 /\ Kind("repeat") = "list" /\ Top.pc = "repeat"
  BY <1>1, AtList
<1>3. CASE ret.ok /\ Calls(<<Single, Top>>, 0)
  <2>1. Top.size = 0
    BY <1>1, CarriedIs DEF OwnsNothing
  <2>2. FrameOK(Top) /\ OpenedBy(Top) = 0 /\ Top.pc = "repeat" /\ Top.pc \in StatementWaits
    BY <1>1, <2>1, TopAgain DEF Opening, StatementWaits
  <2>3. QED
    BY <1>1, <1>2, <1>3, <2>1, <2>2, CallsSingle
<1>4. CASE ~ret.ok /\ errs /\ Returns(Failed, 0)
  BY <1>1, <1>2, <1>4, FindsNothing
<1>5. CASE ~ret.ok /\ ~errs /\ Returns(Passed, 0)
  BY <1>1, <1>2, <1>5, PassesStep
<1>6. QED
  BY <1>1, <1>3, <1>4, <1>5 DEF DomainRepeat

\* As many domains are open as the call has opened, and one more.
LEMMA DomainsAreThere ==
  ASSUME IInv, NEW p, On(p), NEW k \in Nat, OpenedBy(Top) = k
  PROVE  Len(scopes) > k /\ Len(scopes) \in Nat
<1>1. /\ StackOK(stack) /\ stack # <<>> /\ Len(scopes) = 1 + Domains(stack)
  BY Reading
<1>2. Domains(stack) = OpenedBy(Top) + Domains(Tail(stack)) /\ Domains(Tail(stack)) \in Nat
  BY <1>1, StackFront DEF Top
<1> DEFINE a == Domains(Tail(stack))
           b == Domains(stack)
           c == Len(scopes)
<1>3. b = k + a /\ a \in Nat /\ c = 1 + b
  BY <1>1, <1>2
<1> HIDE DEF a, b, c
<1>4. c > k /\ c \in Nat
  BY <1>3
<1>5. QED
  BY <1>4 DEF c

\* The domains of a call are closed, and it goes on or returns.
LEMMA LeavesStep ==
  ASSUME IInv, NEW p, On(p), Kind(p) \notin {"operand", "choice"},
         NEW rest, ScopesOK(rest, curFunc), Suffixes(rest) \subseteq Suffixes(scopes),
         Len(rest) = Len(scopes) - OpenedBy(Top),
         NEW d, ScopeOK(d), d.kind = Head(rest).kind, d.cnt = Head(rest).cnt,
         scopes' = <<d>> \o Tail(rest),
         curFunc' = IF p = "functionEnd" THEN None ELSE curFunc,
         NEW s2, NEW w, stack' = s2, Over(s2, Tail(stack), w), s2 # <<>>, ~Chooses(s2),
         ResultOK(ret'), errs' \in BOOLEAN, live' \in Int,
         errs => errs', errs' => ~ret'.ok /\ Head(s2).pc \in Waits,
         live' + Carried + Weight(scopes) + Head(rest).size
            >= live + w + d.size + Weight(rest) + Flight(Head(s2), ret'),
         ~errs' => live' + Carried + Weight(scopes) + Head(rest).size
                     = live + w + d.size + Weight(rest) + Flight(Head(s2), ret'),
         FuncsOK(funcs'), NEW n \in Nat, Take(n), UNCHANGED outcome
  PROVE  IInv'
<1>1. /\ Safe(stack, ret, scopes, curFunc, errs, live) /\ Top.pc = p /\ verdict = "parsing"
  BY Reading
<1>2. Carried = Head(stack).size + Flight(Head(stack), ret) /\ Head(stack).pc = p
      /\ OpenedBy(Top) = OpenedBy(Head(stack))
  BY <1>1 DEF Carried, Top
<1>3. /\ Kind(Head(stack).pc) \notin {"operand", "choice"}
      /\ Len(rest) = Len(scopes) - OpenedBy(Head(stack))
      /\ curFunc' = IF Head(stack).pc = "functionEnd" THEN None ELSE curFunc
      /\ live' + (Head(stack).size + Flight(Head(stack), ret)) + Weight(scopes) + Head(rest).size
            >= live + w + d.size + Weight(rest) + Flight(Head(s2), ret')
      /\ ~errs' => live' + (Head(stack).size + Flight(Head(stack), ret)) + Weight(scopes)
                     + Head(rest).size
                     = live + w + d.size + Weight(rest) + Flight(Head(s2), ret')
  BY <1>2
<1>4. Safe(s2, ret', <<d>> \o Tail(rest), curFunc', errs', live')
  BY <1>1, <1>3, Closes
<1>5. Safe(stack', ret', scopes', curFunc', errs', live')
  BY <1>4
<1>6. curFunc' \in Idents \union {None}
  BY DEF IInv, TypeOK
<1>7. QED
  BY <1>1, <1>5, <1>6, Proceeds

\* One domain is closed, and the call returns.
LEMMA CloseStep ==
  ASSUME IInv, NEW p, On(p), Kind(p) \notin {"operand", "choice"}, OpenedBy(Top) = 1,
         NEW d, ScopeOK(d), d.kind = Head(Tail(scopes)).kind, d.cnt = Head(Tail(scopes)).cnt,
         scopes' = <<d>> \o Tail(Tail(scopes)),
         curFunc' = IF p = "functionEnd" THEN None ELSE curFunc,
         stack' = Tail(stack), ret' \in {Passed, Failed}, errs' \in BOOLEAN, live' \in Int,
         errs => errs', errs' => ~ret'.ok,
         live' + Carried + Cur.size + Head(Tail(scopes)).size >= live + d.size,
         ~errs' => live' + Carried + Cur.size + Head(Tail(scopes)).size = live + d.size,
         FuncsOK(funcs'), NEW n \in Nat, Take(n), UNCHANGED outcome
  PROVE  IInv'
<1> DEFINE t == Tail(stack)
           rest == Tail(scopes)
<1>1. /\ Top.pc = p /\ StackOK(stack) /\ stack # <<>> /\ ScopesOK(scopes, curFunc)
      /\ live \in Nat
  BY Reading
<1>2. p # "root"
  BY <1>1 DEF OpenedBy
<1>3. t # <<>> /\ Over(t, t, 0) /\ Head(t).pc \in Waits /\ ~Chooses(t)
  BY <1>1, <1>2, Caller DEF Top
<1>4. Len(scopes) > 1
  BY DomainsAreThere
<1>5. /\ ScopesOK(rest, curFunc) /\ Suffixes(rest) \subseteq Suffixes(scopes)
      /\ Len(rest) = Len(scopes) - 1
      /\ Weight(scopes) = Cur.size + Weight(rest) /\ Cur.size \in Nat /\ Weight(rest) \in Nat
  BY <1>1, <1>4, OneLess DEF Cur
<1>6. Len(rest) = Len(scopes) - OpenedBy(Top)
  BY <1>5
<1>7. ResultOK(ret') /\ Flight(Head(t), ret') = 0
  BY Results
<1>8. ScopeOK(Head(rest)) /\ Carried \in Nat
  BY <1>5, ScopesSplit, CarriedIs
<1>9. /\ live' + Carried + Weight(scopes) + Head(rest).size
           >= live + 0 + d.size + Weight(rest) + Flight(Head(t), ret')
      /\ ~errs' => live' + Carried + Weight(scopes) + Head(rest).size
                     = live + 0 + d.size + Weight(rest) + Flight(Head(t), ret')
  <2> DEFINE a == Carried
             b == Cur.size
             c == Head(rest).size
             e == Weight(rest)
             f == Weight(scopes)
             h == Flight(Head(t), ret')
             m == d.size
             x == live
             y == live'
  <2>1. /\ a \in Nat /\ b \in Nat /\ c \in Nat /\ e \in Nat /\ m \in Nat /\ x \in Nat /\ y \in Int
        /\ f = b + e /\ h = 0 /\ y + a + b + c >= x + m
        /\ ~errs' => y + a + b + c = x + m
    BY <1>1, <1>5, <1>7, <1>8 DEF ScopeOK
  <2> HIDE DEF a, b, c, e, f, h, m, x, y
  <2>2. y + a + f + c >= x + 0 + m + e + h
    BY <2>1
  <2>3. ASSUME ~errs' PROVE y + a + f + c = x + 0 + m + e + h
    <3>1. y + a + b + c = x + m
      BY <2>1, <2>3
    <3>2. QED
      BY <2>1, <3>1
  <2>4. QED
    BY <2>2, <2>3 DEF a, b, c, e, f, h, m, x, y
<1> HIDE DEF t, rest
<1>10. /\ d.kind = Head(rest).kind /\ d.cnt = Head(rest).cnt /\ scopes' = <<d>> \o Tail(rest)
       /\ stack' = t /\ Over(t, Tail(stack), 0)
  BY <1>3 DEF t, rest
<1>11. QED
  BY <1>3, <1>5, <1>6, <1>7, <1>9, <1>10, LeavesStep

\* It is left to the one around it.
Grown(d, n, rets) == [d EXCEPT !.size = d.size + n, !.rets = d.rets \/ rets]

LEMMA ClosedIs ==
  ASSUME NEW ss, NEW cf, ScopesOK(ss, cf), Len(ss) > 1
  PROVE  LET h == Head(Tail(ss))
             d == Grown(h, ss[1].size, ss[1].rets)
         IN  /\ Closed(ss) = <<d>> \o Tail(Tail(ss)) /\ ScopeOK(d)
             /\ d.kind = h.kind /\ d.cnt = h.cnt /\ d.size = h.size + Head(ss).size
             /\ h.size \in Nat /\ Head(ss).size \in Nat
<1> DEFINE t == Tail(ss)
           h == Head(t)
           d == Grown(h, ss[1].size, ss[1].rets)
<1>1. /\ ScopesOK(t, cf) /\ h = t[1] /\ Head(ss) = ss[1] /\ Head(ss).size \in Nat
  BY OneLess
<1>2. ScopeOK(h) /\ IsSeq(t) /\ t # <<>>
  BY <1>1, ScopesSplit DEF ScopesOK
<1>3. 1 \in DOMAIN t
  BY <1>2, SeqParts
<1>4. Closed(ss) = [t EXCEPT ![1] = d]
  BY <1>1, <1>3 DEF Closed, Grown
<1>5. ScopeOK(d) /\ d.kind = h.kind /\ d.cnt = h.cnt /\ d.size = h.size + ss[1].size /\ h.size \in Nat
  BY <1>1, <1>2 DEF ScopeOK, ScopeFields, Grown
<1> HIDE DEF d
<1>6. [t EXCEPT ![1] = d] = <<d>> \o Tail(t)
  BY <1>2, NewHead
<1>7. QED
  BY <1>1, <1>4, <1>5, <1>6 DEF d

\* What the domain holds is left to the one around it, and the call returns.
LEMMA ClosesInto ==
  ASSUME IInv, NEW p \in {"close", "functionEnd"}, On(p), scopes' = Closed(scopes),
         curFunc' = IF p = "functionEnd" THEN None ELSE curFunc,
         stack' = Tail(stack), ret' \in {Passed, Failed}, errs' \in BOOLEAN, live' = live,
         errs => errs', errs' => ~ret'.ok,
         FuncsOK(funcs'), NEW n \in Nat, Take(n), UNCHANGED outcome
  PROVE  IInv'
<1> DEFINE d == Grown(Head(Tail(scopes)), scopes[1].size, scopes[1].rets)
<1>1. /\ Top.pc = p /\ ScopesOK(scopes, curFunc) /\ live \in Nat
  BY Reading
<1>2. OpenedBy(Top) = 1 /\ Carried = 0
  BY <1>1, CarriedIs DEF OpenedBy, OwnsNothing, Carries, ValueWaits
<1>3. Len(scopes) > 1
  BY <1>2, DomainsAreThere
<1>4. /\ scopes' = <<d>> \o Tail(Tail(scopes)) /\ ScopeOK(d)
      /\ d.kind = Head(Tail(scopes)).kind /\ d.cnt = Head(Tail(scopes)).cnt
      /\ d.size = Head(Tail(scopes)).size + Cur.size
      /\ Head(Tail(scopes)).size \in Nat /\ Cur.size \in Nat
  BY <1>1, <1>3, ClosedIs DEF Cur
<1> HIDE DEF d
<1>5. /\ live' \in Int /\ live' + Carried + Cur.size + Head(Tail(scopes)).size = live + d.size
      /\ live' + Carried + Cur.size + Head(Tail(scopes)).size >= live + d.size
  <2> DEFINE a == Carried
             b == Cur.size
             c == Head(Tail(scopes)).size
             e == d.size
             x == live
             y == live'
  <2>1. a = 0 /\ b \in Nat /\ c \in Nat /\ e = c + b /\ x \in Nat /\ y = x
    BY <1>1, <1>2, <1>4
  <2> HIDE DEF a, b, c, e, x, y
  <2>2. y \in Int /\ y + a + b + c = x + e /\ y + a + b + c >= x + e
    BY <2>1
  <2>3. QED
    BY <2>2 DEF a, b, c, e, x, y
<1>6. Kind(p) \notin {"operand", "choice"}
  BY KindIs DEF ListPlaces, DeclarationPlaces
<1>7. QED
  BY <1>2, <1>4, <1>5, <1>6, CloseStep

LEMMA DomainCloseStep == ASSUME IInv, DomainClose PROVE IInv'
<1>1. On("close") /\ scopes' = Closed(scopes) /\ curFunc' = curFunc /\ live' = live
      /\ funcs' = funcs /\ UNCHANGED outcome
  BY DEF DomainClose
<1>2. FuncsOK(funcs') /\ errs \in BOOLEAN /\ (errs => ~ret.ok)
  BY <1>1, Reading
<1>3. PICK n \in Nat : /\ stack' = Tail(stack) /\ Take(n) /\ ret' \in {Passed, Failed}
                       /\ errs' \in BOOLEAN /\ (errs => errs') /\ (errs' => ~ret'.ok)
  <2>1. CASE ret.ok
    <3>1. /\ Give(IF Tok(1) = "}" THEN Passed ELSE Failed, 1)
          /\ errs' = (errs \/ Tok(1) # "}")
      BY <2>1 DEF DomainClose
    <3>2. ~errs
      BY <1>2, <2>1
    <3>3. /\ stack' = Tail(stack) /\ Take(1) /\ ret' \in {Passed, Failed}
          /\ errs' \in BOOLEAN /\ (errs' => ~ret'.ok)
      BY <3>1, <3>2, Results DEF Give
    <3>4. QED
      BY <3>2, <3>3
  <2>2. CASE ~ret.ok
    <3>1. Give(Failed, 0) /\ errs' = errs
      BY <2>2 DEF DomainClose
    <3>2. QED
      BY <1>2, <3>1, Results DEF Give
  <2>3. QED
    BY <1>2, <2>1, <2>2
<1>4. QED
  BY <1>1, <1>2, <1>3, ClosesInto

-----------------------------------------------------------------------------
(* Functions.                                                               *)

ArgPlaces == {"argName", "argEnd", "argArray", "argComma"}

LEMMA ArgIs ==
  ASSUME NEW g, {"pc", "size", "decl"} \subseteq DOMAIN g, g.pc \in ArgPlaces,
         DeclOK(g.decl), g.decl.size = g.size
  PROVE  /\ FrameOK(g) /\ OpenedBy(g) = 0 /\ Kind(g.pc) = "declaration"
         /\ g.pc # "combine" /\ g.pc \notin Carries
<1>1. g.size \in Nat
  BY DEF DeclOK
<1>2. FrameOK(g) /\ OpenedBy(g) = 0
  BY <1>1 DEF FrameOK, OpenedBy, OwnsNothing, ArgPlaces
<1>3. Kind(g.pc) = "declaration"
  BY KindIs DEF DeclarationPlaces, ArgPlaces
<1>4. QED
  BY <1>2, <1>3 DEF ArgPlaces, Carries, ValueWaits

LEMMA DeclIs ==
  ASSUME NEW g, DeclOK(g)
  PROVE  /\ FrameOK(g) /\ OpenedBy(g) = 0 /\ Kind(g.pc) = "declaration"
         /\ g.pc # "combine" /\ g.pc \notin Carries
<1>1. FrameOK(g) /\ OpenedBy(g) = 0 /\ g.pc = "args"
  BY DEF DeclOK, FrameOK, OpenedBy, OwnsNothing
<1>2. QED
  BY <1>1, KindIs DEF DeclarationPlaces, Carries, ValueWaits

\* At an argument.
LEMMA AtArg ==
  ASSUME IInv, NEW p \in ArgPlaces \union {"args"}, On(p)
  PROVE  /\ OpenedBy(Top) = 0 /\ Carried = Top.size /\ Top.size \in Nat
         /\ Kind(p) = "declaration" /\ p \notin Waits /\ Top.pc = p
         /\ p = "args" => DeclOK(Top)
         /\ p # "args" => /\ {"pc", "size", "decl"} \subseteq DOMAIN Top
                          /\ DeclOK(Top.decl) /\ Top.decl.size = Top.size
<1>1. OpenedBy(Top) = 0 /\ Carried = Top.size /\ Top.size \in Nat
  BY Quiet, CarriedIs DEF Opening, Carries, ValueWaits, ArgPlaces
<1>2. Kind(p) = "declaration" /\ p \notin Waits
  BY KindIs DEF DeclarationPlaces, ArgPlaces, Waits, ValueWaits, StatementWaits, ListWaits
<1>3. FrameOK(Top) /\ Top.pc = p
  BY Reading
<1>4. QED
  BY <1>1, <1>2, <1>3 DEF FrameOK, ArgPlaces

LEMMA ArgFails ==
  ASSUME IInv, NEW p \in ArgPlaces \union {"args"}, On(p), NEW n \in Nat, Fails(Top.size, n)
  PROVE  IInv'
<1>1. /\ OpenedBy(Top) = 0 /\ Carried = Top.size /\ Top.size \in Nat /\ p # "root"
  BY AtArg DEF ArgPlaces
<1>2. Top.size <= Carried
  BY <1>1
<1>3. QED
  BY <1>1, <1>2, FailsStep

LEMMA ArgGoes ==
  ASSUME IInv, NEW p \in ArgPlaces, On(p), NEW g, DOMAIN g = DOMAIN Top, g.pc \in ArgPlaces,
         g.size = Top.size, g.decl = Top.decl, NEW n \in Nat, Calls(<<g>>, n)
  PROVE  IInv'
<1>1. /\ OpenedBy(Top) = 0 /\ Carried = Top.size /\ Kind(p) = "declaration" /\ p \notin Waits
      /\ {"pc", "size", "decl"} \subseteq DOMAIN Top
      /\ DeclOK(Top.decl) /\ Top.decl.size = Top.size
  BY AtArg DEF ArgPlaces
<1>2. /\ FrameOK(g) /\ OpenedBy(g) = 0 /\ Kind(g.pc) = "declaration"
      /\ g.pc # "combine" /\ g.pc \notin Carries
  BY <1>1, ArgIs
<1>3. QED
  BY <1>1, <1>2, CallsOn

LEMMA ArgTypeStep == ASSUME IInv, ArgType PROVE IInv'
<1> DEFINE g == [pc |-> "argName", size |-> Top.size, decl |-> Top, ref |-> "",
                 type |-> TypeNamed(Tok(1)), name |-> None]
<1>1. On("args") /\ (Calls(<<g>>, 1) \/ Fails(Top.size, 1))
  BY DEF ArgType
<1>2. /\ OpenedBy(Top) = 0 /\ Carried = Top.size /\ Kind("args") = "declaration"
      /\ "args" \notin Waits /\ DeclOK(Top)
  BY <1>1, AtArg
<1>3. {"pc", "size", "decl"} \subseteq DOMAIN g /\ g.pc \in ArgPlaces /\ g.decl = Top /\ g.size = Top.size
  BY DEF ArgPlaces
<1> HIDE DEF g
<1>4. /\ FrameOK(g) /\ OpenedBy(g) = 0 /\ Kind(g.pc) = "declaration"
      /\ g.pc # "combine" /\ g.pc \notin Carries
  BY <1>2, <1>3, ArgIs
<1>5. CASE Calls(<<g>>, 1)
  BY <1>1, <1>2, <1>3, <1>4, <1>5, CallsOn
<1>6. CASE Fails(Top.size, 1)
  BY <1>1, <1>6, ArgFails
<1>7. QED
  BY <1>1, <1>5, <1>6

LEMMA ArgRefStep == ASSUME IInv, ArgRef PROVE IInv'
<1> DEFINE g == [Top EXCEPT !.ref = Tok(1)]
<1>1. On("argName") /\ Calls(<<g>>, 1)
  BY DEF ArgRef
<1>2. {"pc", "size", "decl"} \subseteq DOMAIN Top /\ Top.pc = "argName"
  BY <1>1, AtArg DEF ArgPlaces
<1>3. DOMAIN g = DOMAIN Top /\ g.pc \in ArgPlaces /\ g.size = Top.size /\ g.decl = Top.decl
  BY <1>2 DEF ArgPlaces
<1> HIDE DEF g
<1>4. QED
  BY <1>1, <1>3, ArgGoes DEF ArgPlaces

LEMMA ArgNameStep == ASSUME IInv, ArgName PROVE IInv'
<1> DEFINE g == [Top EXCEPT !.pc = "argEnd", !.name = Tok(1)]
<1>1. On("argName") /\ (Calls(<<g>>, 1) \/ Fails(Top.size, 1))
  BY DEF ArgName
<1>2. {"pc", "size", "decl"} \subseteq DOMAIN Top
  BY <1>1, AtArg DEF ArgPlaces
<1>3. DOMAIN g = DOMAIN Top /\ g.pc \in ArgPlaces /\ g.size = Top.size /\ g.decl = Top.decl
  BY <1>2 DEF ArgPlaces
<1> HIDE DEF g
<1>4. CASE Calls(<<g>>, 1)
  BY <1>1, <1>3, <1>4, ArgGoes DEF ArgPlaces
<1>5. CASE Fails(Top.size, 1)
  BY <1>1, <1>5, ArgFails DEF ArgPlaces
<1>6. QED
  BY <1>1, <1>4, <1>5

\* The declaration with an argument more.
LEMMA ArgEnds ==
  ASSUME IInv, NEW p \in {"argEnd", "argComma"}, On(p), NEW arr, NEW n \in Nat,
         Calls(<<WithArg(arr)>>, n)
  PROVE  IInv'
<1> DEFINE g == WithArg(arr)
           d == Top.decl
           a == [type |-> Top.type, ref |-> Top.ref # "", arr |-> arr]
<1>1. /\ OpenedBy(Top) = 0 /\ Carried = Top.size /\ Kind(p) = "declaration" /\ p \notin Waits
      /\ DeclOK(d) /\ d.size = Top.size
  BY AtArg DEF ArgPlaces
<1>2. IsSeq(Append(d.args, a))
  <2>1. IsSeq(d.args)
    BY <1>1 DEF DeclOK
  <2> HIDE DEF d, a
  <2>2. QED
    BY <2>1, AppendOK
<1>3. g = [d EXCEPT !.names = Append(d.names, Top.name), !.args = Append(d.args, a)]
  BY DEF WithArg
<1> HIDE DEF d, a
<1>4. /\ DOMAIN g = DOMAIN d /\ g.pc = d.pc /\ g.size = d.size /\ g.name = d.name
      /\ g.args = Append(d.args, a)
  BY <1>1, <1>3 DEF DeclOK
<1>5. Calls(<<g>>, n)
  OBVIOUS
<1> HIDE DEF g
<1>6. DeclOK(g)
  BY <1>1, <1>2, <1>4 DEF DeclOK
<1>7. /\ FrameOK(g) /\ OpenedBy(g) = 0 /\ Kind(g.pc) = "declaration"
      /\ g.pc # "combine" /\ g.pc \notin Carries
  BY <1>6, DeclIs
<1>8. g.size = Carried
  BY <1>1, <1>4
<1>9. QED
  BY <1>1, <1>5, <1>7, <1>8, CallsOn

LEMMA ArgEndStep == ASSUME IInv, ArgEnd PROVE IInv'
<1> DEFINE g == [Top EXCEPT !.pc = "argArray"]
           n == IF Tok(1) = "," THEN 1 ELSE 0
<1>1. On("argEnd")
  BY DEF ArgEnd
<1>2. {"pc", "size", "decl"} \subseteq DOMAIN Top
  BY <1>1, AtArg DEF ArgPlaces
<1>3. DOMAIN g = DOMAIN Top /\ g.pc \in ArgPlaces /\ g.size = Top.size /\ g.decl = Top.decl
  BY <1>2 DEF ArgPlaces
<1>4. n \in Nat
  OBVIOUS
<1> HIDE DEF g, n
<1>5. CASE Calls(<<g>>, 1)
  BY <1>1, <1>3, <1>5, ArgGoes DEF ArgPlaces
<1>6. CASE Calls(<<WithArg(0)>>, n)
  BY <1>1, <1>4, <1>6, ArgEnds
<1>7. Calls(<<g>>, 1) \/ Calls(<<WithArg(0)>>, n)
  BY DEF ArgEnd, g, n
<1>8. QED
  BY <1>5, <1>6, <1>7

LEMMA ArgArrayStep == ASSUME IInv, ArgArray PROVE IInv'
<1> DEFINE g == [Top EXCEPT !.pc = "argComma"]
<1>1. On("argArray") /\ (Calls(<<g>>, 1) \/ Fails(Top.size, 1))
  BY DEF ArgArray
<1>2. {"pc", "size", "decl"} \subseteq DOMAIN Top
  BY <1>1, AtArg DEF ArgPlaces
<1>3. DOMAIN g = DOMAIN Top /\ g.pc \in ArgPlaces /\ g.size = Top.size /\ g.decl = Top.decl
  BY <1>2 DEF ArgPlaces
<1> HIDE DEF g
<1>4. CASE Calls(<<g>>, 1)
  BY <1>1, <1>3, <1>4, ArgGoes DEF ArgPlaces
<1>5. CASE Fails(Top.size, 1)
  BY <1>1, <1>5, ArgFails DEF ArgPlaces
<1>6. QED
  BY <1>1, <1>4, <1>5

LEMMA ArgCommaStep == ASSUME IInv, ArgComma PROVE IInv'
<1> DEFINE n == IF Tok(1) = "," THEN 1 ELSE 0
<1>1. On("argComma") /\ Calls(<<WithArg(-1)>>, n) /\ n \in Nat
  BY DEF ArgComma
<1> HIDE DEF n
<1>2. QED
  BY <1>1, ArgEnds

LEMMA BodyIs ==
  ASSUME NEW name \in Idents, NEW again
  PROVE  LET g == Body(name, again)
         IN  /\ FrameOK(g) /\ OpenedBy(g) = 0 /\ g.pc = "body" /\ g.size = 0
             /\ Kind(g.pc) = "declaration" /\ \A r : Flight(g, r) = 0
<1> DEFINE g == Body(name, again)
<1>1. FrameOK(g) /\ OpenedBy(g) = 0 /\ g.pc = "body" /\ g.size = 0
  BY DEF Body, FrameOK, OpenedBy, OwnsNothing
<1> HIDE DEF g
<1>2. Kind(g.pc) = "declaration" /\ \A r : Flight(g, r) = 0
  BY <1>1, KindIs DEF DeclarationPlaces, Flight, Carries, ValueWaits
<1>3. QED
  BY <1>1, <1>2 DEF g

LEMMA DeclareNewStep == ASSUME IInv, DeclareNew PROVE IInv'
<1> DEFINE g == Body(Top.name, FALSE)
           d == With(Head(scopes), Top.size, FALSE)
<1>1. /\ On("args")
      /\ funcs' = [funcs EXCEPT ![Top.name] =
                    [NoFunc EXCEPT !.known = TRUE, !.ret = Top.ret,
                                   !.args = Top.args, !.names = Top.names]]
      /\ scopes' = Added(scopes, Top.size, FALSE)
      /\ stack' = <<g>> \o Tail(stack) /\ Take(1)
      /\ UNCHANGED <<ret, curFunc, errs, live, outcome>>
  BY DEF DeclareNew, Go
<1>2. /\ OpenedBy(Top) = 0 /\ Carried = Top.size /\ Top.size \in Nat
      /\ Kind("args") = "declaration" /\ "args" \notin Waits /\ Top.pc = "args" /\ DeclOK(Top)
  BY <1>1, AtArg
<1>3. /\ Safe(stack, ret, scopes, curFunc, errs, live) /\ ~errs /\ verdict = "parsing"
      /\ FuncsOK(funcs) /\ ResultOK(ret) /\ live \in Nat /\ ScopesOK(scopes, curFunc) /\ ScopeOK(Cur)
  BY <1>1, <1>2, Reading
<1>4. /\ FrameOK(g) /\ OpenedBy(g) = 0 /\ g.size = 0
      /\ Kind(g.pc) = "declaration" /\ Flight(g, ret) = 0
  BY <1>2, BodyIs DEF DeclOK
<1>5. /\ Added(scopes, Top.size, FALSE) = <<d>> \o Tail(scopes) /\ ScopeOK(d)
      /\ d.kind = Head(scopes).kind /\ d.size = Head(scopes).size + Top.size
  BY <1>2, <1>3, AddedIs
<1> HIDE DEF g, d
<1>6. /\ OpenedBy(Head(stack)) = 0 /\ Kind(Head(stack).pc) = "declaration"
      /\ Carried = Head(stack).size + Flight(Head(stack), ret)
  BY <1>2 DEF Top, Carried
<1>7. live \in Int
      /\ live + (Head(stack).size + Flight(Head(stack), ret)) + Head(scopes).size
           = live + g.size + Flight(g, ret) + d.size
  <2> DEFINE a == Head(stack).size + Flight(Head(stack), ret)
             b == Head(scopes).size
             c == d.size
             e == Top.size
  <2>1. a = e /\ e \in Nat /\ b \in Nat /\ c = b + e /\ live \in Nat
    BY <1>2, <1>3, <1>5, <1>6 DEF ScopeOK, Cur
  <2> HIDE DEF a, b, c, e
  <2>2. live \in Int /\ live + a + b = live + 0 + 0 + c
    BY <2>1
  <2>3. QED
    BY <1>4, <2>2 DEF a, b, c
<1>8. Safe(<<g>> \o Tail(stack), ret, <<d>> \o Tail(scopes), curFunc, errs, live)
  BY <1>3, <1>4, <1>5, <1>6, <1>7, AddsUnder
<1>9. FuncsOK(funcs')
  <2> DEFINE f == [NoFunc EXCEPT !.known = TRUE, !.ret = Top.ret,
                                 !.args = Top.args, !.names = Top.names]
  <2>1. DOMAIN f = {"known", "ret", "args", "names", "begun", "body"} /\ f.args = Top.args
    BY DEF NoFunc
  <2>2. IsSeq(Top.args)
    BY <1>2 DEF DeclOK
  <2>3. funcs' = [funcs EXCEPT ![Top.name] = f]
    BY <1>1
  <2> HIDE DEF f
  <2>4. QED
    BY <1>3, <2>1, <2>2, <2>3 DEF FuncsOK
<1>10. Safe(stack', ret', scopes', curFunc', errs', live') /\ curFunc' \in Idents \union {None}
       /\ UNCHANGED outcome
  BY <1>1, <1>5, <1>8 DEF IInv, TypeOK
<1>11. QED
  BY <1>1, <1>3, <1>9, <1>10, Proceeds

LEMMA DeclareAgainStep == ASSUME IInv, DeclareAgain PROVE IInv'
<1> DEFINE g == Body(Top.name, TRUE)
<1>1. On("args")
  BY DEF DeclareAgain
<1>2. /\ OpenedBy(Top) = 0 /\ Carried = Top.size /\ Top.size \in Nat
      /\ Kind("args") = "declaration" /\ "args" \notin Waits /\ DeclOK(Top)
  BY <1>1, AtArg
<1>3. CASE Fails(Top.size, 1)
  BY <1>1, <1>3, ArgFails
<1>4. CASE Go(<<g>>, 1) /\ live' = live - Top.size /\ UNCHANGED <<ret, tables, errs, outcome>>
  <2>1. /\ FrameOK(g) /\ OpenedBy(g) = 0 /\ g.size = 0 /\ g.pc = "body"
        /\ Kind(g.pc) = "declaration" /\ Flight(g, ret) = 0
    BY <1>2, BodyIs DEF DeclOK
  <2>2. Go(<<g>>, 1)
    BY <1>4
  <2>3. ret' = ret /\ UNCHANGED <<tables, errs, outcome>> /\ live' = live - Top.size
    BY <1>4
  <2>4. live \in Nat /\ ResultOK(ret) /\ Fits("declaration", Tail(stack))
    BY <1>1, <1>2, Reading
  <2> HIDE DEF g
  <2>5. ResultOK(ret') /\ live' \in Int /\ live' + Carried = live + g.size + Flight(g, ret')
    BY <1>2, <2>1, <2>3, <2>4
  <2>6. g.pc # "combine" /\ Fits(Kind(g.pc), Tail(stack))
    BY <2>1, <2>4
  <2>7. QED
    BY <1>1, <1>2, <2>1, <2>2, <2>3, <2>5, <2>6, GoesTo
<1>5. QED
  BY <1>3, <1>4 DEF DeclareAgain

\* At the body of a function no function is read.
LEMMA AtBody ==
  ASSUME IInv, On("body")
  PROVE  /\ OpenedBy(Top) = 0 /\ Carried = 0 /\ Kind("body") = "declaration" /\ "body" \notin Waits
         /\ Top.name \in Idents /\ Top.pc = "body"
         /\ Fits("declaration", Tail(stack)) /\ NoValueWaits(Tail(stack))
         /\ curFunc = None
<1>1. OpenedBy(Top) = 0 /\ Carried = 0
  BY Quiet, CarriedIs DEF Opening, Carries, ValueWaits, OwnsNothing
<1>2. Kind("body") = "declaration" /\ "body" \notin Waits
  BY KindIs DEF DeclarationPlaces, Waits, ValueWaits, StatementWaits, ListWaits
<1>3. /\ Top.pc = "body" /\ FrameOK(Top) /\ Fits("declaration", Tail(stack))
      /\ StackOK(stack) /\ stack # <<>> /\ StackOK(Tail(stack))
      /\ Safe(stack, ret, scopes, curFunc, errs, live)
  BY <1>2, Reading
<1>4. ~Runs(Tail(stack)) /\ NoValueWaits(Tail(stack))
  BY <1>3, NoneRuns DEF Fits, OnStatement
<1>5. ~Runs(stack)
  BY <1>3, <1>4, StackFront DEF Top
<1>6. curFunc = None
  BY <1>3, <1>5 DEF Safe
<1>7. QED
  BY <1>1, <1>2, <1>3, <1>4, <1>6 DEF FrameOK

LEMMA PrototypeStep == ASSUME IInv, Prototype PROVE IInv'
<1>1. On("body") /\ (Returns(Passed, 1) \/ Fails(0, 0))
  BY DEF Prototype
<1>2. OpenedBy(Top) = 0 /\ Carried = 0 /\ "body" \notin Waits
  BY <1>1, AtBody
<1>3. CASE Returns(Passed, 1)
  BY <1>1, <1>2, <1>3, PassesStep
<1>4. CASE Fails(0, 0)
  BY <1>1, <1>2, <1>4, FailsStep
<1>5. QED
  BY <1>1, <1>3, <1>4

LEMMA FunctionBodyStep == ASSUME IInv, FunctionBody PROVE IInv'
<1> DEFINE f == funcs[Top.name]
           n == Len(f.args)
           v == [v \in {f.names[j] : j \in 1..n} |->
                    LET j == CHOOSE j \in 1..n : f.names[j] = v
                    IN  Var(f.args[j].type, f.args[j].arr)]
           d == [NewScope("function") EXCEPT !.size = n, !.cnt = n, !.vars = v]
           g == [pc |-> "functionEnd", size |-> 0, name |-> Top.name]
           t == Tail(stack)
           s2 == <<Frame("domain"), g>> \o t
           Begun == /\ scopes' = <<d>> \o scopes
                    /\ live' = live + n
                    /\ Claim(curFunc = None, 1841)
                    /\ curFunc' = Top.name
                    /\ Go(<<Frame("domain"), g>>, 0)
                    /\ UNCHANGED <<ret, funcs, errs>>
<1>1. On("body")
  BY DEF FunctionBody
<1>2. /\ OpenedBy(Top) = 0 /\ Carried = 0 /\ Kind("body") = "declaration" /\ "body" \notin Waits
      /\ Top.name \in Idents /\ Fits("declaration", t) /\ NoValueWaits(t) /\ curFunc = None
  BY <1>1, AtBody
<1>3. StackOK(t) /\ live \in Nat /\ FuncsOK(funcs)
  BY <1>1, Reading
<1>4. CASE Fails(0, 0)
  BY <1>1, <1>2, <1>4, FailsStep
<1>5. CASE Begun
  <2>1. n \in Nat
    <3>1. IsSeq(f.args)
      BY <1>2, <1>3 DEF FuncsOK
    <3>2. QED
      BY <3>1, SeqParts
  <2>2. FrameOK(g) /\ OpenedBy(g) = 1 /\ g.pc = "functionEnd" /\ g.size = 0
    BY <1>2 DEF FrameOK, OpenedBy, OwnsNothing
  <2>3. stack' = s2 /\ Take(0) /\ scopes' = <<d>> \o scopes /\ live' = live + n
        /\ curFunc' = Top.name /\ UNCHANGED <<ret, funcs, errs>>
    BY <1>5 DEF Go
  <2>4. UNCHANGED outcome
    <3>1. Claim(curFunc = None, 1841)
      BY <1>5
    <3>2. QED
      BY <1>2, <3>1 DEF Claim, outcome
  <2> HIDE DEF n, v
  <2>5. ScopeOK(d) /\ d.kind = "function" /\ d.size = n
    BY <2>1 DEF NewScope, ScopeOK, ScopeFields
  <2> HIDE DEF g, d, f
  <2>6. Fits(Kind(g.pc), t) /\ g.pc \in ListWaits /\ g.pc \notin ValueWaits
    BY <1>2, <2>2, KindIs DEF DeclarationPlaces, ListWaits, ValueWaits
  <2>7. Over(s2, <<g>> \o t, 0) /\ s2 # <<>> /\ ~Chooses(s2) /\ Flight(Head(s2), ret) = 0
    BY <1>2, <1>3, <2>2, <2>6, DomainIn
  <2>8. /\ OpenedBy(g) = OpenedBy(Top) + 1 /\ live' \in Int
        /\ live' + Carried = live + g.size + d.size
    BY <1>2, <1>3, <2>1, <2>2, <2>3, <2>5
  <2>9. curFunc' # None /\ curFunc' \in Idents \union {None}
    BY <1>2, <2>3, NoneIsNoName
  <2>10. UNCHANGED <<ret, funcs, errs, outcome>>
    BY <2>3, <2>4
  <2> HIDE DEF s2
  <2>11. /\ IF g.pc = "functionEnd" THEN curFunc' # None ELSE curFunc' = curFunc
         /\ d.kind # "root" /\ (g.pc = "forStart" => d.cnt = 0)
    BY <2>2, <2>5, <2>9
  <2>12. QED
    BY <1>1, <1>2, <2>2, <2>3, <2>5, <2>6, <2>7, <2>8, <2>9, <2>10, <2>11, OpensStep
<1>6. IF Top.again /\ f.begun THEN Fails(0, 0) ELSE Begun
  BY DEF FunctionBody
<1> HIDE DEF Begun, f
<1>7. QED
  BY <1>4, <1>5, <1>6

LEMMA FunctionEndStep == ASSUME IInv, FunctionEnd PROVE IInv'
<1> DEFINE complete == ret.ok /\ (funcs[Top.name].ret # "void" => Cur.rets)
<1>1. /\ On("functionEnd") /\ scopes' = Closed(scopes) /\ curFunc' = None /\ live' = live
      /\ UNCHANGED outcome
      /\ funcs' = [funcs EXCEPT ![Top.name].begun = Cur.cnt > 0, ![Top.name].body = complete]
      /\ Give(IF complete THEN Passed ELSE Failed, 0)
      /\ errs' = (errs \/ (ret.ok /\ ~complete))
  BY DEF FunctionEnd
<1>2. /\ FrameOK(Top) /\ Top.pc = "functionEnd" /\ FuncsOK(funcs)
      /\ errs \in BOOLEAN /\ (errs => ~ret.ok)
  BY <1>1, Reading
<1>3. Top.name \in Idents
  BY <1>2 DEF FrameOK
<1>4. FuncsOK(funcs')
  <2> HIDE DEF complete
  <2> DEFINE f == [[funcs[Top.name] EXCEPT !.begun = Cur.cnt > 0] EXCEPT !.body = complete]
  <2>1. /\ DOMAIN funcs[Top.name] = {"known", "ret", "args", "names", "begun", "body"}
        /\ IsSeq(funcs[Top.name].args) /\ DOMAIN funcs = Idents
    BY <1>2, <1>3 DEF FuncsOK
  <2>2. /\ DOMAIN f = {"known", "ret", "args", "names", "begun", "body"}
        /\ f.args = funcs[Top.name].args
    BY <2>1
  <2>3. funcs' = [funcs EXCEPT ![Top.name] = f]
    BY <1>1, <1>3, <2>1
  <2> HIDE DEF f
  <2>4. QED
    BY <1>2, <1>3, <2>1, <2>2, <2>3 DEF FuncsOK
<1>5. /\ stack' = Tail(stack) /\ Take(0) /\ ret' = IF complete THEN Passed ELSE Failed
  BY <1>1 DEF Give
<1>6. complete => ret.ok
  OBVIOUS
<1>7. errs' = (errs \/ (ret.ok /\ ~complete))
  BY <1>1
<1> HIDE DEF complete
<1>8. /\ ret' \in {Passed, Failed} /\ errs' \in BOOLEAN /\ (errs => errs')
      /\ (errs' => ~ret'.ok)
  <2>1. complete => ~errs'
    BY <1>2, <1>6, <1>7
  <2>2. errs' \in BOOLEAN /\ (errs => errs')
    BY <1>2, <1>7
  <2>3. QED
    BY <1>5, <2>1, <2>2, Results
<1>9. QED
  BY <1>1, <1>4, <1>5, <1>8, ClosesInto

-----------------------------------------------------------------------------
(* Variables.                                                               *)

VarPlaces == {"varName", "varRest", "varSize", "varValue", "varNext"}

LEMMA VarIs ==
  ASSUME NEW g, {"pc", "size", "cnt"} \subseteq DOMAIN g, g.pc \in VarPlaces,
         g.size \in Nat, g.cnt \in Nat
  PROVE  /\ FrameOK(g) /\ OpenedBy(g) = 0 /\ Kind(g.pc) = "line" /\ g.pc # "combine"
<1>1. FrameOK(g) /\ OpenedBy(g) = 0
  BY DEF FrameOK, OpenedBy, OwnsNothing, VarPlaces
<1>2. Kind(g.pc) = "line"
  BY KindIs DEF LinePlaces, VarPlaces
<1>3. QED
  BY <1>1, <1>2 DEF VarPlaces

LEMMA AtVar ==
  ASSUME IInv, NEW p \in VarPlaces, On(p)
  PROVE  /\ OpenedBy(Top) = 0 /\ Kind(p) = "line" /\ Top.pc = p /\ p # "root"
         /\ {"pc", "size", "cnt"} \subseteq DOMAIN Top /\ Top.size \in Nat /\ Top.cnt \in Nat
         /\ p \in {"varName", "varRest", "varNext"} => p \notin Waits /\ Carried = Top.size
         /\ p \in {"varSize", "varValue"} => Carried = Top.size + ret.size
         /\ ret.size \in Nat /\ (~ret.ok => ret.size = 0) /\ live \in Nat /\ ResultOK(ret)
         /\ Fits("line", Tail(stack))
<1>1. OpenedBy(Top) = 0
  BY Quiet DEF Opening, VarPlaces
<1>2. Kind(p) = "line"
  BY KindIs DEF LinePlaces, VarPlaces
<1>3. /\ p \in {"varName", "varRest", "varNext"} => p \notin Waits /\ Carried = Top.size
      /\ p \in {"varSize", "varValue"} => Carried = Top.size + ret.size
  BY CarriedIs DEF Waits, ValueWaits, StatementWaits, ListWaits, Carries
<1>4. /\ FrameOK(Top) /\ Top.pc = p /\ ret.size \in Nat /\ (~ret.ok => ret.size = 0)
      /\ live \in Nat /\ ResultOK(ret) /\ Fits("line", Tail(stack))
  BY <1>2, Reading
<1>5. QED
  BY <1>1, <1>2, <1>3, <1>4 DEF FrameOK, VarPlaces

LEMMA VarFails ==
  ASSUME IInv, NEW p \in VarPlaces, On(p), NEW freed \in Nat,
         freed = Top.size \/ (p \in {"varSize", "varValue"} /\ freed = Top.size + ret.size),
         NEW n \in Nat, Fails(freed, n)
  PROVE  IInv'
<1>1. /\ OpenedBy(Top) = 0 /\ p # "root" /\ Top.size \in Nat /\ ret.size \in Nat
      /\ Carried = Top.size \/ Carried = Top.size + ret.size
      /\ p \in {"varSize", "varValue"} => Carried = Top.size + ret.size
  BY AtVar DEF VarPlaces
<1>2. freed <= Carried
  BY <1>1
<1>3. QED
  BY <1>1, <1>2, FailsStep

LEMMA VarNameStep == ASSUME IInv, VarName PROVE IInv'
<1> DEFINE g == [pc |-> "varRest", size |-> Top.size, type |-> Top.type, cnt |-> Top.cnt,
                 vars |-> Top.vars, name |-> Tok(1), arr |-> 0]
<1>1. On("varName") /\ (Calls(<<g>>, 1) \/ Fails(Top.size, 1))
  BY DEF VarName
<1>2. /\ OpenedBy(Top) = 0 /\ Kind("varName") = "line" /\ "varName" \notin Waits
      /\ Carried = Top.size /\ Top.size \in Nat /\ Top.cnt \in Nat
  BY <1>1, AtVar DEF VarPlaces
<1>3. /\ {"pc", "size", "cnt"} \subseteq DOMAIN g /\ g.pc = "varRest" /\ g.size = Top.size
      /\ g.cnt = Top.cnt
  OBVIOUS
<1> HIDE DEF g
<1>4. FrameOK(g) /\ OpenedBy(g) = 0 /\ Kind(g.pc) = "line" /\ g.pc # "combine"
  BY <1>2, <1>3, VarIs DEF VarPlaces
<1>5. g.pc \notin Carries /\ g.size = Carried
  BY <1>2, <1>3 DEF Carries, ValueWaits
<1>6. CASE Calls(<<g>>, 1)
  BY <1>1, <1>2, <1>4, <1>5, <1>6, CallsOn
<1>7. CASE Fails(Top.size, 1)
  BY <1>1, <1>2, <1>7, VarFails DEF VarPlaces
<1>8. QED
  BY <1>1, <1>6, <1>7

\* A definition is made of what was read.
LEMMA Defines ==
  ASSUME IInv, NEW p \in {"varRest", "varValue"}, On(p), p \notin Waits \/ ret.ok,
         NEW size \in Nat, Carried = Top.size + size, NEW n \in Nat,
         Makes(<<Defined(Top, size)>>, ret, n)
  PROVE  IInv'
<1> DEFINE g == Defined(Top, size)
<1>1. /\ OpenedBy(Top) = 0 /\ Top.size \in Nat /\ Top.cnt \in Nat /\ live \in Nat /\ ResultOK(ret)
      /\ Fits("line", Tail(stack))
  BY AtVar DEF VarPlaces
<1>2. /\ {"pc", "size", "cnt"} \subseteq DOMAIN g /\ g.pc = "varNext"
      /\ g.size = Top.size + size + 1 /\ g.cnt = Top.cnt + 1
  BY DEF Defined
<1>3. /\ Go(<<g>>, n) /\ UNCHANGED <<tables, errs, outcome>> /\ ret' = ret /\ live' = live + 1
  BY DEF Makes
<1> HIDE DEF g
<1>4. g.size \in Nat /\ g.cnt \in Nat
  BY <1>1, <1>2
<1>5. FrameOK(g) /\ OpenedBy(g) = 0 /\ Kind(g.pc) = "line" /\ g.pc # "combine"
  BY <1>2, <1>4, VarIs DEF VarPlaces
<1>6. Flight(g, ret') = 0
  BY <1>2 DEF Flight, Carries, ValueWaits
<1>7. ResultOK(ret') /\ live' \in Int /\ live' + Carried = live + g.size + Flight(g, ret')
  BY <1>1, <1>2, <1>3, <1>6
<1>8. Fits(Kind(g.pc), Tail(stack))
  BY <1>1, <1>5
<1>9. QED
  BY <1>1, <1>3, <1>5, <1>7, <1>8, GoesTo

\* It asks for the size or the value of the variable.
LEMMA VarAsks ==
  ASSUME IInv, On("varRest"), NEW q \in {"varSize", "varValue"}, NEW n \in Nat,
         Calls(Complex \o <<[Top EXCEPT !.pc = q]>>, n)
  PROVE  IInv'
<1> DEFINE g == [Top EXCEPT !.pc = q]
<1>1. /\ OpenedBy(Top) = 0 /\ Kind("varRest") = "line" /\ "varRest" \notin Waits
      /\ Carried = Top.size /\ Top.size \in Nat /\ Top.cnt \in Nat
      /\ {"pc", "size", "cnt"} \subseteq DOMAIN Top
  BY AtVar DEF VarPlaces
<1>2. /\ {"pc", "size", "cnt"} \subseteq DOMAIN g /\ g.pc = q /\ g.size = Top.size
      /\ g.cnt = Top.cnt
  BY <1>1
<1>3. Calls(Complex \o <<g>>, n)
  OBVIOUS
<1> HIDE DEF g
<1>4. FrameOK(g) /\ OpenedBy(g) = 0 /\ Kind(g.pc) = "line"
  BY <1>1, <1>2, VarIs DEF VarPlaces
<1>5. g.pc \in ValueWaits \ {"combine"} /\ g.size = Carried /\ Kind(g.pc) = Kind("varRest")
  BY <1>1, <1>2, <1>4 DEF ValueWaits
<1>6. QED
  BY <1>1, <1>3, <1>4, <1>5, CallsAsking

LEMMA VarRestStep == ASSUME IInv, VarRest PROVE IInv'
<1>1. On("varRest")
  BY DEF VarRest
<1>2. /\ Carried = Top.size /\ Top.size \in Nat /\ "varRest" \notin Waits
  BY <1>1, AtVar DEF VarPlaces
<1>3. Carried = Top.size + 0
  BY <1>2
<1>4. CASE \E q \in {"varSize", "varValue"} : Calls(Complex \o <<[Top EXCEPT !.pc = q]>>, 1)
  BY <1>1, <1>4, VarAsks
<1>5. CASE \E n \in {0, 1} : Fails(Top.size, n)
  BY <1>1, <1>2, <1>5, VarFails DEF VarPlaces
<1>6. CASE Makes(<<Defined(Top, 0)>>, ret, 0)
  BY <1>1, <1>2, <1>3, <1>6, Defines
<1>7. QED
  BY <1>4, <1>5, <1>6 DEF VarRest

LEMMA VarSizeStep == ASSUME IInv, VarSize PROVE IInv'
<1> DEFINE g == [Top EXCEPT !.pc = "varRest", !.arr = 1]
<1>1. On("varSize")
  BY DEF VarSize
<1>2. /\ OpenedBy(Top) = 0 /\ Kind("varSize") = "line"
      /\ Carried = Top.size + ret.size /\ Top.size \in Nat /\ Top.cnt \in Nat /\ ret.size \in Nat
      /\ {"pc", "size", "cnt"} \subseteq DOMAIN Top /\ live \in Nat /\ ResultOK(ret)
      /\ Fits("line", Tail(stack))
  BY <1>1, AtVar DEF VarPlaces
<1>3. CASE \E n \in {0, 1} : Fails(Top.size, n)
  BY <1>1, <1>2, <1>3, VarFails DEF VarPlaces
<1>4. CASE Fails(Top.size + ret.size, 1)
  <2>1. Top.size + ret.size \in Nat
    BY <1>2
  <2>2. QED
    BY <1>1, <1>4, <2>1, VarFails DEF VarPlaces
<1>5. CASE /\ ret.ok /\ Go(<<g>>, 1) /\ live' = live - ret.size
           /\ UNCHANGED <<ret, tables, errs, outcome>>
  <2>1. /\ {"pc", "size", "cnt"} \subseteq DOMAIN g /\ g.pc = "varRest" /\ g.size = Top.size
        /\ g.cnt = Top.cnt
    BY <1>2
  <2>2. ret.ok /\ Go(<<g>>, 1) /\ live' = live - ret.size /\ ret' = ret
        /\ UNCHANGED <<tables, errs, outcome>>
    BY <1>5
  <2> HIDE DEF g
  <2>3. FrameOK(g) /\ OpenedBy(g) = 0 /\ Kind(g.pc) = "line" /\ g.pc # "combine"
    BY <1>2, <2>1, VarIs DEF VarPlaces
  <2>4. Flight(g, ret') = 0
    BY <2>1 DEF Flight, Carries, ValueWaits
  <2>5. ResultOK(ret') /\ live' \in Int /\ live' + Carried = live + g.size + Flight(g, ret')
    BY <1>2, <2>1, <2>2, <2>4
  <2>6. Fits(Kind(g.pc), Tail(stack))
    BY <1>2, <2>3
  <2>7. QED
    BY <1>1, <1>2, <2>2, <2>3, <2>5, <2>6, GoesTo
<1>6. QED
  BY <1>3, <1>4, <1>5 DEF VarSize

LEMMA VarValueStep == ASSUME IInv, VarValue PROVE IInv'
<1>1. On("varValue")
  BY DEF VarValue
<1>2. /\ OpenedBy(Top) = 0 /\ Kind("varValue") = "line" /\ "varValue" # "root"
      /\ Carried = Top.size + ret.size /\ Top.size \in Nat /\ ret.size \in Nat
      /\ ~ret.ok => ret.size = 0
  BY <1>1, AtVar DEF VarPlaces
<1>3. Top.size + ret.size \in Nat /\ (~ret.ok => Carried = Top.size)
  BY <1>2
<1>4. CASE ~ret.ok /\ Shirks(Top.size, 0)
  BY <1>1, <1>2, <1>3, <1>4, ShirksStep
<1>5. CASE Shirks(Top.size + ret.size, 0)
  BY <1>1, <1>2, <1>3, <1>5, ShirksStep
<1>6. CASE Fails(Top.size + ret.size, 0)
  BY <1>1, <1>2, <1>3, <1>6, VarFails DEF VarPlaces
<1>7. CASE ret.ok /\ Makes(<<Defined(Top, ret.size)>>, ret, 0)
  BY <1>1, <1>2, <1>7, Defines
<1>8. QED
  BY <1>4, <1>5, <1>6, <1>7 DEF VarValue

LEMMA VarNextStep == ASSUME IInv, VarNext PROVE IInv'
<1> DEFINE g == [Top EXCEPT !.pc = "varName"]
           d == [Cur EXCEPT !.size = Cur.size + Top.size, !.cnt = Cur.cnt + Top.cnt,
                            !.vars = Top.vars @@ Cur.vars]
<1>1. On("varNext")
  BY DEF VarNext
<1>2. /\ OpenedBy(Top) = 0 /\ Kind("varNext") = "line" /\ "varNext" \notin Waits
      /\ Carried = Top.size /\ Top.size \in Nat /\ Top.cnt \in Nat
      /\ {"pc", "size", "cnt"} \subseteq DOMAIN Top /\ live \in Nat
  BY <1>1, AtVar DEF VarPlaces
<1>3. CASE Calls(<<g>>, 1)
  <2>1. /\ {"pc", "size", "cnt"} \subseteq DOMAIN g /\ g.pc = "varName" /\ g.size = Top.size
        /\ g.cnt = Top.cnt
    BY <1>2
  <2>2. Calls(<<g>>, 1)
    BY <1>3
  <2> HIDE DEF g
  <2>3. FrameOK(g) /\ OpenedBy(g) = 0 /\ Kind(g.pc) = "line" /\ g.pc # "combine"
    BY <1>2, <2>1, VarIs DEF VarPlaces
  <2>4. g.pc \notin Carries /\ g.size = Carried /\ Kind(g.pc) = Kind("varNext")
    BY <1>2, <2>1, <2>3 DEF Carries, ValueWaits
  <2>5. QED
    BY <1>1, <1>2, <2>2, <2>3, <2>4, CallsOn
<1>4. CASE /\ scopes' = [scopes EXCEPT ![1].size = @ + Top.size, ![1].cnt = @ + Top.cnt,
                                       ![1].vars = Top.vars @@ @]
           /\ Give(Passed, 0) /\ UNCHANGED <<funcs, curFunc, errs, live, outcome>>
  <2>1. ScopesOK(scopes, curFunc) /\ ScopeOK(Cur)
    BY <1>1, Reading
  <2>2. IsSeq(scopes) /\ scopes # <<>>
    BY <2>1 DEF ScopesOK
  <2>3. Cur = scopes[1] /\ 1 \in DOMAIN scopes
    BY <2>2, SeqSplit, SeqParts DEF Cur
  <2>4. scopes' = [scopes EXCEPT ![1] = d]
    BY <1>4, <2>1, <2>3 DEF ScopeOK, ScopeFields
  <2>5. /\ ScopeOK(d) /\ d.kind = Cur.kind /\ d.size = Cur.size + Top.size /\ Cur.size \in Nat
    BY <1>2, <2>1 DEF ScopeOK, ScopeFields
  <2> HIDE DEF d
  <2>6. scopes' = <<d>> \o Tail(scopes)
    BY <2>2, <2>4, NewHead
  <2>7. live' \in Int /\ live' + Carried + Cur.size = live + d.size
    BY <1>2, <1>4, <2>5
  <2>8. UNCHANGED <<funcs, curFunc, errs, outcome>> /\ Give(Passed, 0)
    BY <1>4
  <2>9. QED
    BY <1>1, <1>2, <2>5, <2>6, <2>7, <2>8, AddsStep
<1>5. QED
  BY <1>3, <1>4 DEF VarNext

-----------------------------------------------------------------------------
(* Structures.                                                              *)

\* The innermost domain is dropped, and the call fails.
LEMMA DropStep ==
  ASSUME IInv, NEW p, On(p), Kind(p) \notin {"operand", "choice"}, p # "functionEnd",
         OpenedBy(Top) = 1, scopes' = Tail(scopes), UNCHANGED <<funcs, curFunc, outcome>>,
         NEW n \in Nat, Give(Failed, n), errs' \in BOOLEAN, errs => errs', live' \in Int,
         live' + Carried + Cur.size >= live,
         ~errs' => live' + Carried + Cur.size = live
  PROVE  IInv'
<1> DEFINE d == Head(Tail(scopes))
<1>1. ScopesOK(scopes, curFunc) /\ FuncsOK(funcs) /\ live \in Nat /\ Carried \in Nat
      /\ ScopeOK(Cur)
  BY Reading, CarriedIs
<1>2. Len(scopes) > 1
  BY DomainsAreThere
<1>3. Tail(scopes) = <<d>> \o Tail(Tail(scopes)) /\ ScopesOK(Tail(scopes), curFunc)
  BY <1>1, <1>2, OneLess
<1>4. ScopeOK(d)
  BY <1>3, ScopesSplit
<1> HIDE DEF d
<1>5. /\ live' + Carried + Cur.size + d.size >= live + d.size
      /\ ~errs' => live' + Carried + Cur.size + d.size = live + d.size
  <2> DEFINE a == Carried
             b == Cur.size
             c == d.size
             x == live
             y == live'
  <2>1. /\ a \in Nat /\ b \in Nat /\ c \in Nat /\ x \in Nat /\ y \in Int /\ y + a + b >= x
        /\ ~errs' => y + a + b = x
    BY <1>1, <1>4 DEF ScopeOK
  <2> HIDE DEF a, b, c, x, y
  <2>2. y + a + b + c >= x + c /\ (~errs' => y + a + b + c = x + c)
    BY <2>1
  <2>3. QED
    BY <2>2 DEF a, b, c, x, y
<1>6. /\ d.kind = Head(Tail(scopes)).kind /\ d.cnt = Head(Tail(scopes)).cnt
      /\ scopes' = <<d>> \o Tail(Tail(scopes))
      /\ live' + Carried + Cur.size + Head(Tail(scopes)).size >= live + d.size
      /\ ~errs' => live' + Carried + Cur.size + Head(Tail(scopes)).size = live + d.size
  BY <1>3, <1>5 DEF d
<1>7. /\ stack' = Tail(stack) /\ Take(n) /\ ret' \in {Passed, Failed} /\ ~ret'.ok
      /\ curFunc' = IF p = "functionEnd" THEN None ELSE curFunc
      /\ FuncsOK(funcs') /\ UNCHANGED outcome
  BY <1>1, Results DEF Give
<1>8. QED
  BY <1>4, <1>6, <1>7, CloseStep

\* At the end of a structure.
LEMMA AtStruct ==
  ASSUME IInv, NEW p \in {"structEnd", "structDone"}, On(p)
  PROVE  /\ OpenedBy(Top) = 1 /\ Carried = 0 /\ Kind(p) = "line" /\ Top.pc = p
         /\ {"pc", "size"} \subseteq DOMAIN Top /\ Top.size = 0
         /\ live \in Nat /\ Cur.size \in Nat /\ errs \in BOOLEAN /\ Len(scopes) > 1
<1>1. /\ Top.pc = p /\ FrameOK(Top) /\ live \in Nat /\ ScopeOK(Cur) /\ errs \in BOOLEAN
  BY Reading
<1>2. OpenedBy(Top) = 1
  BY <1>1 DEF OpenedBy
<1>3. Carried = 0 /\ Top.size = 0
  BY CarriedIs DEF OwnsNothing, Carries, ValueWaits
<1>4. Kind(p) = "line"
  BY KindIs DEF LinePlaces
<1>5. Len(scopes) > 1
  BY <1>2, DomainsAreThere
<1>6. QED
  BY <1>1, <1>2, <1>3, <1>4, <1>5 DEF FrameOK, ScopeOK

LEMMA StructFailsStep ==
  ASSUME IInv, NEW p \in {"structEnd", "structDone"}, On(p), NEW n \in Nat,
         NEW reporting \in BOOLEAN, StructFails(n, reporting)
  PROVE  IInv'
<1>1. /\ OpenedBy(Top) = 1 /\ Carried = 0 /\ Kind(p) = "line"
      /\ live \in Nat /\ Cur.size \in Nat /\ errs \in BOOLEAN
  BY AtStruct
<1>2. /\ Give(Failed, n) /\ live' = live - Cur.size /\ UNCHANGED <<funcs, curFunc, outcome>>
      /\ errs' = (errs \/ reporting) /\ scopes' = Tail(scopes)
  BY DEF StructFails, Quit
<1>3. errs' \in BOOLEAN /\ (errs => errs')
  BY <1>1, <1>2
<1>4. /\ live' \in Int /\ live' + Carried + Cur.size = live
      /\ live' + Carried + Cur.size >= live
  BY <1>1, <1>2
<1>5. QED
  BY <1>1, <1>2, <1>3, <1>4, DropStep

\* Without the structure's domain the call would be back at its statement.
LEMMA BackAtStatement ==
  ASSUME IInv, NEW p \in {"structEnd", "structDone"}, On(p), ~errs
  PROVE  /\ Safe(<<Single>> \o Tail(stack), ret, Tail(scopes), curFunc, errs, live - Cur.size)
         /\ Head(<<Single>> \o Tail(stack)) = Single /\ Tail(<<Single>> \o Tail(stack)) = Tail(stack)
<1> DEFINE t  == Tail(stack)
           s2 == <<Single>> \o t
           rest == Tail(scopes)
           d  == Head(rest)
           lv == live - Cur.size
<1>1. /\ OpenedBy(Top) = 1 /\ Carried = 0 /\ Kind(p) = "line" /\ Top.pc = p
      /\ live \in Nat /\ Cur.size \in Nat /\ Len(scopes) > 1
  BY AtStruct
<1>2. /\ Safe(stack, ret, scopes, curFunc, errs, live) /\ StackOK(t) /\ IsSeq(t)
      /\ Fits("line", t) /\ ScopesOK(scopes, curFunc) /\ ResultOK(ret) /\ ScopeOK(Cur)
  BY <1>1, Reading
<1>3. Over(s2, t, 0) /\ s2 # <<>> /\ Head(s2) = Single
  BY <1>2, OverSelf, SingleOn DEF Fits
<1>4. Tail(s2) = t
  BY <1>2, ConsParts
<1>5. Single.pc = "single"
  BY DEF Single, Frame
<1>6. ~Chooses(s2) /\ Flight(Head(s2), ret) = 0
  BY <1>3, <1>5 DEF Chooses, Flight, Carries, ValueWaits
<1>7. /\ ScopesOK(rest, curFunc) /\ Suffixes(rest) \subseteq Suffixes(scopes)
      /\ Len(rest) = Len(scopes) - 1
      /\ Weight(scopes) = Cur.size + Weight(rest) /\ Weight(rest) \in Nat
      /\ rest = <<d>> \o Tail(rest)
  BY <1>1, <1>2, OneLess DEF Cur
<1>8. ScopeOK(d)
  BY <1>7, ScopesSplit
<1> HIDE DEF s2, t, rest
<1>9. /\ Carried = Head(stack).size + Flight(Head(stack), ret) /\ Head(stack).pc = p
      /\ OpenedBy(Head(stack)) = 1
  BY <1>1 DEF Carried, Top
<1>10. /\ lv \in Int
       /\ lv + (Head(stack).size + Flight(Head(stack), ret)) + Weight(scopes) + Head(rest).size
            = live + 0 + d.size + Weight(rest) + Flight(Head(s2), ret)
       /\ lv + (Head(stack).size + Flight(Head(stack), ret)) + Weight(scopes) + Head(rest).size
            >= live + 0 + d.size + Weight(rest) + Flight(Head(s2), ret)
  <2> DEFINE a == Head(stack).size + Flight(Head(stack), ret)
             b == Cur.size
             c == d.size
             e == Weight(rest)
             f == Weight(scopes)
             h == Flight(Head(s2), ret)
             x == live
  <2>1. /\ a = 0 /\ b \in Nat /\ c \in Nat /\ e \in Nat /\ f = b + e /\ h = 0 /\ x \in Nat
        /\ lv = x - b /\ Head(rest).size = c
    BY <1>1, <1>6, <1>7, <1>8, <1>9 DEF ScopeOK
  <2> HIDE DEF a, b, c, e, f, h, x, lv, d
  <2>2. lv \in Int /\ lv + a + f + c = x + 0 + c + e + h /\ lv + a + f + c >= x + 0 + c + e + h
    BY <2>1
  <2>3. QED
    BY <2>1, <2>2 DEF a, b, c, e, f, h, x
<1> HIDE DEF d, lv
<1>11. /\ d.kind = Head(rest).kind /\ d.cnt = Head(rest).cnt
       /\ Len(rest) = Len(scopes) - OpenedBy(Head(stack))
       /\ Kind(Head(stack).pc) \notin {"operand", "choice"}
       /\ curFunc = IF Head(stack).pc = "functionEnd" THEN None ELSE curFunc
       /\ errs => ~ret.ok /\ Head(s2).pc \in Waits
       /\ Over(s2, Tail(stack), 0) /\ errs \in BOOLEAN
  BY <1>1, <1>3, <1>7, <1>9, AtStruct DEF d, t
<1>12. Safe(s2, ret, <<d>> \o Tail(rest), curFunc, errs, lv)
  BY <1>2, <1>3, <1>6, <1>7, <1>8, <1>10, <1>11, Closes
<1>13. QED
  BY <1>3, <1>4, <1>7, <1>12 DEF s2, t, rest, lv

LEMMA StructEndStep == ASSUME IInv, StructEnd PROVE IInv'
<1> DEFINE g == [Top EXCEPT !.pc = "structDone"]
           t == Tail(stack)
           s == <<Single>> \o t
           rest == Tail(scopes)
           d == Cur
           gs == <<g>> \o t
           lv == live - Cur.size
<1>1. On("structEnd")
  BY DEF StructEnd
<1>2. CASE \E n \in {0, 1}, reporting \in BOOLEAN : StructFails(n, reporting)
  BY <1>1, <1>2, StructFailsStep
<1>3. CASE ~errs /\ Calls(<<g>>, 1)
  <2>1. /\ OpenedBy(Top) = 1 /\ Carried = 0 /\ Kind("structEnd") = "line" /\ Top.pc = "structEnd"
        /\ {"pc", "size"} \subseteq DOMAIN Top /\ Top.size = 0
        /\ live \in Nat /\ Cur.size \in Nat /\ Len(scopes) > 1
    BY <1>1, AtStruct
  <2>2. /\ StackOK(t) /\ IsSeq(t) /\ Fits("line", t) /\ ScopesOK(scopes, curFunc) /\ ResultOK(ret)
        /\ ScopeOK(d) /\ FuncsOK(funcs) /\ verdict = "parsing"
    BY <1>1, <2>1, Reading
  <2>3. Safe(s, ret, rest, curFunc, errs, lv) /\ Head(s) = Single /\ Tail(s) = t
    BY <1>1, <1>3, BackAtStatement
  <2>4. g.pc = "structDone" /\ g.size = 0 /\ FrameOK(g) /\ OpenedBy(g) = 1
    BY <2>1 DEF FrameOK, OpenedBy, OwnsNothing
  <2>5. stack' = gs /\ Take(1) /\ UNCHANGED <<ret, scopes, funcs, curFunc, errs, live, outcome>>
    BY <1>3 DEF Calls, Go, tables
  <2> HIDE DEF g
  <2>6. Kind(g.pc) = "line"
    BY <2>4, KindIs DEF LinePlaces
  <2>7. StackOK(gs) /\ gs # <<>> /\ Head(gs) = g
    BY <2>2, <2>4, <2>6, StackCons
  <2> HIDE DEF gs
  <2>8. Over(gs, gs, 0) /\ ~Chooses(gs) /\ Flight(Head(gs), ret) = 0
    BY <2>4, <2>7, OverSelf DEF Chooses, Flight, Carries, ValueWaits
  <2>9. /\ Single.pc = "single" /\ Single.size = 0 /\ OpenedBy(Single) = 0
    BY FramesAre DEF Single, OwnsNothing, Opening
  <2>10. Kind(Single.pc) = "line" /\ Flight(Single, ret) = 0
    BY <2>9, AtSingle, KindIs DEF Flight, Carries, ValueWaits, LinePlaces
  <2>11. /\ d.kind # "root" /\ (d.kind = "function" => curFunc # None)
    <3>1. Len(scopes) # 1
      <4> DEFINE n == Len(scopes)
      <4>1. n > 1 /\ n \in Nat
        BY <2>1, <2>2, ScopesSplit
      <4> HIDE DEF n
      <4>2. n # 1
        BY <4>1
      <4>3. QED
        BY <4>2 DEF n
    <3>2. QED
      BY <2>2, <3>1, ScopesSplit DEF Cur
  <2>12. <<d>> \o rest = scopes
    BY <2>2, ScopesSplit DEF Cur
  <2>13. /\ Kind(Head(s).pc) \notin {"operand", "choice"} /\ Head(s).pc # "functionEnd"
         /\ Fits(Kind(g.pc), Tail(s)) /\ OpenedBy(g) = OpenedBy(Head(s)) + 1
         /\ g.pc \notin ValueWaits
         /\ IF g.pc = "functionEnd" THEN curFunc # None ELSE curFunc = curFunc
         /\ g.pc = "forStart" => d.cnt = 0
    <3>1. OpenedBy(g) = OpenedBy(Head(s)) + 1
      BY <2>3, <2>4, <2>9
    <3>2. Kind(Head(s).pc) = "line" /\ Head(s).pc = "single" /\ Fits(Kind(g.pc), Tail(s))
      BY <2>2, <2>3, <2>6, <2>9, <2>10
    <3>3. QED
      BY <2>4, <3>1, <3>2 DEF ValueWaits
  <2>14. Over(gs, <<g>> \o Tail(s), 0)
    BY <2>3, <2>8 DEF gs
  <2>15. live + (Head(s).size + Flight(Head(s), ret))
           = lv + 0 + g.size + d.size + Flight(Head(gs), ret)
    <3>1. Head(s).size + Flight(Head(s), ret) = 0
      BY <2>3, <2>9, <2>10
    <3>2. live + 0 = lv + 0 + 0 + d.size + 0
      BY <2>1
    <3>3. QED
      BY <2>4, <2>8, <3>1, <3>2
  <2>16. live \in Int
    BY <2>1
  <2> HIDE DEF s, rest, lv, d
  <2>17. Safe(gs, ret, <<d>> \o rest, curFunc, errs, live)
    BY <1>3, <2>2, <2>3, <2>4, <2>7, <2>8, <2>11, <2>13, <2>14, <2>15, <2>16, Opens
  <2>18. /\ Safe(stack', ret', scopes', curFunc', errs', live') /\ FuncsOK(funcs')
         /\ curFunc' \in Idents \union {None} /\ UNCHANGED outcome
    BY <2>2, <2>5, <2>12, <2>17 DEF IInv, TypeOK
  <2>19. QED
    BY <2>2, <2>5, <2>18, Proceeds
<1>4. StructFails(0, TRUE) \/ StructFails(1, FALSE) \/ (~errs /\ Calls(<<g>>, 1))
  BY DEF StructEnd
<1>5. QED
  BY <1>2, <1>3, <1>4

LEMMA StructDoneStep == ASSUME IInv, StructDone PROVE IInv'
<1> DEFINE t == Tail(stack)
           s == <<Single>> \o t
           rest == Tail(scopes)
           h == Head(rest)
           d == [h EXCEPT !.size = h.size + Cur.size, !.cnt = h.cnt + 1,
                          !.structs = Top.name :> Cur.vars @@ h.structs]
           lv == live - Cur.size
<1>1. On("structDone")
  BY DEF StructDone
<1>2. CASE StructFails(1, TRUE)
  BY <1>1, <1>2, StructFailsStep
<1>3. CASE /\ scopes' = [Tail(scopes) EXCEPT
                 ![1].size = @ + Cur.size, ![1].cnt = @ + 1,
                 ![1].structs = Top.name :> Cur.vars @@ @]
           /\ Give(Passed, 1) /\ UNCHANGED <<funcs, curFunc, errs, live, outcome>>
  <2>1. /\ live \in Nat /\ Cur.size \in Nat /\ Len(scopes) > 1
    BY <1>1, AtStruct
  <2>2. /\ ScopesOK(scopes, curFunc) /\ FuncsOK(funcs) /\ verdict = "parsing" /\ ~errs
    BY <1>1, Reading DEF Waits, ValueWaits, StatementWaits, ListWaits
  <2>3. Safe(s, ret, rest, curFunc, errs, lv) /\ Head(s) = Single /\ Tail(s) = t
    BY <1>1, <2>2, BackAtStatement
  <2>4. ScopesOK(rest, curFunc) /\ h = rest[1]
    BY <2>1, <2>2, OneLess
  <2>5. ScopeOK(h) /\ IsSeq(rest) /\ rest # <<>>
    BY <2>4, ScopesSplit DEF ScopesOK
  <2>6. 1 \in DOMAIN rest
    BY <2>5, SeqParts
  <2>7. scopes' = [rest EXCEPT ![1] = d]
    BY <1>3, <2>4, <2>5, <2>6 DEF ScopeOK, ScopeFields
  <2>8. ScopeOK(d) /\ d.kind = h.kind /\ d.size = h.size + Cur.size /\ h.size \in Nat
    BY <2>1, <2>5 DEF ScopeOK, ScopeFields
  <2>9. /\ Single.pc = "single" /\ Single.size = 0 /\ OpenedBy(Single) = 0
    BY FramesAre DEF Single, OwnsNothing, Opening
  <2>10. Kind(Single.pc) = "line" /\ Flight(Single, ret) = 0
    BY <2>9, KindIs DEF Flight, Carries, ValueWaits, LinePlaces
  <2> HIDE DEF d
  <2>11. scopes' = <<d>> \o Tail(rest)
    BY <2>5, <2>7, NewHead
  <2>12. live + (Head(s).size + Flight(Head(s), ret)) + Head(rest).size = lv + d.size
    <3>1. Head(s).size + Flight(Head(s), ret) = 0
      BY <2>3, <2>9, <2>10
    <3>2. live + 0 + h.size = lv + d.size
      BY <2>1, <2>8
    <3>3. QED
      BY <3>1, <3>2
  <2>13. live \in Int /\ d.kind = Head(rest).kind /\ OpenedBy(Head(s)) = 0
         /\ Kind(Head(s).pc) \in {"line", "kept"}
    BY <2>1, <2>3, <2>8, <2>9, <2>10
  <2> HIDE DEF s, rest, lv, h
  <2>14. Safe(Tail(s), Passed, <<d>> \o Tail(rest), curFunc, errs, live)
    BY <2>2, <2>3, <2>8, <2>12, <2>13, Adds
  <2>15. stack' = t /\ Take(1) /\ ret' = Passed /\ UNCHANGED <<funcs, curFunc, errs, live, outcome>>
    BY <1>3 DEF Give
  <2>16. /\ Safe(stack', ret', scopes', curFunc', errs', live') /\ FuncsOK(funcs')
         /\ curFunc' \in Idents \union {None} /\ UNCHANGED outcome
    BY <2>2, <2>3, <2>11, <2>14, <2>15 DEF IInv, TypeOK
  <2>17. QED
    BY <2>2, <2>15, <2>16, Proceeds
<1>4. QED
  BY <1>2, <1>3 DEF StructDone

-----------------------------------------------------------------------------
(* if and for.                                                              *)

\* A statement that has parts: its caller will keep it, in the domain that is open.
LEMMA AtCompound ==
  ASSUME IInv, NEW p \in CompoundPlaces, On(p)
  PROVE  /\ Top.pc = p /\ FrameOK(Top) /\ Top.size \in Nat /\ Kind(p) = "compound"
         /\ StackOK(Tail(stack)) /\ IsSeq(Tail(stack)) /\ Fits("compound", Tail(stack))
         /\ Tail(stack) # <<>> /\ Head(Tail(stack)).pc = "keep" /\ NoValueWaits(Tail(stack))
         /\ ScopesOK(scopes, curFunc) /\ ScopeOK(Cur) /\ Cur.kind # "root"
         /\ Cur.kind = "function" => curFunc # None
         /\ live \in Nat /\ ResultOK(ret) /\ ret.size \in Nat /\ ret.ok \in BOOLEAN
         /\ errs \in BOOLEAN /\ curFunc \in Idents \union {None}
<1>1. Kind(p) = "compound"
  BY KindIs
<1>2. /\ StackOK(stack) /\ stack # <<>> /\ Len(scopes) = 1 + Domains(stack)
      /\ ScopesOK(scopes, curFunc) /\ Fits("compound", Tail(stack))
      /\ Top.pc = p /\ FrameOK(Top) /\ Top.size \in Nat /\ StackOK(Tail(stack)) /\ IsSeq(Tail(stack))
      /\ live \in Nat /\ ResultOK(ret) /\ ret.size \in Nat /\ ret.ok \in BOOLEAN
      /\ errs \in BOOLEAN /\ ScopeOK(Cur)
  BY <1>1, Reading
<1>3. /\ Tail(stack) # <<>> /\ Head(Tail(stack)).pc = "keep" /\ NoValueWaits(Tail(stack))
      /\ Domains(Tail(stack)) > 0
  BY <1>2 DEF Fits
<1>4. /\ Domains(stack) = OpenedBy(Head(stack)) + Domains(Tail(stack))
      /\ Domains(Tail(stack)) \in Nat /\ OpenedBy(Head(stack)) \in Nat
  BY <1>2, StackFront
<1>5. Len(scopes) # 1
  <2> DEFINE a == Domains(Tail(stack))
             b == Domains(stack)
             c == Len(scopes)
             e == OpenedBy(Head(stack))
  <2>1. b = e + a /\ a \in Nat /\ e \in Nat /\ a > 0 /\ c = 1 + b
    BY <1>2, <1>3, <1>4
  <2> HIDE DEF a, b, c, e
  <2>2. c # 1
    BY <2>1
  <2>3. QED
    BY <2>2 DEF c
<1>6. Cur.kind # "root" /\ (Cur.kind = "function" => curFunc # None)
  BY <1>2, <1>5, ScopesSplit DEF Cur
<1>7. curFunc \in Idents \union {None}
  BY DEF IInv, TypeOK
<1>8. QED
  BY <1>1, <1>2, <1>3, <1>6, <1>7

LEMMA PartIs ==
  ASSUME NEW f, DOMAIN f = {"pc", "size", "part", "cond", "rets"}, f.pc = "part",
         f.size \in Nat, f.part \in {"then", "else", "loop"}
  PROVE  /\ FrameOK(f) /\ OpenedBy(f) = IF f.part = "loop" THEN 1 ELSE 0
         /\ Kind(f.pc) = "compound" /\ f.pc \notin Carries \union Waits \union {"combine"}
<1>1. FrameOK(f)
  BY DEF FrameOK, OwnsNothing
<1>2. OpenedBy(f) = IF f.part = "loop" THEN 1 ELSE 0
  BY DEF OpenedBy
<1>3. Kind(f.pc) = "compound" /\ f.pc \notin Carries \union Waits \union {"combine"}
  BY KindIs DEF CompoundPlaces, Carries, Waits, ValueWaits, StatementWaits, ListWaits
<1>4. QED
  BY <1>1, <1>2, <1>3

LEMMA IfCondStep == ASSUME IInv, IfCond PROVE IInv'
<1>1. On("ifCond")
  BY DEF IfCond
<1>2. Kind("ifCond") = "compound" /\ Top.size \in Nat /\ ret.size \in Nat
  BY <1>1, AtCompound DEF CompoundPlaces
<1>3. /\ OpenedBy(Top) = 0 /\ Carried = Top.size + ret.size
      /\ ~ret.ok => Carried = Top.size
  BY <1>1, Quiet, CarriedIs DEF Opening, Carries, ValueWaits
<1>4. CASE ~ret.ok /\ Shirks(Top.size, 0)
  <2>1. Kind("ifCond") # "choice" /\ Top.size = Carried
    BY <1>2, <1>3, <1>4
  <2>2. QED
    BY <1>1, <1>2, <1>3, <1>4, <2>1, ShirksStep
<1>5. CASE Fails(Top.size + ret.size, 1)
  <2>1. Top.size + ret.size \in Nat /\ Top.size + ret.size <= Carried
    BY <1>2, <1>3
  <2>2. QED
    BY <1>1, <1>2, <1>3, <1>5, <2>1, FailsStep
<1>6. CASE ret.ok /\ Calls(<<Part("then", Top.size + ret.size, ret.type, FALSE)>>, 1)
  <2> DEFINE g == Part("then", Top.size + ret.size, ret.type, FALSE)
  <2>1. /\ FrameOK(g) /\ g.size = Top.size + ret.size /\ OpenedBy(g) = 0
        /\ Kind(g.pc) = "compound" /\ g.pc # "combine" /\ g.pc \notin Carries
    <3>1. /\ DOMAIN g = {"pc", "size", "part", "cond", "rets"} /\ g.pc = "part"
          /\ g.part = "then" /\ g.size = Top.size + ret.size /\ g.size \in Nat
      BY <1>2 DEF Part
    <3> HIDE DEF g
    <3>2. QED
      BY <3>1, PartIs
  <2>2. Calls(<<g>>, 1)
    BY <1>6
  <2> HIDE DEF g
  <2>3. QED
    BY <1>1, <1>2, <1>3, <1>6, <2>1, <2>2, CallsOn
<1>7. QED
  BY <1>4, <1>5, <1>6 DEF IfCond

LEMMA IfElseStep == ASSUME IInv, IfElse PROVE IInv'
<1>1. On("else")
  BY DEF IfElse
<1>2. Kind("else") = "compound" /\ Top.size \in Nat /\ live \in Nat
  BY <1>1, AtCompound DEF CompoundPlaces
<1>3. /\ OpenedBy(Top) = 0 /\ Carried = Top.size /\ "else" \notin Waits
  BY <1>1, Quiet, CarriedIs DEF Opening, Carries, ValueWaits, Waits, StatementWaits, ListWaits
<1>4. CASE Calls(<<Part("else", Top.size, Top.cond, Top.rets)>>, 1)
  <2> DEFINE g == Part("else", Top.size, Top.cond, Top.rets)
  <2>1. /\ FrameOK(g) /\ g.size = Top.size /\ OpenedBy(g) = 0
        /\ Kind(g.pc) = "compound" /\ g.pc # "combine" /\ g.pc \notin Carries
    <3>1. /\ DOMAIN g = {"pc", "size", "part", "cond", "rets"} /\ g.pc = "part"
          /\ g.part = "else" /\ g.size = Top.size /\ g.size \in Nat
      BY <1>2 DEF Part
    <3> HIDE DEF g
    <3>2. QED
      BY <3>1, PartIs
  <2>2. Calls(<<g>>, 1)
    BY <1>4
  <2> HIDE DEF g
  <2>3. QED
    BY <1>1, <1>2, <1>3, <2>1, <2>2, CallsOn
<1>5. CASE Returns(Statement(Top.size, Tests(Top.cond), FALSE), 0)
  <2> DEFINE r == Statement(Top.size, Tests(Top.cond), FALSE)
  <2>1. r.ok /\ r.size = Top.size /\ ResultOK(r)
    BY <1>2, StatementIs
  <2>2. Give(r, 0) /\ UNCHANGED <<tables, errs, outcome>> /\ live' = live
    BY <1>5 DEF Returns
  <2> HIDE DEF r
  <2>3. live' \in Int /\ live' + Carried = live + r.size
    BY <1>2, <1>3, <2>1, <2>2
  <2>4. QED
    BY <1>1, <1>2, <1>3, <2>1, <2>2, <2>3, GivesValue
<1>6. QED
  BY <1>4, <1>5 DEF IfElse

LEMMA ForOpenStep == ASSUME IInv, ForOpen PROVE IInv'
<1>1. On("for")
  BY DEF ForOpen
<1>2. /\ Kind("for") = "compound" /\ Top.pc = "for" /\ live \in Nat
      /\ StackOK(Tail(stack)) /\ Fits("compound", Tail(stack)) /\ NoValueWaits(Tail(stack))
      /\ Cur.kind # "root" /\ (Cur.kind = "function" => curFunc # None)
      /\ curFunc \in Idents \union {None}
  BY <1>1, AtCompound DEF CompoundPlaces
<1>3. /\ OpenedBy(Top) = 0 /\ Carried = 0 /\ "for" \notin Waits
  BY <1>1, Quiet, CarriedIs
     DEF Opening, Carries, ValueWaits, Waits, StatementWaits, ListWaits, OwnsNothing
<1>4. CASE Shirks(0, 1)
  <2>1. Kind("for") # "choice"
    BY <1>2
  <2>2. QED
    BY <1>1, <1>2, <1>3, <1>4, <2>1, ShirksStep
<1>5. CASE /\ scopes' = Opened(scopes)
           /\ live' = live + 2
           /\ Go(<<Single, [pc |-> "forStart", size |-> 1]>>, 1)
           /\ UNCHANGED <<ret, funcs, curFunc, errs, outcome>>
  <2> DEFINE g == [pc |-> "forStart", size |-> 1]
             d == NewScope(Cur.kind)
             s2 == <<Single, g>> \o Tail(stack)
  <2>1. /\ g.pc = "forStart" /\ g.size = 1 /\ FrameOK(g) /\ OpenedBy(g) = 1
    BY DEF FrameOK, OpenedBy, OwnsNothing
  <2>2. ScopeOK(d) /\ d.kind = Cur.kind /\ d.size = 1 /\ d.cnt = 0
    BY NewScopeIs
  <2>3. /\ stack' = s2 /\ Take(1) /\ scopes' = <<d>> \o scopes /\ live' = live + 2
        /\ UNCHANGED <<ret, funcs, errs, outcome>> /\ curFunc' = curFunc
    BY <1>5 DEF Go, Opened, Cur
  <2> HIDE DEF g, d
  <2>4. Kind(g.pc) = "compound" /\ g.pc \in StatementWaits /\ g.pc \notin ValueWaits
    BY <2>1, KindIs DEF CompoundPlaces, StatementWaits, ValueWaits
  <2>5. /\ Over(s2, <<g>> \o Tail(stack), 0) /\ s2 # <<>> /\ ~Chooses(s2)
        /\ Flight(Head(s2), ret) = 0
    BY <1>2, <2>1, <2>4, SingleIn
  <2> HIDE DEF s2
  <2>6. OpenedBy(g) = OpenedBy(Top) + 1
    BY <1>3, <2>1
  <2>7. live' \in Int /\ live' + Carried = live + g.size + d.size
    BY <1>2, <1>3, <2>1, <2>2, <2>3
  <2>8. /\ Fits(Kind(g.pc), Tail(stack)) /\ g.pc # "functionEnd"
        /\ IF g.pc = "functionEnd" THEN curFunc' # None ELSE curFunc' = curFunc
        /\ Kind("for") \notin {"operand", "choice"}
        /\ d.kind # "root" /\ (d.kind = "function" => curFunc' # None)
        /\ curFunc' \in Idents \union {None}
    BY <1>2, <2>1, <2>2, <2>3, <2>4
  <2>9. QED
    BY <1>1, <1>3, <2>1, <2>2, <2>3, <2>4, <2>5, <2>6, <2>7, <2>8, OpensStep
<1>6. QED
  BY <1>4, <1>5 DEF ForOpen

\* A part of a statement, before and while it is read.
LEMMA AtPart ==
  ASSUME IInv, NEW p \in {"part", "block", "line"}, On(p)
  PROVE  /\ {"pc", "size", "part"} \subseteq DOMAIN Top /\ Top.part \in {"then", "else", "loop"}
         /\ Top.pc = p /\ Carried = Top.size /\ Top.size \in Nat
         /\ OpenedBy(Top) = (IF p = "part" THEN 0 ELSE 1) + (IF Top.part = "loop" THEN 1 ELSE 0)
<1>1. Top.pc = p /\ FrameOK(Top) /\ Top.size \in Nat
  BY AtCompound DEF CompoundPlaces
<1>2. Carried = Top.size
  BY CarriedIs DEF Carries, ValueWaits
<1>3. {"pc", "size", "part"} \subseteq DOMAIN Top /\ Top.part \in {"then", "else", "loop"}
  BY <1>1 DEF FrameOK
<1>4. OpenedBy(Top) = (IF p = "part" THEN 0 ELSE 1) + (IF Top.part = "loop" THEN 1 ELSE 0)
  <2>1. CASE p = "part"
    BY <1>1, <2>1 DEF OpenedBy
  <2>2. CASE p # "part"
    BY <1>1, <2>2 DEF OpenedBy
  <2>3. QED
    BY <2>1, <2>2
<1>5. QED
  BY <1>1, <1>2, <1>3, <1>4

LEMMA PartOpenStep == ASSUME IInv, PartOpen PROVE IInv'
<1>1. On("part") /\ scopes' = Opened(scopes) /\ live' = live + 1
      /\ UNCHANGED <<ret, funcs, curFunc, errs, outcome>>
  BY DEF PartOpen
<1>2. /\ Kind("part") = "compound" /\ Top.pc = "part" /\ live \in Nat
      /\ StackOK(Tail(stack)) /\ Fits("compound", Tail(stack)) /\ NoValueWaits(Tail(stack))
      /\ Cur.kind # "root" /\ (Cur.kind = "function" => curFunc # None)
      /\ curFunc \in Idents \union {None}
  BY <1>1, AtCompound DEF CompoundPlaces
<1>3. /\ {"pc", "size", "part"} \subseteq DOMAIN Top /\ Top.part \in {"then", "else", "loop"}
      /\ OpenedBy(Top) = 0 + (IF Top.part = "loop" THEN 1 ELSE 0)
      /\ Carried = Top.size /\ Top.size \in Nat
  BY <1>1, AtPart
<1>4. "part" \notin Waits /\ Kind("part") \notin {"operand", "choice"}
  BY <1>2 DEF Waits, ValueWaits, StatementWaits, ListWaits
<1> DEFINE d == NewScope(Cur.kind)
<1>5. ScopeOK(d) /\ d.kind = Cur.kind /\ d.size = 1 /\ d.cnt = 0
  BY NewScopeIs
<1>6. scopes' = <<d>> \o scopes
  BY <1>1 DEF Opened, Cur
<1> HIDE DEF d
<1>7. ASSUME NEW pc \in {"block", "line"}
      PROVE  LET g == [Top EXCEPT !.pc = pc]
             IN  /\ FrameOK(g) /\ g.pc = pc /\ g.size = Top.size /\ OpenedBy(g) = OpenedBy(Top) + 1
                 /\ Kind(g.pc) = "compound"
  <2> DEFINE g == [Top EXCEPT !.pc = pc]
  <2>1. g.pc = pc /\ g.size = Top.size /\ g.part = Top.part /\ DOMAIN g = DOMAIN Top
    BY <1>3
  <2> HIDE DEF g
  <2>2. FrameOK(g)
    BY <1>3, <2>1 DEF FrameOK, OwnsNothing
  <2>3. OpenedBy(g) = OpenedBy(Top) + 1
    BY <1>3, <2>1 DEF OpenedBy
  <2>4. Kind(g.pc) = "compound"
    BY <2>1, KindIs DEF CompoundPlaces
  <2>5. QED
    BY <2>1, <2>2, <2>3, <2>4 DEF g
<1>8. ASSUME NEW g, FrameOK(g), g.size = Top.size, OpenedBy(g) = OpenedBy(Top) + 1,
             Kind(g.pc) = "compound", g.pc \in {"block", "line"},
             NEW s2, stack' = s2, Over(s2, <<g>> \o Tail(stack), 0), s2 # <<>>, ~Chooses(s2),
             Flight(Head(s2), ret) = 0, NEW n \in Nat, Take(n)
      PROVE  IInv'
  <2>1. live' \in Int /\ live' + Carried = live + g.size + d.size
    BY <1>1, <1>2, <1>3, <1>5, <1>8
  <2>2. /\ Fits(Kind(g.pc), Tail(stack)) /\ g.pc \notin ValueWaits /\ g.pc # "functionEnd"
        /\ IF g.pc = "functionEnd" THEN curFunc' # None ELSE curFunc' = curFunc
        /\ g.pc = "forStart" => d.cnt = 0
    BY <1>1, <1>2, <1>8 DEF ValueWaits
  <2>3. /\ d.kind # "root" /\ (d.kind = "function" => curFunc' # None)
        /\ curFunc' \in Idents \union {None} /\ UNCHANGED <<ret, funcs, errs, outcome>>
    BY <1>1, <1>2, <1>5
  <2>4. QED
    BY <1>1, <1>4, <1>5, <1>6, <1>8, <2>1, <2>2, <2>3, OpensStep
<1>9. CASE Go(<<Frame("domain"), [Top EXCEPT !.pc = "block"]>>, 1)
  <2> DEFINE g == [Top EXCEPT !.pc = "block"]
             s2 == <<Frame("domain"), g>> \o Tail(stack)
  <2>1. /\ FrameOK(g) /\ g.pc = "block" /\ g.size = Top.size /\ OpenedBy(g) = OpenedBy(Top) + 1
        /\ Kind(g.pc) = "compound"
    BY <1>7
  <2>2. stack' = s2 /\ Take(1)
    BY <1>9 DEF Go
  <2> HIDE DEF g
  <2>3. g.pc \in ListWaits /\ OpenedBy(g) > 0
    BY <1>3, <2>1 DEF ListWaits
  <2>4. /\ Over(s2, <<g>> \o Tail(stack), 0) /\ s2 # <<>> /\ ~Chooses(s2)
        /\ Flight(Head(s2), ret) = 0
    BY <1>2, <2>1, <2>3, DomainIn
  <2> HIDE DEF s2
  <2>5. QED
    BY <1>8, <2>1, <2>2, <2>4
<1>10. CASE Go(<<Single, [Top EXCEPT !.pc = "line"]>>, 0)
  <2> DEFINE g == [Top EXCEPT !.pc = "line"]
             s2 == <<Single, g>> \o Tail(stack)
  <2>1. /\ FrameOK(g) /\ g.pc = "line" /\ g.size = Top.size /\ OpenedBy(g) = OpenedBy(Top) + 1
        /\ Kind(g.pc) = "compound"
    BY <1>7
  <2>2. stack' = s2 /\ Take(0) /\ 0 \in Nat
    BY <1>10 DEF Go
  <2> HIDE DEF g
  <2>3. g.pc \in StatementWaits
    BY <2>1 DEF StatementWaits
  <2>4. /\ Over(s2, <<g>> \o Tail(stack), 0) /\ s2 # <<>> /\ ~Chooses(s2)
        /\ Flight(Head(s2), ret) = 0
    BY <1>2, <2>1, <2>3, SingleIn
  <2> HIDE DEF s2
  <2>5. QED
    BY <1>8, <2>1, <2>2, <2>4
<1>11. QED
  BY <1>9, <1>10 DEF PartOpen

\* Without the one or the two innermost domains.
LEMMA LeavingTwo ==
  ASSUME NEW ss, NEW cf, ScopesOK(ss, cf), Len(ss) > 2
  PROVE  Leaving(ss, 2) = Tail(Tail(ss))
<1> DEFINE S == {ss[k] : k \in DOMAIN ss}
           l == Len(ss)
<1>1. IsSeq(ss) /\ l \in Nat
  BY ScopesSplit DEF ScopesOK
<1>2. ss \in Seq(S) /\ Tail(ss) = SubSeq(ss, 2, Len(ss))
  BY <1>1 DEF IsSeq
<1>3. 2 \in 1..l /\ l \in 2..l
  BY <1>1
<1> HIDE DEF S, l
<1>4. Tail(SubSeq(ss, 2, l)) = SubSeq(ss, 2 + 1, l)
  BY <1>2, <1>3, HeadTailOfSubSeq DEF l
<1>5. QED
  BY <1>2, <1>4 DEF Leaving, l

LEMMA LeavingIs ==
  ASSUME NEW ss, NEW cf, ScopesOK(ss, cf), NEW n \in {1, 2}, Len(ss) > n
  PROVE  LET rest == Leaving(ss, n)
         IN  /\ ScopesOK(rest, cf) /\ Suffixes(rest) \subseteq Suffixes(ss)
             /\ Len(rest) = Len(ss) - n
             /\ ScopeOK(Head(rest)) /\ rest = <<Head(rest)>> \o Tail(rest)
             /\ ss[1].size \in Nat /\ (n = 2 => ss[2].size \in Nat) /\ Weight(rest) \in Nat
             /\ Weight(ss) = ss[1].size + (IF n = 2 THEN ss[2].size ELSE 0) + Weight(rest)
<1> DEFINE t == Tail(ss)
           u == Tail(t)
<1>1. IsSeq(ss) /\ Len(ss) \in Nat
  BY ScopesSplit DEF ScopesOK
<1>2. Len(ss) > 1
  BY <1>1
<1>3. /\ ScopesOK(t, cf) /\ Suffixes(t) \subseteq Suffixes(ss) /\ Len(t) = Len(ss) - 1
      /\ Weight(ss) = ss[1].size + Weight(t) /\ ss[1].size \in Nat /\ Weight(t) \in Nat
      /\ Head(t) = ss[2] /\ t = <<Head(t)>> \o Tail(t)
  BY <1>2, OneLess
<1>4. Leaving(ss, 1) = t
  BY <1>1, <1>2 DEF Leaving, IsSeq
<1>5. CASE n = 1
  <2>1. ScopeOK(Head(t))
    BY <1>3, ScopesSplit
  <2> HIDE DEF t
  <2>2. Weight(ss) = ss[1].size + 0 + Weight(t)
    BY <1>3
  <2>3. QED
    BY <1>3, <1>4, <1>5, <2>1, <2>2
<1>6. CASE n = 2
  <2>1. Len(t) > 1
    BY <1>1, <1>3, <1>6
  <2>2. /\ ScopesOK(u, cf) /\ Suffixes(u) \subseteq Suffixes(t) /\ Len(u) = Len(t) - 1
        /\ Weight(t) = Head(t).size + Weight(u) /\ Head(t).size \in Nat /\ Weight(u) \in Nat
        /\ u = <<Head(u)>> \o Tail(u)
    <3> HIDE DEF t
    <3>1. /\ ScopesOK(Tail(t), cf) /\ Suffixes(Tail(t)) \subseteq Suffixes(t)
          /\ Len(Tail(t)) = Len(t) - 1
          /\ Weight(t) = Head(t).size + Weight(Tail(t)) /\ Head(t).size \in Nat
          /\ Weight(Tail(t)) \in Nat
      BY <1>3, <2>1, OneLess
    <3>2. ScopesOK(Tail(t), cf) => Tail(t) = <<Head(Tail(t))>> \o Tail(Tail(t))
      BY ScopesSplit
    <3>3. QED
      BY <3>1, <3>2
  <2>3. Leaving(ss, 2) = u
    BY <1>6, LeavingTwo
  <2>4. ScopeOK(Head(u))
    BY <2>2, ScopesSplit
  <2> HIDE DEF t, u
  <2>5. Suffixes(u) \subseteq Suffixes(ss)
    BY <1>3, <2>2
  <2>6. Len(u) = Len(ss) - 2
    BY <1>1, <1>3, <2>2
  <2>7. ss[2].size \in Nat /\ Weight(ss) = ss[1].size + ss[2].size + Weight(u)
    <3> DEFINE a == ss[1].size
               b == ss[2].size
               c == Weight(u)
               e == Weight(t)
               w == Weight(ss)
    <3>1. a \in Nat /\ b \in Nat /\ c \in Nat /\ w = a + e /\ e = b + c
      BY <1>3, <2>2
    <3> HIDE DEF a, b, c, e, w
    <3>2. b \in Nat /\ w = a + b + c
      BY <3>1
    <3>3. QED
      BY <3>2 DEF a, b, c, w
  <2>8. QED
    BY <1>3, <1>6, <2>2, <2>3, <2>4, <2>5, <2>6, <2>7
<1>7. QED
  BY <1>5, <1>6

\* At the end of a part, the domains of the statement are still open.
LEMMA AtItsEnd ==
  ASSUME IInv, NEW p \in {"block", "line"}, On(p)
  PROVE  LET rest == Leaving(scopes, Depth)
         IN  /\ ScopesOK(rest, curFunc) /\ Suffixes(rest) \subseteq Suffixes(scopes)
             /\ Len(rest) = Len(scopes) - OpenedBy(Top)
             /\ ScopeOK(Head(rest)) /\ rest = <<Head(rest)>> \o Tail(rest)
             /\ Owned \in Nat /\ Weight(rest) \in Nat /\ Carried \in Nat
             /\ Carried + Weight(scopes) = Owned + Weight(rest)
<1> DEFINE rest == Leaving(scopes, Depth)
<1>1. /\ Top.part \in {"then", "else", "loop"} /\ Carried = Top.size /\ Top.size \in Nat
      /\ OpenedBy(Top) = 1 + (IF Top.part = "loop" THEN 1 ELSE 0)
  BY AtPart
<1>2. /\ Depth \in {1, 2} /\ Depth \in Nat /\ OpenedBy(Top) = Depth
      /\ Depth = 2 <=> Top.part = "loop"
  BY <1>1 DEF Depth
<1>3. ScopesOK(scopes, curFunc)
  BY Reading
<1>4. Len(scopes) > Depth
  BY <1>2, DomainsAreThere
<1>5. /\ ScopesOK(rest, curFunc) /\ Suffixes(rest) \subseteq Suffixes(scopes)
      /\ Len(rest) = Len(scopes) - Depth
      /\ ScopeOK(Head(rest)) /\ rest = <<Head(rest)>> \o Tail(rest)
      /\ scopes[1].size \in Nat /\ (Depth = 2 => scopes[2].size \in Nat) /\ Weight(rest) \in Nat
      /\ Weight(scopes) = scopes[1].size + (IF Depth = 2 THEN scopes[2].size ELSE 0) + Weight(rest)
  BY <1>2, <1>3, <1>4, LeavingIs
<1> HIDE DEF rest
<1>6. /\ Owned \in Nat /\ Carried + Weight(scopes) = Owned + Weight(rest)
  <2> DEFINE a == scopes[1].size
             b == scopes[2].size
             c == Weight(rest)
             w == Weight(scopes)
  <2>1. CASE Depth = 2
    <3>1. /\ a \in Nat /\ b \in Nat /\ c \in Nat /\ w = a + b + c
          /\ Owned = Top.size + (a + b) /\ Carried = Top.size /\ Top.size \in Nat
      BY <1>1, <1>2, <1>5, <2>1 DEF Owned
    <3> HIDE DEF a, b, c, w
    <3>2. Owned \in Nat /\ Carried + w = Owned + c
      BY <3>1
    <3>3. QED
      BY <3>2 DEF c, w
  <2>2. CASE Depth # 2
    <3>1. /\ a \in Nat /\ c \in Nat /\ w = a + 0 + c
          /\ Owned = Top.size + a /\ Carried = Top.size /\ Top.size \in Nat
      BY <1>1, <1>2, <1>5, <2>2 DEF Owned
    <3> HIDE DEF a, b, c, w
    <3>2. Owned \in Nat /\ Carried + w = Owned + c
      BY <3>1
    <3>3. QED
      BY <3>2 DEF c, w
  <2>3. QED
    BY <2>1, <2>2
<1>7. QED
  BY <1>1, <1>2, <1>5, <1>6 DEF rest

\* The statement leaves its domains, with what it owns.
LEMMA PartLeaves ==
  ASSUME IInv, NEW p \in {"block", "line"}, On(p),
         scopes' = Leaving(scopes, Depth), UNCHANGED <<funcs, curFunc, outcome>>,
         NEW s2, NEW w, stack' = s2, Over(s2, Tail(stack), w), s2 # <<>>, ~Chooses(s2),
         ResultOK(ret'), errs' \in BOOLEAN, live' \in Int,
         errs => errs', errs' => ~ret'.ok /\ Head(s2).pc \in Waits,
         live' + Owned = live + w + Flight(Head(s2), ret'),
         NEW n \in Nat, Take(n)
  PROVE  IInv'
<1> DEFINE rest == Leaving(scopes, Depth)
           d == Head(rest)
<1>1. /\ ScopesOK(rest, curFunc) /\ Suffixes(rest) \subseteq Suffixes(scopes)
      /\ Len(rest) = Len(scopes) - OpenedBy(Top)
      /\ ScopeOK(Head(rest)) /\ rest = <<Head(rest)>> \o Tail(rest)
      /\ Owned \in Nat /\ Weight(rest) \in Nat /\ Carried \in Nat
      /\ Carried + Weight(scopes) = Owned + Weight(rest)
  BY AtItsEnd
<1>2. /\ Kind(p) = "compound" /\ live \in Nat /\ ScopesOK(scopes, curFunc)
  BY AtCompound DEF CompoundPlaces
<1>3. FuncsOK(funcs')
  BY Reading
<1>4. Weight(scopes) \in Nat /\ w \in Nat /\ Flight(Head(s2), ret') \in Nat
  <2>1. Weight(scopes) = Head(scopes).size + Weight(Tail(scopes)) /\ Weight(Tail(scopes)) \in Nat
        /\ ScopeOK(Head(scopes))
    BY <1>2, ScopesSplit
  <2>2. Weight(scopes) \in Nat
    <3>1. Head(scopes).size \in Nat
      BY <2>1 DEF ScopeOK
    <3>2. QED
      BY <2>1, <3>1
  <2>3. QED
    BY <2>2, FlightNat DEF Over
<1> HIDE DEF rest
<1>5. /\ live' + Carried + Weight(scopes) + Head(rest).size
           = live + w + d.size + Weight(rest) + Flight(Head(s2), ret')
      /\ live' + Carried + Weight(scopes) + Head(rest).size
           >= live + w + d.size + Weight(rest) + Flight(Head(s2), ret')
  <2> DEFINE a == Carried
             b == Weight(scopes)
             c == d.size
             e == Weight(rest)
             f == Flight(Head(s2), ret')
             o == Owned
             x == live
             y == live'
  <2>1. /\ a \in Nat /\ b \in Nat /\ c \in Nat /\ e \in Nat /\ f \in Nat /\ o \in Nat
        /\ x \in Nat /\ y \in Int /\ w \in Nat /\ a + b = o + e /\ y + o = x + w + f
        /\ Head(rest).size = c
    BY <1>1, <1>2, <1>4 DEF ScopeOK
  <2> HIDE DEF a, b, c, e, f, o, x, y, d
  <2>2. y + a + b + c = x + w + c + e + f
    BY <2>1
  <2>3. y + a + b + c >= x + w + c + e + f
    BY <2>1, <2>2
  <2>4. QED
    BY <2>1, <2>2, <2>3 DEF a, b, c, e, f, x, y
<1>6. /\ ScopeOK(d) /\ d.kind = Head(rest).kind /\ d.cnt = Head(rest).cnt
      /\ scopes' = <<d>> \o Tail(rest)
      /\ curFunc' = IF p = "functionEnd" THEN None ELSE curFunc
      /\ Kind(p) \notin {"operand", "choice"} /\ UNCHANGED outcome
  BY <1>1, <1>2 DEF rest
<1> HIDE DEF d
<1>7. QED
  BY <1>1, <1>3, <1>5, <1>6, LeavesStep

LEMMA PartFailsStep ==
  ASSUME IInv, NEW p \in {"block", "line"}, On(p), NEW n \in Nat, NEW reporting \in BOOLEAN,
         PartFails(n, reporting), UNCHANGED <<funcs, curFunc>>
  PROVE  IInv'
<1> DEFINE t == Tail(stack)
<1>1. /\ StackOK(t) /\ t # <<>> /\ Head(t).pc = "keep" /\ live \in Nat /\ errs \in BOOLEAN
  BY AtCompound DEF CompoundPlaces
<1>2. Owned \in Nat
  BY AtItsEnd
<1>3. /\ stack' = t /\ Take(n) /\ ret' = Failed /\ live' = live - Owned /\ UNCHANGED outcome
      /\ errs' = (errs \/ reporting) /\ scopes' = Leaving(scopes, Depth)
  BY DEF PartFails, Quit, Give
<1> HIDE DEF t
<1>4. Over(t, t, 0) /\ ~Chooses(t) /\ Head(t).pc \in Waits
  BY <1>1, OverSelf DEF Chooses, Waits
<1>5. ResultOK(ret') /\ ~ret'.ok /\ Flight(Head(t), ret') = 0
  BY <1>3, Results
<1>6. errs' \in BOOLEAN /\ (errs => errs')
  BY <1>1, <1>3
<1>7. live' \in Int /\ live' + Owned = live + 0 + Flight(Head(t), ret')
  BY <1>1, <1>2, <1>3, <1>5
<1>8. UNCHANGED <<funcs, curFunc, outcome>>
  BY <1>3
<1>9. QED
  BY <1>1, <1>3, <1>4, <1>5, <1>6, <1>7, <1>8, PartLeaves DEF t

\* The then part is followed by the question for an else part.
LEMMA ThenDone ==
  ASSUME IInv, NEW p \in {"block", "line"}, On(p), ~errs, NEW n \in Nat, NEW cond, NEW rets,
         Go(<<[pc |-> "else", size |-> Owned, cond |-> cond, rets |-> rets]>>, n),
         scopes' = Leaving(scopes, Depth),
         UNCHANGED <<ret, funcs, curFunc, errs, live, outcome>>
  PROVE  IInv'
<1> DEFINE t == Tail(stack)
           g == [pc |-> "else", size |-> Owned, cond |-> cond, rets |-> rets]
           s2 == <<g>> \o t
<1>1. /\ StackOK(t) /\ t # <<>> /\ live \in Nat /\ errs \in BOOLEAN /\ Fits("compound", t)
      /\ ResultOK(ret)
  BY AtCompound DEF CompoundPlaces
<1>2. Owned \in Nat
  BY AtItsEnd
<1>3. stack' = s2 /\ Take(n)
  BY DEF Go
<1>4. g.pc = "else" /\ g.size = Owned /\ FrameOK(g) /\ OpenedBy(g) = 0
  BY <1>2 DEF FrameOK, OpenedBy, OwnsNothing
<1> HIDE DEF t, g
<1>5. Fits(Kind(g.pc), t) /\ g.pc \notin Carries
  BY <1>1, <1>4, KindIs DEF CompoundPlaces, Carries, ValueWaits
<1>6. Over(s2, t, Owned + 0) /\ s2 # <<>> /\ Head(s2) = g
  BY <1>1, <1>4, <1>5, OverSelf, OverCons
<1> HIDE DEF s2
<1>7. Over(s2, t, Owned) /\ ~Chooses(s2) /\ Flight(Head(s2), ret') = 0
  BY <1>2, <1>4, <1>5, <1>6 DEF Chooses, Flight
<1>8. /\ ResultOK(ret') /\ errs' \in BOOLEAN /\ (errs => errs') /\ ~errs' /\ live' \in Int
      /\ live' + Owned = live + Owned + Flight(Head(s2), ret')
  BY <1>1, <1>2, <1>7
<1>9. UNCHANGED <<funcs, curFunc, outcome>>
  OBVIOUS
<1>10. QED
  BY <1>3, <1>6, <1>7, <1>8, <1>9, PartLeaves DEF t

\* The others return the statement.
LEMMA LastDone ==
  ASSUME IInv, NEW p \in {"block", "line"}, On(p), ~errs, NEW n \in Nat, NEW good, NEW rets,
         Give(Statement(Owned, good, rets), n),
         scopes' = Leaving(scopes, Depth), UNCHANGED <<funcs, curFunc, errs, live, outcome>>
  PROVE  IInv'
<1> DEFINE t == Tail(stack)
           r == Statement(Owned, good, rets)
<1>1. /\ StackOK(t) /\ t # <<>> /\ live \in Nat /\ errs \in BOOLEAN /\ Head(t).pc = "keep"
  BY AtCompound DEF CompoundPlaces
<1>2. Owned \in Nat
  BY AtItsEnd
<1>3. stack' = t /\ Take(n) /\ ret' = r
  BY DEF Give
<1>4. r.ok /\ r.size = Owned /\ ResultOK(r)
  BY <1>2, StatementIs
<1> HIDE DEF t, r
<1>5. Over(t, t, 0) /\ ~Chooses(t) /\ Flight(Head(t), ret') = Owned
  BY <1>1, <1>3, <1>4, OverSelf DEF Chooses, Flight, Carries
<1>6. /\ ResultOK(ret') /\ errs' \in BOOLEAN /\ (errs => errs') /\ ~errs' /\ live' \in Int
      /\ live' + Owned = live + 0 + Flight(Head(t), ret')
  BY <1>1, <1>2, <1>3, <1>4, <1>5
<1>7. UNCHANGED <<funcs, curFunc, outcome>>
  OBVIOUS
<1>8. QED
  BY <1>1, <1>3, <1>5, <1>6, <1>7, PartLeaves DEF t

LEMMA PartDoneStep ==
  ASSUME IInv, NEW p \in {"block", "line"}, On(p), ret.ok, NEW n \in Nat, PartDone(n),
         UNCHANGED <<funcs, curFunc>>
  PROVE  IInv'
<1>1. Top.part \in {"then", "else", "loop"} /\ ~errs
  BY AtPart, Reading
<1>2. scopes' = Leaving(scopes, Depth) /\ UNCHANGED <<errs, live, outcome>>
  BY DEF PartDone
<1>3. \/ /\ Go(<<[pc |-> "else", size |-> Owned, cond |-> Top.cond, rets |-> Cur.rets]>>, n)
         /\ UNCHANGED ret
      \/ Give(Statement(Owned, Tests(Top.cond), Top.rets /\ Cur.rets), n)
      \/ Give(Statement(Owned, Top.cond = "bool", FALSE), n)
  BY <1>1 DEF PartDone
<1>4. CASE /\ Go(<<[pc |-> "else", size |-> Owned, cond |-> Top.cond, rets |-> Cur.rets]>>, n)
           /\ UNCHANGED ret
  BY <1>1, <1>2, <1>4, ThenDone
<1>5. CASE Give(Statement(Owned, Tests(Top.cond), Top.rets /\ Cur.rets), n)
  <2> DEFINE good == Tests(Top.cond)
             rets == Top.rets /\ Cur.rets
  <2>1. Give(Statement(Owned, good, rets), n)
    BY <1>5
  <2> HIDE DEF good, rets
  <2>2. QED
    BY <1>1, <1>2, <2>1, LastDone
<1>6. CASE Give(Statement(Owned, Top.cond = "bool", FALSE), n)
  <2> DEFINE good == Top.cond = "bool"
             rets == FALSE
  <2>1. Give(Statement(Owned, good, rets), n)
    BY <1>6
  <2> HIDE DEF good, rets
  <2>2. QED
    BY <1>1, <1>2, <2>1, LastDone
<1>7. QED
  BY <1>3, <1>4, <1>5, <1>6

LEMMA PartBlockStep == ASSUME IInv, PartBlock PROVE IInv'
<1>1. On("block") /\ UNCHANGED <<funcs, curFunc>>
  BY DEF PartBlock
<1>2. \/ PartFails(0, FALSE)
      \/ PartFails(1, TRUE)
      \/ ret.ok /\ PartDone(1)
  BY DEF PartBlock
<1>3. 0 \in Nat /\ 1 \in Nat
  OBVIOUS
<1>4. CASE PartFails(0, FALSE)
  BY <1>1, <1>3, <1>4, PartFailsStep
<1>5. CASE PartFails(1, TRUE)
  BY <1>1, <1>3, <1>5, PartFailsStep
<1>6. CASE ret.ok /\ PartDone(1)
  BY <1>1, <1>3, <1>6, PartDoneStep
<1>7. QED
  BY <1>2, <1>4, <1>5, <1>6

LEMMA PartLineStep == ASSUME IInv, PartLine PROVE IInv'
<1>1. On("line") /\ UNCHANGED <<funcs, curFunc>>
  BY DEF PartLine
<1>2. \/ PartFails(0, TRUE)
      \/ PartFails(1, TRUE)
      \/ ret.ok /\ PartDone(1)
  BY DEF PartLine
<1>3. 0 \in Nat /\ 1 \in Nat
  OBVIOUS
<1>4. CASE PartFails(0, TRUE)
  BY <1>1, <1>3, <1>4, PartFailsStep
<1>5. CASE PartFails(1, TRUE)
  BY <1>1, <1>3, <1>5, PartFailsStep
<1>6. CASE ret.ok /\ PartDone(1)
  BY <1>1, <1>3, <1>6, PartDoneStep
<1>7. QED
  BY <1>2, <1>4, <1>5, <1>6

\* In the head of a loop, whose domain is the innermost.
HeadPlaces == {"forStart", "forCond", "forStep"}

LEMMA AtHead ==
  ASSUME IInv, NEW p \in HeadPlaces, On(p)
  PROVE  /\ p \in CompoundPlaces /\ Kind(p) = "compound" /\ Top.pc = p /\ OpenedBy(Top) = 1
         /\ {"pc", "size"} \subseteq DOMAIN Top /\ FrameOK(Top) /\ Top.size \in Nat
         /\ live \in Nat /\ Cur.size \in Nat /\ Cur.cnt \in Nat /\ ScopeOK(Cur)
         /\ ScopesOK(scopes, curFunc)
         /\ StackOK(Tail(stack)) /\ IsSeq(Tail(stack)) /\ Fits("compound", Tail(stack))
         /\ ret.size \in Nat /\ ret.ok \in BOOLEAN /\ (~ret.ok => ret.size = 0)
         /\ Carried \in Nat /\ Carried = Top.size + (IF p = "forStart" THEN 0 ELSE ret.size)
<1>1. p \in CompoundPlaces
  BY DEF HeadPlaces, CompoundPlaces
<1>2. /\ Kind(p) = "compound" /\ Top.pc = p /\ FrameOK(Top) /\ Top.size \in Nat
      /\ live \in Nat /\ ScopeOK(Cur) /\ ScopesOK(scopes, curFunc)
      /\ StackOK(Tail(stack)) /\ IsSeq(Tail(stack)) /\ Fits("compound", Tail(stack))
      /\ ret.size \in Nat /\ ret.ok \in BOOLEAN
  BY <1>1, AtCompound
<1>3. ~ret.ok => ret.size = 0
  BY Reading
<1>4. OpenedBy(Top) = 1
  BY <1>2 DEF OpenedBy, HeadPlaces
<1>5. Carried \in Nat /\ Carried = Top.size + (IF p = "forStart" THEN 0 ELSE ret.size)
  <2>1. CASE p = "forStart"
    <3>1. Carried = Top.size
      BY <2>1, CarriedIs DEF Carries, ValueWaits
    <3>2. QED
      BY <1>2, <2>1, <3>1
  <2>2. CASE p # "forStart"
    <3>1. p \in Carries
      BY <2>2 DEF Carries, ValueWaits, HeadPlaces
    <3>2. Carried = Top.size + ret.size
      BY <3>1, CarriedIs
    <3>3. QED
      BY <1>2, <2>2, <3>2
  <2>3. QED
    BY <2>1, <2>2
<1>6. QED
  BY <1>1, <1>2, <1>3, <1>4, <1>5 DEF FrameOK, ScopeOK

LEMMA HeadFailsStep ==
  ASSUME IInv, NEW p \in HeadPlaces, On(p), NEW n \in Nat, HeadFails(n),
         UNCHANGED <<funcs, curFunc>>
  PROVE  IInv'
<1>1. /\ Kind(p) = "compound" /\ OpenedBy(Top) = 1 /\ Top.size \in Nat /\ live \in Nat
      /\ Cur.size \in Nat /\ ret.size \in Nat
      /\ Carried = Top.size + (IF p = "forStart" THEN 0 ELSE ret.size)
  BY AtHead
<1>2. /\ Give(Failed, n) /\ live' = live - (Top.size + Cur.size) /\ UNCHANGED outcome
      /\ errs' = TRUE /\ scopes' = Tail(scopes)
  BY DEF HeadFails, Quit
<1>3. live' \in Int /\ live' + Carried + Cur.size >= live
  <2> DEFINE a == Top.size
             b == Cur.size
             c == Carried
             x == live
             y == live'
             e == IF p = "forStart" THEN 0 ELSE ret.size
  <2>1. /\ a \in Nat /\ b \in Nat /\ e \in Nat /\ c = a + e /\ x \in Nat /\ y = x - (a + b)
    BY <1>1, <1>2
  <2> HIDE DEF a, b, c, e, x, y
  <2>2. y \in Int /\ y + c + b >= x
    BY <2>1
  <2>3. QED
    BY <2>2 DEF b, c, x, y
<1>4. /\ Kind(p) \notin {"operand", "choice"} /\ p # "functionEnd"
      /\ errs' \in BOOLEAN /\ (errs => errs') /\ UNCHANGED <<funcs, curFunc, outcome>>
      /\ ~errs' => live' + Carried + Cur.size = live
  BY <1>1, <1>2 DEF HeadPlaces
<1>5. QED
  BY <1>1, <1>2, <1>3, <1>4, DropStep

\* The head goes on, or the body begins.
LEMMA HeadStep ==
  ASSUME IInv, NEW p \in HeadPlaces, On(p), ~errs,
         NEW g, FrameOK(g), Kind(g.pc) = "compound", OpenedBy(g) = 1, g.pc # "forStart",
         g.size = Top.size,
         NEW d, ScopeOK(d), d.kind = Cur.kind, g.pc = "forCond" => d.cnt = 1,
         g.pc = "forStep" => d.cnt = 2, scopes' = <<d>> \o Tail(scopes),
         NEW s2, stack' = s2, Over(s2, <<g>> \o Tail(stack), 0), s2 # <<>>, ~Chooses(s2),
         Flight(Head(s2), ret) = 0, NEW n \in Nat, Take(n),
         UNCHANGED <<ret, funcs, curFunc, errs, outcome>>,
         live' \in Int, live' + Carried + Cur.size = live + Top.size + d.size
  PROVE  IInv'
<1>1. /\ Top.pc = p /\ live \in Nat /\ Top.size \in Nat
  BY AtHead
<1>2. /\ Safe(stack, ret, scopes, curFunc, errs, live) /\ ResultOK(ret) /\ FuncsOK(funcs)
      /\ verdict = "parsing"
  BY Reading
<1>3. /\ Head(stack).pc \in HeadPlaces /\ Head(stack).size + Flight(Head(stack), ret) = Carried
      /\ d.kind = Head(scopes).kind /\ Head(scopes).size = Cur.size
  BY <1>1 DEF Top, Carried, Cur
<1>4. live' + (Head(stack).size + Flight(Head(stack), ret)) + Head(scopes).size
        = live + 0 + g.size + d.size + Flight(Head(s2), ret)
  <2> DEFINE a == Carried
             b == Cur.size
             c == d.size
             e == Top.size
             x == live
             y == live'
  <2>1. /\ c \in Nat /\ e \in Nat /\ x \in Nat /\ y + a + b = x + e + c
    BY <1>1 DEF ScopeOK
  <2> HIDE DEF a, b, c, e, x, y
  <2>2. y + a + b = x + 0 + e + c + 0
    BY <2>1
  <2>3. QED
    BY <1>3, <2>2 DEF a, b, c, e, x, y
<1>5. Safe(s2, ret, <<d>> \o Tail(scopes), curFunc, errs, live')
  BY <1>2, <1>3, <1>4, HeadMoves DEF HeadPlaces
<1>6. /\ Safe(stack', ret', scopes', curFunc', errs', live') /\ FuncsOK(funcs')
      /\ curFunc' \in Idents \union {None} /\ UNCHANGED outcome
  BY <1>2, <1>5 DEF IInv, TypeOK
<1>7. QED
  BY <1>2, <1>6, Proceeds

LEMMA HeadItemIs ==
  ASSUME IInv, NEW p \in HeadPlaces, On(p), HeadItem, ~ret.ok \/ p # "forStart"
  PROVE  \E d : /\ scopes' = <<d>> \o Tail(scopes) /\ ScopeOK(d) /\ d.kind = Cur.kind
                /\ d.cnt = Cur.cnt + 1
                /\ live' \in Int /\ live' + Carried + Cur.size = live + Top.size + d.size
<1> DEFINE n == IF ret.ok THEN ret.size ELSE 1
           rets == FALSE
           d == With(Head(scopes), n, rets)
<1>1. /\ ScopesOK(scopes, curFunc) /\ Top.size \in Nat /\ live \in Nat /\ Cur.size \in Nat
      /\ ret.size \in Nat /\ ret.ok \in BOOLEAN /\ (~ret.ok => ret.size = 0)
      /\ Carried = Top.size + (IF p = "forStart" THEN 0 ELSE ret.size)
  BY AtHead
<1>2. n \in Nat /\ scopes' = Added(scopes, n, rets) /\ live' = IF ret.ok THEN live ELSE live + 1
  BY <1>1 DEF HeadItem
<1>3. Carried = Top.size + ret.size
  BY <1>1
<1> HIDE DEF rets
<1>4. live' \in Int /\ live' + Carried = live + Top.size + n
  <2>1. CASE ret.ok
    BY <1>1, <1>2, <1>3, <2>1
  <2>2. CASE ~ret.ok
    BY <1>1, <1>2, <1>3, <2>2
  <2>3. QED
    BY <2>1, <2>2
<1> HIDE DEF n
<1>5. /\ Added(scopes, n, rets) = <<d>> \o Tail(scopes) /\ ScopeOK(d) /\ d.kind = Cur.kind
      /\ d.size = Cur.size + n /\ d.cnt = Cur.cnt + 1
  BY <1>1, <1>2, AddedIs DEF Cur
<1> HIDE DEF d
<1>6. live' + Carried + Cur.size = live + Top.size + d.size
  <2> DEFINE a == Carried
             b == Cur.size
             c == d.size
             e == Top.size
             x == live
             y == live'
  <2>1. /\ a \in Nat /\ b \in Nat /\ e \in Nat /\ n \in Nat /\ x \in Nat /\ y \in Int
        /\ y + a = x + e + n /\ c = b + n
    <3>1. a \in Nat
      BY <1>1, <1>3
    <3>2. QED
      BY <1>1, <1>2, <1>4, <1>5, <3>1
  <2> HIDE DEF a, b, c, e, x, y
  <2>2. y + a + b = x + e + c
    BY <2>1
  <2>3. QED
    BY <2>2 DEF a, b, c, e, x, y
<1>7. QED
  BY <1>2, <1>4, <1>5, <1>6

\* What HeadsOK says of the innermost domain.
LEMMA HeadHolds ==
  ASSUME IInv, NEW p \in HeadPlaces, On(p)
  PROVE  /\ p = "forStart" /\ ~ret.ok /\ ~errs => Cur.cnt = 0
         /\ p = "forCond" => Cur.cnt = 1
         /\ p = "forStep" => Cur.cnt = 2
<1>1. /\ Safe(stack, ret, scopes, curFunc, errs, live) /\ Top.pc = p /\ StackOK(stack)
      /\ stack # <<>>
  BY Reading
<1>2. stack \in Suffixes(stack)
  BY <1>1, StackFront
<1>3. HeadsOK(stack, ret, scopes, errs) /\ Head(stack).pc = p
  BY <1>1 DEF Safe, Top
<1>4. QED
  BY <1>2, <1>3 DEF HeadsOK, Conds, Cur

LEMMA ForStartStep == ASSUME IInv, ForStart PROVE IInv'
<1> DEFINE g == [Top EXCEPT !.pc = "forCond"]
           one == ret.ok => Cur.cnt = 1
           t == Tail(stack)
           s2 == (Complex \o <<g>>) \o t
<1>1. On("forStart") /\ UNCHANGED <<funcs, curFunc>> /\ "forStart" \in HeadPlaces
  BY DEF ForStart, HeadPlaces
<1>2. /\ Top.pc = "forStart" /\ {"pc", "size"} \subseteq DOMAIN Top /\ FrameOK(Top)
      /\ Top.size \in Nat /\ live \in Nat /\ Cur.size \in Nat /\ Cur.cnt \in Nat /\ ScopeOK(Cur)
      /\ ScopesOK(scopes, curFunc) /\ ret.ok \in BOOLEAN
      /\ StackOK(t) /\ IsSeq(t) /\ Fits("compound", t) /\ Carried = Top.size
  BY <1>1, AtHead
<1> DEFINE Refuted == Claim(FALSE, 2258)
           Unmoved == UNCHANGED <<buf, stack, ret, scopes, errs, live>>
           Filled  == IF ret.ok THEN UNCHANGED <<scopes, live>> ELSE HeadItem
           Gone    == Go(Complex \o <<g>>, 1)
           Kept    == UNCHANGED <<ret, errs, outcome>>
<1>3. \/ HeadFails(0)
      \/ HeadFails(1)
      \/ Refuted /\ Unmoved
      \/ one /\ (ret.ok \/ ~errs) /\ Filled /\ Gone /\ Kept
  <2>1. \/ ~ret.ok /\ errs /\ HeadFails(0)
        \/ ~one /\ Refuted /\ Unmoved
        \/ one /\ (ret.ok \/ ~errs) /\ Tok(1) # ";" /\ HeadFails(1)
        \/ /\ one /\ (ret.ok \/ ~errs) /\ Tok(1) = ";"
           /\ Filled
           /\ Gone
           /\ Kept
    BY DEF ForStart
  <2> HIDE DEF Refuted, Unmoved, Filled, Gone, Kept, one
  <2>2. QED
    BY <2>1
<1>4. CASE HeadFails(0)
  <2>1. 0 \in Nat
    OBVIOUS
  <2>2. QED
    BY <1>1, <1>4, <2>1, HeadFailsStep
<1>5. CASE HeadFails(1)
  <2>1. 1 \in Nat
    OBVIOUS
  <2>2. QED
    BY <1>1, <1>5, <2>1, HeadFailsStep
<1>6. CASE Refuted /\ Unmoved
  <2>1. /\ verdict' = "aborted" /\ failed' \in {1213, 2258} /\ buf' = buf /\ live' \in Nat
        /\ scopes' = scopes /\ curFunc' = curFunc /\ errs' = errs
    BY <1>1, <1>2, <1>6 DEF Claim
  <2>2. QED
    BY <1>1, <2>1, Aborts
<1>7. CASE one /\ (ret.ok \/ ~errs) /\ Filled /\ Gone /\ Kept
  <2>1. ~errs
    BY <1>1, <1>7, Reading
  <2>2. /\ stack' = s2 /\ Take(1) /\ UNCHANGED <<ret, funcs, curFunc, errs, outcome>>
    BY <1>1, <1>7 DEF Go
  <2>3. g.pc = "forCond" /\ g.size = Top.size /\ FrameOK(g) /\ OpenedBy(g) = 1
    BY <1>2 DEF FrameOK, OpenedBy, OwnsNothing
  <2>4. PICK d : /\ scopes' = <<d>> \o Tail(scopes) /\ ScopeOK(d) /\ d.kind = Cur.kind
                 /\ d.cnt = 1
                 /\ live' \in Int /\ live' + Carried + Cur.size = live + Top.size + d.size
    <3>1. CASE ret.ok
      <4>1. scopes' = <<Cur>> \o Tail(scopes)
        BY <1>2, <1>7, <3>1, ScopesSplit DEF Cur
      <4>2. live' \in Int /\ live' + Carried + Cur.size = live + Top.size + Cur.size
        BY <1>2, <1>7, <3>1
      <4>3. Cur.cnt = 1
        BY <1>7, <3>1
      <4>4. QED
        BY <1>2, <4>1, <4>2, <4>3
    <3>2. CASE ~ret.ok
      <4>1. HeadItem /\ Cur.cnt = 0
        BY <1>1, <1>7, <2>1, <3>2, HeadHolds
      <4>2. \E d : /\ scopes' = <<d>> \o Tail(scopes) /\ ScopeOK(d) /\ d.kind = Cur.kind
                   /\ d.cnt = Cur.cnt + 1
                   /\ live' \in Int /\ live' + Carried + Cur.size = live + Top.size + d.size
        BY <1>1, <3>2, <4>1, HeadItemIs
      <4>3. Cur.cnt + 1 = 1
        BY <4>1
      <4>4. QED
        BY <4>2, <4>3
    <3>3. QED
      BY <3>1, <3>2
  <2> HIDE DEF g
  <2>5. Kind(g.pc) = "compound" /\ g.pc \in ValueWaits \ {"combine"}
    BY <2>3, KindIs DEF CompoundPlaces, ValueWaits
  <2>6. Over(<<g>> \o t, <<g>> \o t, 0)
    <3>1. StackOK(<<g>> \o t)
      BY <1>2, <2>3, <2>5, StackCons
    <3>2. QED
      BY <3>1, OverSelf
  <2>7. Over(s2, <<g>> \o t, 0) /\ s2 # <<>> /\ Head(s2) = Simple
    BY <1>2, <2>5, <2>6, ComplexOn
  <2>8. Simple.pc = "simple"
    BY DEF Simple, Frame
  <2> HIDE DEF s2
  <2>9. ~Chooses(s2) /\ Flight(Head(s2), ret) = 0
    BY <2>7, <2>8 DEF Chooses, Flight, Carries, ValueWaits
  <2>10. g.pc # "forStart" /\ g.pc # "forStep" /\ 1 \in Nat
    BY <2>3
  <2>11. QED
    BY <1>1, <2>1, <2>2, <2>3, <2>4, <2>5, <2>7, <2>9, <2>10, HeadStep
<1> HIDE DEF one, Refuted, Unmoved, Filled, Gone, Kept
<1>8. QED
  BY <1>3, <1>4, <1>5, <1>6, <1>7

LEMMA ForCondStep == ASSUME IInv, ForCond PROVE IInv'
<1> DEFINE g == [pc |-> "forStep", size |-> Top.size, cond |-> ret.type]
           t == Tail(stack)
           s2 == (Complex \o <<g>>) \o t
<1>1. On("forCond") /\ UNCHANGED <<funcs, curFunc>> /\ "forCond" \in HeadPlaces
  BY DEF ForCond, HeadPlaces
<1>2. /\ Top.size \in Nat /\ StackOK(t) /\ IsSeq(t) /\ Fits("compound", t)
  BY <1>1, AtHead
<1>3. \/ HeadFails(0)
      \/ HeadFails(1)
      \/ /\ ret.ok /\ HeadItem /\ Claim(Cur.cnt + 1 = 2, 2284) /\ Go(Complex \o <<g>>, 1)
         /\ UNCHANGED <<ret, errs>>
  BY DEF ForCond
<1>4. CASE HeadFails(0)
  <2>1. 0 \in Nat
    OBVIOUS
  <2>2. QED
    BY <1>1, <1>4, <2>1, HeadFailsStep
<1>5. CASE HeadFails(1)
  <2>1. 1 \in Nat
    OBVIOUS
  <2>2. QED
    BY <1>1, <1>5, <2>1, HeadFailsStep
<1>6. CASE /\ ret.ok /\ HeadItem /\ Claim(Cur.cnt + 1 = 2, 2284) /\ Go(Complex \o <<g>>, 1)
           /\ UNCHANGED <<ret, errs>>
  <2>1. ~errs
    BY <1>1, <1>6, Reading
  <2>2. Cur.cnt = 1 /\ Cur.cnt + 1 = 2
    BY <1>1, HeadHolds
  <2>3. /\ stack' = s2 /\ Take(1) /\ UNCHANGED <<ret, funcs, curFunc, errs, outcome>>
    BY <1>1, <1>6, <2>2 DEF Go, Claim, outcome
  <2>4. g.pc = "forStep" /\ g.size = Top.size /\ FrameOK(g) /\ OpenedBy(g) = 1
    BY <1>2 DEF FrameOK, OpenedBy, OwnsNothing
  <2>5. PICK d : /\ scopes' = <<d>> \o Tail(scopes) /\ ScopeOK(d) /\ d.kind = Cur.kind
                 /\ d.cnt = 2
                 /\ live' \in Int /\ live' + Carried + Cur.size = live + Top.size + d.size
    <3>1. \E d : /\ scopes' = <<d>> \o Tail(scopes) /\ ScopeOK(d) /\ d.kind = Cur.kind
                 /\ d.cnt = Cur.cnt + 1
                 /\ live' \in Int /\ live' + Carried + Cur.size = live + Top.size + d.size
      <4>1. HeadItem /\ "forCond" # "forStart"
        BY <1>6
      <4>2. QED
        BY <1>1, <4>1, HeadItemIs
    <3>2. QED
      BY <2>2, <3>1
  <2> HIDE DEF g
  <2>6. Kind(g.pc) = "compound" /\ g.pc \in ValueWaits \ {"combine"}
    BY <2>4, KindIs DEF CompoundPlaces, ValueWaits
  <2>7. Over(<<g>> \o t, <<g>> \o t, 0)
    <3>1. StackOK(<<g>> \o t)
      BY <1>2, <2>4, <2>6, StackCons
    <3>2. QED
      BY <3>1, OverSelf
  <2>8. Over(s2, <<g>> \o t, 0) /\ s2 # <<>> /\ Head(s2) = Simple
    BY <1>2, <2>6, <2>7, ComplexOn
  <2>9. Simple.pc = "simple"
    BY DEF Simple, Frame
  <2> HIDE DEF s2
  <2>10. ~Chooses(s2) /\ Flight(Head(s2), ret) = 0
    BY <2>8, <2>9 DEF Chooses, Flight, Carries, ValueWaits
  <2>11. g.pc # "forStart" /\ g.pc # "forCond" /\ 1 \in Nat
    BY <2>4
  <2>12. QED
    BY <1>1, <2>1, <2>3, <2>4, <2>5, <2>6, <2>8, <2>10, <2>11, HeadStep
<1>7. QED
  BY <1>3, <1>4, <1>5, <1>6

LEMMA ForStepStep == ASSUME IInv, ForStep PROVE IInv'
<1> DEFINE g == Part("loop", Top.size, Top.cond, FALSE)
           t == Tail(stack)
           s2 == <<g>> \o t
<1>1. On("forStep") /\ UNCHANGED <<funcs, curFunc>> /\ "forStep" \in HeadPlaces
  BY DEF ForStep, HeadPlaces
<1>2. /\ Top.size \in Nat /\ StackOK(t) /\ IsSeq(t) /\ Fits("compound", t)
  BY <1>1, AtHead
<1>3. \/ HeadFails(0)
      \/ HeadFails(1)
      \/ /\ (ret.ok \/ ~errs) /\ HeadItem /\ Claim(Cur.cnt + 1 = 3, 2310) /\ Go(<<g>>, 1)
         /\ UNCHANGED <<ret, errs>>
  BY DEF ForStep
<1>4. CASE HeadFails(0)
  <2>1. 0 \in Nat
    OBVIOUS
  <2>2. QED
    BY <1>1, <1>4, <2>1, HeadFailsStep
<1>5. CASE HeadFails(1)
  <2>1. 1 \in Nat
    OBVIOUS
  <2>2. QED
    BY <1>1, <1>5, <2>1, HeadFailsStep
<1>6. CASE /\ (ret.ok \/ ~errs) /\ HeadItem /\ Claim(Cur.cnt + 1 = 3, 2310) /\ Go(<<g>>, 1)
           /\ UNCHANGED <<ret, errs>>
  <2>1. ~errs
    BY <1>1, <1>6, Reading
  <2>2. Cur.cnt = 2 /\ Cur.cnt + 1 = 3
    BY <1>1, HeadHolds
  <2>3. /\ stack' = s2 /\ Take(1) /\ UNCHANGED <<ret, funcs, curFunc, errs, outcome>>
    BY <1>1, <1>6, <2>2 DEF Go, Claim, outcome
  <2>4. /\ DOMAIN g = {"pc", "size", "part", "cond", "rets"} /\ g.pc = "part"
        /\ g.part = "loop" /\ g.size = Top.size
    BY DEF Part
  <2>5. \E d : /\ scopes' = <<d>> \o Tail(scopes) /\ ScopeOK(d) /\ d.kind = Cur.kind
               /\ d.cnt = Cur.cnt + 1
               /\ live' \in Int /\ live' + Carried + Cur.size = live + Top.size + d.size
    <3>1. HeadItem /\ "forStep" # "forStart"
      BY <1>6
    <3>2. QED
      BY <1>1, <3>1, HeadItemIs
  <2> HIDE DEF g
  <2>6. FrameOK(g) /\ OpenedBy(g) = 1 /\ Kind(g.pc) = "compound" /\ g.pc \notin Carries
    BY <1>2, <2>4, PartIs
  <2>7. StackOK(s2) /\ s2 # <<>> /\ Head(s2) = g
    BY <1>2, <2>6, StackCons
  <2> HIDE DEF s2
  <2>8. Over(s2, s2, 0) /\ ~Chooses(s2) /\ Flight(Head(s2), ret) = 0
    BY <2>4, <2>6, <2>7, OverSelf DEF Chooses, Flight
  <2>9. Over(s2, <<g>> \o t, 0)
    BY <2>8 DEF s2
  <2>10. g.pc # "forStart" /\ g.pc # "forCond" /\ g.pc # "forStep" /\ 1 \in Nat
    BY <2>4
  <2>11. QED
    BY <1>1, <2>1, <2>3, <2>4, <2>5, <2>6, <2>7, <2>8, <2>9, <2>10, HeadStep
<1>7. QED
  BY <1>3, <1>4, <1>5, <1>6

LEMMA CompoundsStep == ASSUME IInv, Compounds PROVE IInv'
BY IfCondStep, PartOpenStep, PartBlockStep, PartLineStep, IfElseStep, ForOpenStep,
   ForStartStep, ForCondStep, ForStepStep DEF Compounds

-----------------------------------------------------------------------------
(* Every behaviour of the parser has the invariant.                         *)

LEMMA StatementsStep == ASSUME IInv, Statements PROVE IInv'
BY RootLoopStep, FinishStep, SingleEmptyStep, SingleNoneStep, SingleForStep, SingleIfStep,
   KeepStep, SingleFunctionStep, SingleVarsStep, SingleStructStep, SingleExternStep,
   ExternEndStep, SingleReturnStep, SingleValueStep, ReturnVoidStep, ReturnValueStep,
   ValueNoneStep, ValueUnendedStep, ValueEndedStep, DomainEnterStep, DomainBracesStep,
   DomainPlainStep, DomainCloseStep, DomainRepeatStep DEF Statements

LEMMA DefinitionsStep == ASSUME IInv, Definitions PROVE IInv'
BY ArgTypeStep, ArgRefStep, ArgNameStep, ArgEndStep, ArgArrayStep, ArgCommaStep,
   DeclareNewStep, DeclareAgainStep, FunctionBodyStep, PrototypeStep, FunctionEndStep,
   VarNameStep, VarRestStep, VarSizeStep, VarValueStep, VarNextStep, StructEndStep,
   StructDoneStep DEF Definitions

\* Nobody looks further ahead than three tokens.
LEMMA LooksAhead == ASSUME NEW f PROVE Looks(f) \in 0..3
<1>1. SingleLooks \in 0..3
  BY DEF SingleLooks
<1> HIDE DEF SingleLooks
<1>2. CASE f.pc = "single"
  BY <1>1, <1>2 DEF Looks
<1>3. CASE f.pc # "single"
  BY <1>3 DEF Looks
<1>4. QED
  BY <1>2, <1>3

LEMMA ScanStep == ASSUME IInv, Scan PROVE IInv'
<1>1. /\ Len(buf) < Looks(Top)
      /\ buf' = buf \/ \E x : buf' = Append(buf, x)
      /\ UNCHANGED <<stack, ret, scopes, funcs, curFunc, errs, live, verdict, failed>>
  BY DEF Scan, tables, outcome
<1>2. IsSeq(buf) /\ Len(buf) <= 3 /\ Len(buf) \in Nat
  BY SeqParts DEF IInv, TypeOK
<1>3. IsSeq(buf') /\ Len(buf') <= 3
  <2>1. CASE buf' = buf
    BY <1>2, <2>1
  <2>2. CASE \E x : buf' = Append(buf, x)
    <3>1. IsSeq(buf') /\ Len(buf') = Len(buf) + 1
      BY <1>2, <2>2, AppendOK
    <3> DEFINE n == Looks(Top)
    <3>2. n \in 0..3 /\ Len(buf) < n
      BY <1>1, LooksAhead
    <3> HIDE DEF n
    <3>3. QED
      BY <1>2, <3>1, <3>2
  <2>3. QED
    BY <1>1, <2>1, <2>2
<1>4. /\ stack' = stack /\ ret' = ret /\ scopes' = scopes /\ funcs' = funcs
      /\ curFunc' = curFunc /\ errs' = errs /\ live' = live /\ verdict' = verdict
      /\ failed' = failed
  BY <1>1
<1>5. QED
  BY <1>3, <1>4 DEF IInv, TypeOK, AcceptedLeaksNothing, AssertionsHold

LEMMA NextStep == ASSUME IInv, [Next]_vars PROVE IInv'
<1>1. CASE Next
  BY <1>1, ScanStep, StatementsStep, DefinitionsStep, ExpressionsStep, CompoundsStep DEF Next
<1>2. CASE UNCHANGED vars
  <2>1. /\ buf' = buf /\ stack' = stack /\ ret' = ret /\ scopes' = scopes /\ funcs' = funcs
        /\ curFunc' = curFunc /\ errs' = errs /\ live' = live /\ verdict' = verdict
        /\ failed' = failed
    BY <1>2 DEF vars
  <2>2. QED
    BY <2>1 DEF IInv, TypeOK, AcceptedLeaksNothing, AssertionsHold
<1>3. QED
  BY <1>1, <1>2

\* The parse begins at the root, before its first statement.
LEMMA Begins ==
  ASSUME NEW s, s = <<Single, Frame("root")>>
  PROVE  Safe(s, Passed, <<NewScope("root")>>, None, FALSE, 1)
<1> DEFINE g == Frame("root")
           e == <<>>
           t == <<g>> \o e
           d == NewScope("root")
           ss == <<d>> \o e
           no == FALSE
<1>1. g.pc = "root" /\ g.size = 0 /\ FrameOK(g) /\ OpenedBy(g) = 0
  BY DEF Frame, FrameOK, OpenedBy, OwnsNothing
<1>2. Single.pc = "single" /\ Single.size = 0 /\ FrameOK(Single) /\ OpenedBy(Single) = 0
  BY FramesAre DEF Single, OwnsNothing, Opening
<1>3. s = <<Single>> \o t /\ ss = <<NewScope("root")>>
  OBVIOUS
<1>4. ScopeOK(d) /\ d.kind = "root" /\ d.size = 1 /\ d.cnt = 0
  BY NewScopeIs
<1> HIDE DEF g, d
<1>5. /\ IsSeq(e) /\ StackOK(e) /\ ~Runs(e) /\ Weight(e) = 0 /\ Domains(e) = 0
      /\ Suffixes(e) = {} /\ Len(e) = 0
  BY EmptyIsSeq, EmptyStack, WeightEmpty, DomainsEmpty, SuffixesEmpty
<1> HIDE DEF e
<1>5a. Fits(Kind(g.pc), e)
  BY <1>1, KindIs DEF Fits, e
<1>6. StackOK(t) /\ IsSeq(t) /\ t # <<>> /\ Head(t) = g /\ Tail(t) = e
  BY <1>1, <1>5, <1>5a, StackCons
<1>7. /\ Weight(t) = 0 /\ Domains(t) = 0 /\ ~Runs(t) /\ Suffixes(t) = {t} /\ NoValueWaits(t)
  <2>1. Weight(t) = g.size + 0
    BY <1>1, <1>5, StackWeight
  <2>2. Domains(t) = 0 + 0
    BY <1>1, <1>5, DomainsCons
  <2>3. ~Runs(t)
    BY <1>1, <1>5, RunsCons
  <2>4. Suffixes(t) = {t}
    <3>1. Suffixes(t) = {t} \union Suffixes(e)
      BY <1>5, SuffixesCons
    <3>2. QED
      BY <1>5, <3>1
  <2>5. NoValueWaits(t)
    BY <1>1, <1>6, <2>4 DEF NoValueWaits, ValueWaits
  <2>6. QED
    BY <1>1, <2>1, <2>2, <2>3, <2>4, <2>5
<1>8. OnStatement(t)
  BY <1>1, <1>6, <1>7 DEF OnStatement, StatementWaits
<1> HIDE DEF t
<1>9. Over(s, t, 0) /\ s # <<>> /\ Head(s) = Single
  BY <1>3, <1>6, <1>8, OverSelf, SingleOn
<1>10. ScopesOK(ss, None) /\ Len(ss) = 1 /\ Weight(ss) = 1 /\ Suffixes(ss) = {ss} /\ Head(ss) = d
  <2>1. d.kind = "root" /\ (d.kind = "function" => None # None)
    BY <1>4
  <2>2. /\ ScopesOK(ss, None) /\ Len(ss) = Len(e) + 1 /\ Head(ss) = d
        /\ Weight(ss) = d.size + Weight(e) /\ Suffixes(ss) = {ss} \union Suffixes(e)
    <3>1. e = <<>> /\ (d.kind = "root" <=> e = <<>>)
      BY <1>4 DEF e
    <3>2. IsSeq(e) /\ ScopeOK(d)
      BY <1>4, <1>5
    <3>3. QED
      BY <2>1, <3>1, <3>2, ScopesCons, Zenon
  <2>3. Len(e) + 1 = 1 /\ Weight(ss) = 1
    BY <1>4, <1>5, <2>2
  <2>4. QED
    BY <1>5, <2>2, <2>3
<1> HIDE DEF ss
<1>11. Heads(t, ss) /\ Conds(t, ss)
  BY <1>1, <1>6, <1>7 DEF Heads, Conds
<1>12. StackOK(s) /\ Weight(s) = 0 /\ Domains(s) = 0 /\ ~Runs(s)
  BY <1>7, <1>9 DEF Over
<1>13. no = FALSE /\ no \in BOOLEAN /\ ~no
  OBVIOUS
<1> HIDE DEF no
<1>14. HeadsOK(s, Passed, ss, no)
  <2>1. Len(ss) = 1 + Domains(t) /\ ss \in Suffixes(ss)
    BY <1>7, <1>10
  <2>2. QED
    BY <1>9, <1>11, <2>1, HeadsOver
<1>15. ~Chooses(s) /\ Flight(Head(s), Passed) = 0
  BY <1>2, <1>9 DEF Chooses, Flight, Carries, ValueWaits
<1>16. Balanced(s, Passed, ss, no, 1)
  BY <1>10, <1>12, <1>15 DEF Balanced
<1>17. Len(ss) = 1 + Domains(s) /\ 1 \in Nat
  BY <1>10, <1>12
<1>18. Safe(s, Passed, ss, None, no, 1)
  BY <1>9, <1>10, <1>12, <1>13, <1>14, <1>15, <1>16, <1>17, Results DEF Safe
<1>19. QED
  BY <1>3, <1>18 DEF no

LEMMA InitInv == Init => IInv
<1> SUFFICES ASSUME Init PROVE IInv
  OBVIOUS
<1>1. /\ buf = <<>> /\ stack = <<Single, Frame("root")>> /\ ret = Passed
      /\ scopes = <<NewScope("root")>> /\ funcs = [n \in Idents |-> NoFunc]
      /\ curFunc = None /\ errs = FALSE /\ live = 1 /\ verdict = "parsing" /\ failed = 0
  BY DEF Init
<1>2. Safe(stack, ret, scopes, curFunc, errs, live)
  <2>1. Safe(<<Single, Frame("root")>>, Passed, <<NewScope("root")>>, None, FALSE, 1)
    BY Begins
  <2>2. QED
    BY <1>1, <2>1
<1>3. FuncsOK(funcs)
  <2>1. NoFunc.args = <<>> /\ DOMAIN NoFunc = {"known", "ret", "args", "names", "begun", "body"}
    BY DEF NoFunc
  <2> HIDE DEF NoFunc
  <2>2. QED
    BY <1>1, <2>1, EmptyIsSeq DEF FuncsOK
<1>4. Len(buf) <= 3 /\ IsSeq(buf) /\ scopes # <<>>
  BY <1>1, EmptyIsSeq
<1>5. TypeOK /\ AcceptedLeaksNothing /\ AssertionsHold
  BY <1>1, <1>4 DEF TypeOK, AcceptedLeaksNothing, AssertionsHold
<1>6. QED
  BY <1>1, <1>2, <1>3, <1>4, <1>5 DEF IInv

LEMMA Invariance == Spec => []IInv
BY InitInv, NextStep, PTL DEF Spec

-----------------------------------------------------------------------------
(* After an error.                                                          *)

Counts(ss) == Sum([k \in DOMAIN ss |-> ss[k].cnt])

LEMMA CountsNat ==
  ASSUME NEW s, IsSeq(s), \A u \in Suffixes(s) : Head(u).cnt \in Nat
  PROVE  /\ [k \in DOMAIN s |-> s[k].cnt] \in Seq(Nat)
         /\ Len([k \in DOMAIN s |-> s[k].cnt]) = Len(s)
         /\ Counts(s) \in Nat
<1>1. \A k \in DOMAIN s : s[k].cnt \in Nat
  BY SuffixParts, Zenon
<1>2. DOMAIN s = 1..Len(s) /\ Len(s) \in Nat
  BY SeqParts
<1> DEFINE m == [k \in 1..Len(s) |-> s[k].cnt]
<1>3. m \in Seq(Nat) /\ Len(m) = Len(s)
  BY <1>1, <1>2
<1> HIDE DEF m
<1>4. Sum(m) \in Nat
  BY <1>3, SumType
<1>5. QED
  BY <1>2, <1>3, <1>4 DEF m, Counts

LEMMA CountsCons ==
  ASSUME NEW f, NEW t, IsSeq(t), f.cnt \in Nat, \A u \in Suffixes(t) : Head(u).cnt \in Nat
  PROVE  Counts(<<f>> \o t) = f.cnt + Counts(t) /\ Counts(t) \in Nat
<1> DEFINE s == <<f>> \o t
           m == [k \in DOMAIN s |-> s[k].cnt]
           n == [k \in DOMAIN t |-> t[k].cnt]
<1>1. IsSeq(s) /\ s[1] = f /\ Len(s) = Len(t) + 1 /\ \A k \in 1..Len(t) : s[k + 1] = t[k]
  BY ConsParts
<1>2. \A u \in Suffixes(s) : Head(u).cnt \in Nat
  <2>1. Suffixes(s) = {s} \union Suffixes(t) /\ Head(s) = f
    BY SuffixesCons, ConsParts
  <2> HIDE DEF s
  <2>2. QED
    BY <2>1
<1> HIDE DEF s
<1>3. m \in Seq(Nat) /\ Len(m) = Len(s) /\ n \in Seq(Nat) /\ Len(n) = Len(t) /\ Counts(t) \in Nat
  BY <1>1, <1>2, CountsNat
<1>4. /\ DOMAIN s = 1..Len(s) /\ DOMAIN t = 1..Len(t) /\ Len(t) \in Nat /\ Len(s) \in Nat
  BY <1>1, SeqParts
<1>5. m[1] = f.cnt /\ \A k \in 1..Len(t) : m[k + 1] = n[k]
  BY <1>1, <1>4
<1> HIDE DEF m, n
<1>6. Sum(m) = m[1] + Sum(n)
  BY <1>1, <1>3, <1>5, SumShift
<1>7. QED
  BY <1>3, <1>5, <1>6 DEF m, n, s, Counts

\* The items of the innermost domain, and the items of the others.
LEMMA CountsSplit ==
  ASSUME NEW ss, NEW cf, ScopesOK(ss, cf)
  PROVE  /\ Counts(ss) = Head(ss).cnt + Counts(Tail(ss))
         /\ Head(ss).cnt \in Nat /\ Counts(Tail(ss)) \in Nat
         /\ \A d : d.cnt \in Nat => Counts(<<d>> \o Tail(ss)) = d.cnt + Counts(Tail(ss))
<1> DEFINE t == Tail(ss)
<1>1. /\ ss = <<Head(ss)>> \o t /\ IsSeq(t) /\ Suffixes(ss) = {ss} \union Suffixes(t)
  BY ScopesSplit
<1>2. Head(ss).cnt \in Nat /\ \A u \in Suffixes(t) : Head(u).cnt \in Nat
  BY <1>1 DEF ScopesOK, ScopeOK
<1> HIDE DEF t
<1>3. \A d : d.cnt \in Nat => Counts(<<d>> \o t) = d.cnt + Counts(t) /\ Counts(t) \in Nat
  BY <1>1, <1>2, CountsCons
<1>4. Counts(<<Head(ss)>> \o t) = Head(ss).cnt + Counts(t) /\ Counts(t) \in Nat
  BY <1>2, <1>3
<1>5. QED
  BY <1>1, <1>2, <1>3, <1>4 DEF t

\* A domain that goes takes its items along, and its parent gets none.
LEMMA FewerItems ==
  ASSUME NEW ss, NEW cf, ScopesOK(ss, cf), Len(ss) > 1
  PROVE  /\ Counts(ss) \in Nat /\ Counts(Tail(ss)) \in Nat
         /\ Counts(Tail(ss)) <= Counts(ss) /\ Counts(Closed(ss)) <= Counts(ss)
<1> DEFINE h == Head(Tail(ss))
           d == Grown(h, ss[1].size, ss[1].rets)
<1>1. /\ Counts(ss) = Head(ss).cnt + Counts(Tail(ss))
      /\ Head(ss).cnt \in Nat /\ Counts(Tail(ss)) \in Nat
  BY CountsSplit
<1>2. ScopesOK(Tail(ss), cf)
  BY OneLess
<1>3. Closed(ss) = <<d>> \o Tail(Tail(ss)) /\ d.cnt = h.cnt
  BY ClosedIs
<1> HIDE DEF d
<1>4. /\ Counts(Tail(ss)) = h.cnt + Counts(Tail(Tail(ss))) /\ h.cnt \in Nat
      /\ \A x : x.cnt \in Nat => Counts(<<x>> \o Tail(Tail(ss))) = x.cnt + Counts(Tail(Tail(ss)))
  BY <1>2, CountsSplit
<1>5. Counts(Closed(ss)) = Counts(Tail(ss))
  BY <1>3, <1>4
<1>6. QED
  BY <1>1, <1>5

\* Nothing is added and no function gets its body.
Final == Items' <= Items /\ \A n \in Idents : funcs'[n].body => funcs[n].body

LEMMA Remains ==
  ASSUME IInv, verdict = "parsing", UNCHANGED <<scopes, funcs>>
  PROVE  Final
<1>1. ScopesOK(scopes, curFunc)
  BY DEF IInv, Safe
<1>2. Counts(scopes) \in Nat
  <2>1. /\ Counts(scopes) = Head(scopes).cnt + Counts(Tail(scopes))
        /\ Head(scopes).cnt \in Nat /\ Counts(Tail(scopes)) \in Nat
    BY <1>1, CountsSplit
  <2>2. QED
    BY <2>1
<1>3. Items = Counts(scopes) /\ Items' = Counts(scopes')
  BY DEF Items, Counts
<1>4. scopes' = scopes /\ funcs' = funcs
  OBVIOUS
<1>5. Items' <= Items
  <2>1. Items' = Items /\ Items \in Nat
    BY <1>2, <1>3, <1>4
  <2> HIDE DEF Items
  <2>2. QED
    BY <2>1
<1>6. QED
  BY <1>4, <1>5 DEF Final

\* The domains that the innermost call opened go.
LEMMA Drops ==
  ASSUME IInv, NEW p, On(p),
         \/ OpenedBy(Top) = 1 /\ scopes' \in {Tail(scopes), Closed(scopes)}
         \/ p \in {"block", "line"} /\ scopes' = Leaving(scopes, Depth)
  PROVE  Items' <= Items
<1>1. ScopesOK(scopes, curFunc)
  BY Reading
<1>2. Items = Counts(scopes) /\ Items' = Counts(scopes')
  BY DEF Items, Counts
<1> HIDE DEF Items
<1>3. CASE OpenedBy(Top) = 1 /\ scopes' \in {Tail(scopes), Closed(scopes)}
  <2>1. Len(scopes) > 1
    BY <1>3, DomainsAreThere
  <2>2. Counts(Tail(scopes)) <= Counts(scopes) /\ Counts(Closed(scopes)) <= Counts(scopes)
    BY <1>1, <2>1, FewerItems
  <2>3. QED
    BY <1>2, <1>3, <2>2
<1>4. CASE p \in {"block", "line"} /\ scopes' = Leaving(scopes, Depth)
  <2>1. /\ OpenedBy(Top) = 1 + (IF Top.part = "loop" THEN 1 ELSE 0)
    BY <1>4, AtPart
  <2>2. Depth \in {1, 2} /\ Depth \in Nat /\ OpenedBy(Top) = Depth
    BY <2>1 DEF Depth
  <2>3. Len(scopes) > Depth /\ Len(scopes) \in Nat
    BY <2>2, DomainsAreThere
  <2>4. Len(scopes) > 1
    BY <2>2, <2>3
  <2>5. /\ Counts(scopes) \in Nat /\ Counts(Tail(scopes)) \in Nat
        /\ Counts(Tail(scopes)) <= Counts(scopes)
    BY <1>1, <2>4, FewerItems
  <2>6. Leaving(scopes, 1) = Tail(scopes)
    BY <1>1, <2>4 DEF ScopesOK, Leaving, IsSeq
  <2>7. CASE Depth = 1
    BY <1>2, <1>4, <2>5, <2>6, <2>7
  <2>8. CASE Depth = 2
    <3>1. Leaving(scopes, 2) = Tail(Tail(scopes))
      BY <1>1, <2>3, <2>8, LeavingTwo
    <3>2. ScopesOK(Tail(scopes), curFunc) /\ Len(Tail(scopes)) = Len(scopes) - 1
      BY <1>1, <2>4, OneLess
    <3>3. Len(Tail(scopes)) > 1
      BY <2>3, <2>8, <3>2
    <3>4. Counts(Tail(Tail(scopes))) <= Counts(Tail(scopes)) /\ Counts(Tail(Tail(scopes))) \in Nat
      BY <3>2, <3>3, FewerItems
    <3>5. Counts(Tail(Tail(scopes))) <= Counts(scopes)
      BY <2>5, <3>4
    <3>6. QED
      BY <1>2, <1>4, <2>8, <3>1, <3>5
  <2>9. QED
    BY <2>2, <2>7, <2>8
<1>5. QED
  BY <1>3, <1>4

LEMMA ExpressionsKeep == ASSUME Expressions PROVE UNCHANGED <<scopes, funcs>> /\ verdict = "parsing"
<1>1. \A f, n : Calls(f, n) => UNCHANGED tables
  BY DEF Calls
<1>2. \A f, r, n : Makes(f, r, n) => UNCHANGED tables
  BY DEF Makes
<1>3. \A r, n : Returns(r, n) => UNCHANGED tables
  BY DEF Returns
<1>4. \A r, n : Yields(r, n) => UNCHANGED tables
  BY DEF Yields
<1>5. \A k, n : Fails(k, n) => UNCHANGED tables
  BY DEF Fails
<1>6. \A k, n : Shirks(k, n) => UNCHANGED tables
  BY DEF Shirks
<1>7. UNCHANGED tables => UNCHANGED <<scopes, funcs>>
  BY DEF tables
<1>8. \A p : On(p) => verdict = "parsing"
  BY DEF On
<1>9. CASE Operator
  BY <1>9, <1>1, <1>3, <1>7, <1>8 DEF Operator
<1>10. CASE RightMissing
  BY <1>10, <1>7, <1>8 DEF RightMissing
<1>11. CASE Right
  BY <1>11, <1>1, <1>2, <1>4, <1>7, <1>8 DEF Right
<1>12. CASE Combine
  BY <1>12, <1>7, <1>8 DEF Combine
<1>13. CASE SelectYes
  BY <1>13, <1>1, <1>5, <1>7, <1>8 DEF SelectYes
<1>14. CASE SelectNo
  BY <1>14, <1>4, <1>5, <1>7, <1>8 DEF SelectNo
<1>15. CASE SimpleNone
  BY <1>15, <1>3, <1>7, <1>8 DEF SimpleNone
<1>16. CASE SimpleLeaf
  BY <1>16, <1>2, <1>7, <1>8 DEF SimpleLeaf
<1>17. CASE SimpleOpen
  BY <1>17, <1>1, <1>7, <1>8 DEF SimpleOpen
<1>18. CASE SimpleUnknown
  BY <1>18, <1>5, <1>7, <1>8 DEF SimpleUnknown
<1>19. CASE SimpleNot
  BY <1>19, <1>2, <1>5, <1>7, <1>8 DEF SimpleNot
<1>20. CASE SimpleParen
  BY <1>20, <1>1, <1>5, <1>7, <1>8 DEF SimpleParen
<1>21. CASE SimpleInit
  BY <1>21, <1>1, <1>5, <1>7, <1>8 DEF SimpleInit
<1>22. CASE SimpleInitArg
  BY <1>22, <1>2, <1>5, <1>6, <1>7, <1>8 DEF SimpleInitArg
<1>23. CASE SimpleCall
  BY <1>23, <1>1, <1>2, <1>5, <1>7, <1>8 DEF SimpleCall
<1>24. CASE SimpleCallArg
  BY <1>24, <1>1, <1>2, <1>5, <1>7, <1>8 DEF SimpleCallArg
<1>25. CASE SimplePostfix
  <2>1. \/ \E f, n : Calls(f, n)
        \/ \E n : Returns(ret, n)
    BY <1>25 DEF SimplePostfix
  <2>2. On("postfix")
    BY <1>25 DEF SimplePostfix
  <2>3. QED
    BY <2>1, <2>2, <1>1, <1>3, <1>7, <1>8
<1>26. CASE SimpleIndex
  BY <1>26, <1>2, <1>5, <1>7, <1>8 DEF SimpleIndex
<1>27. CASE SimpleDot
  BY <1>27, <1>2, <1>5, <1>7, <1>8 DEF SimpleDot
<1>28. QED
  BY <1>9, <1>10, <1>11, <1>12, <1>13, <1>14, <1>15, <1>16, <1>17, <1>18, <1>19, <1>20, <1>21,
     <1>22, <1>23, <1>24, <1>25, <1>26, <1>27 DEF Expressions

\* With an error reported, a call that waits is told of a failure.
LEMMA ToldOf ==
  ASSUME IInv, errs, NEW p, On(p)
  PROVE  ~ret.ok /\ p \in Waits /\ verdict = "parsing"
BY Reading

LEMMA StatementsAreFinal == ASSUME IInv, errs, Statements PROVE Final
<1>1. verdict = "parsing"
  BY DEF Statements, RootLoop, Finish, SingleEmpty, SingleNone, SingleFor, SingleIf, Keep,
         SingleFunction, SingleVars, SingleStruct, SingleExtern, ExternEnd, SingleReturn,
         SingleValue, ReturnVoid, ReturnValue, ValueNone, ValueUnended, ValueEnded, DomainEnter,
         DomainBraces, DomainPlain, DomainClose, DomainRepeat, AtValue, On
<1>2. ~On("single") /\ ~On("externEnd") /\ ~On("return") /\ ~On("domain") /\ ~On("open")
  BY ToldOf DEF Waits, ValueWaits, StatementWaits, ListWaits
<1>3. \A r, n : Returns(r, n) => UNCHANGED <<scopes, funcs>>
  BY DEF Returns, tables
<1>4. \A k, n : Shirks(k, n) => UNCHANGED <<scopes, funcs>>
  BY DEF Shirks, tables
<1>5. \/ Finish \/ Keep \/ ValueNone \/ DomainRepeat
      \/ RootLoop \/ ValueUnended \/ ValueEnded \/ DomainClose
  BY <1>2 DEF Statements, SingleEmpty, SingleNone, SingleFor, SingleIf,
         SingleFunction, SingleVars, SingleStruct, SingleExtern, ExternEnd, SingleReturn,
         SingleValue, ReturnVoid, ReturnValue, DomainEnter, DomainBraces, DomainPlain, AtValue
<1>6. CASE Finish
  BY <1>1, <1>6, Remains DEF Finish, tables
<1>7. CASE Keep
  <2>1. ~ret.ok
    BY <1>7, ToldOf DEF Keep
  <2>2. QED
    BY <1>1, <1>4, <1>7, <2>1, Remains DEF Keep
<1>8. CASE ValueNone
  BY <1>1, <1>4, <1>8, Remains DEF ValueNone
<1>9. CASE DomainRepeat
  <2>1. ~ret.ok
    BY <1>9, ToldOf DEF DomainRepeat
  <2>2. QED
    BY <1>1, <1>3, <1>9, <2>1, Remains DEF DomainRepeat
<1>10. CASE RootLoop \/ ValueUnended \/ ValueEnded
  BY <1>10, ToldOf DEF RootLoop, ValueUnended, ValueEnded
<1>11. CASE DomainClose
  <2>1. On("close") /\ scopes' = Closed(scopes) /\ funcs' = funcs
    BY <1>11 DEF DomainClose
  <2>2. Top.pc = "close"
    BY <2>1, Reading
  <2>3. OpenedBy(Top) = 1
    BY <2>2 DEF OpenedBy
  <2>4. QED
    BY <2>1, <2>3, Drops DEF Final
<1>12. QED
  BY <1>5, <1>6, <1>7, <1>8, <1>9, <1>10, <1>11

LEMMA DefinitionsAreFinal == ASSUME IInv, errs, Definitions PROVE Final
<1>1. /\ ~On("args") /\ ~On("argName") /\ ~On("argEnd") /\ ~On("argArray") /\ ~On("argComma")
      /\ ~On("body") /\ ~On("varName") /\ ~On("varRest") /\ ~On("varNext") /\ ~On("structDone")
  BY ToldOf DEF Waits, ValueWaits, StatementWaits, ListWaits
<1>2. FunctionEnd \/ VarSize \/ VarValue \/ StructEnd
  BY <1>1 DEF Definitions, ArgType, ArgRef, ArgName, ArgEnd, ArgArray, ArgComma, DeclareNew,
         DeclareAgain, FunctionBody, Prototype, VarName, VarRest, VarNext, StructDone
<1>3. \A k, n : Fails(k, n) => UNCHANGED <<scopes, funcs>>
  BY DEF Fails, tables
<1>4. \A k, n : Shirks(k, n) => UNCHANGED <<scopes, funcs>>
  BY DEF Shirks, tables
<1>5. CASE FunctionEnd
  <2> DEFINE complete == ret.ok /\ (funcs[Top.name].ret # "void" => Cur.rets)
             done == complete
  <2>1. /\ On("functionEnd") /\ scopes' = Closed(scopes)
        /\ funcs' = [funcs EXCEPT ![Top.name].begun = Cur.cnt > 0, ![Top.name].body = done]
    BY <1>5 DEF FunctionEnd
  <2>2. ~ret.ok /\ ~done
    BY <2>1, ToldOf
  <2>3. FuncsOK(funcs) /\ Top.pc = "functionEnd"
    BY <2>1, Reading
  <2>4. OpenedBy(Top) = 1
    BY <2>3 DEF OpenedBy
  <2> HIDE DEF done
  <2>5. ASSUME NEW n \in Idents, funcs'[n].body PROVE funcs[n].body
    BY <2>1, <2>2, <2>3, <2>5 DEF FuncsOK
  <2>6. Items' <= Items
    BY <2>1, <2>4, Drops
  <2>7. QED
    BY <2>5, <2>6 DEF Final
<1>6. CASE VarSize
  <2>1. On("varSize") /\ ~ret.ok /\ verdict = "parsing"
    BY <1>6, ToldOf DEF VarSize
  <2>2. QED
    BY <1>3, <1>6, <2>1, Remains DEF VarSize
<1>7. CASE VarValue
  <2>1. On("varValue") /\ ~ret.ok /\ verdict = "parsing"
    BY <1>7, ToldOf DEF VarValue
  <2>2. QED
    BY <1>4, <1>7, <2>1, Remains DEF VarValue
<1>8. CASE StructEnd
  <2>1. On("structEnd") /\ Top.pc = "structEnd"
    BY <1>8, Reading DEF StructEnd
  <2>2. OpenedBy(Top) = 1
    BY <2>1 DEF OpenedBy
  <2>3. scopes' = Tail(scopes) /\ funcs' = funcs
    BY <1>8 DEF StructEnd, StructFails
  <2>4. QED
    BY <2>1, <2>2, <2>3, Drops DEF Final
<1>9. QED
  BY <1>2, <1>5, <1>6, <1>7, <1>8

LEMMA CompoundsAreFinal == ASSUME IInv, errs, Compounds PROVE Final
<1>1. ~On("part") /\ ~On("else") /\ ~On("for")
  BY ToldOf DEF Waits, ValueWaits, StatementWaits, ListWaits
<1>2. IfCond \/ PartBlock \/ PartLine \/ ForStart \/ ForCond \/ ForStep
  BY <1>1 DEF Compounds, PartOpen, IfElse, ForOpen
<1>3. CASE IfCond
  <2>1. On("ifCond") /\ ~ret.ok /\ verdict = "parsing"
    BY <1>3, ToldOf DEF IfCond
  <2>2. \A k, n : Shirks(k, n) => UNCHANGED <<scopes, funcs>>
    BY DEF Shirks, tables
  <2>3. QED
    BY <1>3, <2>1, <2>2, Remains DEF IfCond
<1>4. CASE PartBlock \/ PartLine
  <2>1. PICK p \in {"block", "line"} : On(p) /\ ~ret.ok
    BY <1>4, ToldOf DEF PartBlock, PartLine
  <2>2. scopes' = Leaving(scopes, Depth) /\ funcs' = funcs
    BY <1>4, <2>1 DEF PartBlock, PartLine, PartFails
  <2>3. QED
    BY <2>1, <2>2, Drops DEF Final
<1>5. CASE ForStart \/ ForCond \/ ForStep
  <2>1. PICK p \in HeadPlaces : On(p) /\ ~ret.ok
    <3>1. "forStart" \in HeadPlaces /\ "forCond" \in HeadPlaces /\ "forStep" \in HeadPlaces
      BY DEF HeadPlaces
    <3>2. CASE On("forStart")
      BY <3>1, <3>2, ToldOf
    <3>3. CASE On("forCond")
      BY <3>1, <3>3, ToldOf
    <3>4. CASE On("forStep")
      BY <3>1, <3>4, ToldOf
    <3>5. On("forStart") \/ On("forCond") \/ On("forStep")
      BY <1>5 DEF ForStart, ForCond, ForStep
    <3>6. QED
      BY <3>2, <3>3, <3>4, <3>5
  <2>2. HeadFails(0) /\ funcs' = funcs
    <3>1. CASE ForStart
      <4> DEFINE one     == ret.ok => Cur.cnt = 1
                 Refuted == Claim(FALSE, 2258)
                 Unmoved == UNCHANGED <<buf, stack, ret, scopes, errs, live>>
                 Filled  == IF ret.ok THEN UNCHANGED <<scopes, live>> ELSE HeadItem
                 Gone    == Go(Complex \o <<[Top EXCEPT !.pc = "forCond"]>>, 1)
                 Kept    == UNCHANGED <<ret, errs, outcome>>
      <4>1. funcs' = funcs
        BY <3>1 DEF ForStart
      <4>2. \/ ~ret.ok /\ errs /\ HeadFails(0)
            \/ ~one /\ Refuted /\ Unmoved
            \/ one /\ (ret.ok \/ ~errs) /\ Tok(1) # ";" /\ HeadFails(1)
            \/ /\ one /\ (ret.ok \/ ~errs) /\ Tok(1) = ";"
               /\ Filled
               /\ Gone
               /\ Kept
        BY <3>1 DEF ForStart
      <4>3. one
        BY <2>1
      <4> HIDE DEF one, Refuted, Unmoved, Filled, Gone, Kept
      <4>4. QED
        BY <2>1, <4>1, <4>2, <4>3
    <3>2. CASE ForCond
      BY <2>1, <3>2 DEF ForCond
    <3>3. CASE ForStep
      BY <2>1, <3>3 DEF ForStep
    <3>4. QED
      BY <1>5, <3>1, <3>2, <3>3
  <2>3. OpenedBy(Top) = 1
    BY <2>1, AtHead
  <2>4. scopes' = Tail(scopes)
    BY <2>2 DEF HeadFails
  <2>5. QED
    BY <2>1, <2>2, <2>3, <2>4, Drops DEF Final
<1>6. QED
  BY <1>2, <1>3, <1>4, <1>5

LEMMA FinalStep == ASSUME IInv, Next, errs PROVE Final
<1>1. CASE Scan
  <2>1. verdict = "parsing" /\ UNCHANGED <<scopes, funcs>>
    BY <1>1 DEF Scan, tables
  <2>2. QED
    BY <2>1, Remains
<1>2. CASE Expressions
  BY <1>2, ExpressionsKeep, Remains
<1>3. QED
  BY <1>1, <1>2, StatementsAreFinal, DefinitionsAreFinal, CompoundsAreFinal DEF Next

-----------------------------------------------------------------------------
(* The theorems.                                                            *)

\* What holds in every state that has the invariant.
LEMMA InvImplies ==
  ASSUME IInv
  PROVE  /\ TypeOK /\ NothingFreedTwice /\ AcceptedLeaksNothing /\ AssertionsHold
         /\ CurrentFunctionIsOpen
<1>1. TypeOK /\ AcceptedLeaksNothing /\ AssertionsHold
  BY DEF IInv
<1>2. ASSUME verdict = "parsing" PROVE Safe(stack, ret, scopes, curFunc, errs, live)
  BY <1>2 DEF IInv
<1>3. NothingFreedTwice
  <2>1. SUFFICES ASSUME verdict = "parsing" PROVE Held <= live
    BY DEF NothingFreedTwice
  <2>2. /\ Weight(stack) + Weight(scopes) + Flight(Head(stack), ret) <= live
        /\ Safe(stack, ret, scopes, curFunc, errs, live)
    BY <1>2, <2>1 DEF Safe, Balanced
  <2>3. /\ Weight(stack) \in Nat /\ Weight(scopes) \in Nat
        /\ Flight(Head(stack), ret) \in Nat /\ live \in Nat
    <3> DEFINE a == Head(stack).size
               b == Weight(Tail(stack))
               c == Head(scopes).size
               d == Weight(Tail(scopes))
               x == Weight(stack)
               y == Weight(scopes)
    <3>1. /\ x = a + b /\ y = c + d /\ a \in Nat /\ b \in Nat /\ c \in Nat /\ d \in Nat
          /\ live \in Nat /\ Flight(Head(stack), ret) \in Nat
      BY <2>2, SafeWeights
    <3> HIDE DEF a, b, c, d, x, y
    <3>2. x \in Nat /\ y \in Nat
      BY <3>1
    <3>3. QED
      BY <3>1, <3>2 DEF x, y
  <2>4. Held = Weight(stack) + Weight(scopes)
    BY DEF Held, Weight
  <2> DEFINE w == Weight(stack)
             v == Weight(scopes)
             f == Flight(Head(stack), ret)
  <2>5. w \in Nat /\ v \in Nat /\ f \in Nat /\ live \in Nat /\ w + v + f <= live /\ Held = w + v
    BY <2>2, <2>3, <2>4
  <2> HIDE DEF w, v, f, Held
  <2>6. QED
    BY <2>5
<1>4. CurrentFunctionIsOpen
  <2>1. SUFFICES ASSUME verdict = "parsing"
                 PROVE  curFunc # None <=> \E k \in DOMAIN stack : stack[k].pc = "functionEnd"
    BY DEF CurrentFunctionIsOpen
  <2>2. (curFunc # None <=> Runs(stack)) /\ IsSeq(stack)
    BY <1>2, <2>1 DEF Safe, StackOK
  <2>3. Runs(stack) <=> \E k \in DOMAIN stack : stack[k].pc = "functionEnd"
    <3>1. /\ \A k \in DOMAIN stack : \E u \in Suffixes(stack) : Head(u) = stack[k]
          /\ \A u \in Suffixes(stack) : \E k \in DOMAIN stack : Head(u) = stack[k]
      BY <2>2, SuffixParts
    <3>2. ASSUME Runs(stack) PROVE \E k \in DOMAIN stack : stack[k].pc = "functionEnd"
      BY <3>1, <3>2 DEF Runs
    <3>3. ASSUME NEW k \in DOMAIN stack, stack[k].pc = "functionEnd" PROVE Runs(stack)
      BY <3>1, <3>3 DEF Runs
    <3>4. QED
      BY <3>2, <3>3
  <2>4. QED
    BY <2>2, <2>3
<1>5. QED
  BY <1>1, <1>3, <1>4

\* The variables have their types, for every text: no more than three tokens wait in
\* the buffer and the instance count never becomes negative (Exp_Object's
\* constructor and destructor).
THEOREM ParserTypes == Spec => []TypeOK
<1>1. IInv => TypeOK
  BY InvImplies
<1>2. QED
  BY <1>1, Invariance, PTL

\* On every path of every text, the nodes that the calls in progress and the open
\* domains own are alive: no failing path deletes a node somebody still owns.
THEOREM ParserFreesOnce == Spec => []NothingFreedTwice
<1>1. IInv => NothingFreedTwice
  BY InvImplies
<1>2. QED
  BY <1>1, Invariance, PTL

\* When Parse accepts a text and its domain is deleted no node is left: every path
\* that loses a node has reported an error.
THEOREM ParserLeaksNothing == Spec => []AcceptedLeaksNothing
<1>1. IInv => AcceptedLeaksNothing
  BY InvImplies
<1>2. QED
  BY <1>1, Invariance, PTL

\* No text makes the assertions at 643, 1232, 1841, 2284 and 2310 fail; those at 1213
\* and 2258 are the only ones that stop a parse.
THEOREM ParserAsserts == Spec => []AssertionsHold
<1>1. IInv => AssertionsHold
  BY InvImplies
<1>2. QED
  BY <1>1, Invariance, PTL

\* On every path of every text, mpCurrentFunc is set exactly while a function body is
\* read: a body that fails clears it as well.
THEOREM ParserCurrentFunction == Spec => []CurrentFunctionIsOpen
<1>1. IInv => CurrentFunctionIsOpen
  BY InvImplies
<1>2. QED
  BY <1>1, Invariance, PTL

\* Once an error was reported no domain gets an item and no function its body.
THEOREM ParserErrorsAreFinal == Spec => ErrorsAreFinal
<1>1. ASSUME IInv, [Next]_vars
      PROVE  [errs => /\ Items' <= Items
                      /\ \A n \in Idents : funcs'[n].body => funcs[n].body]_vars
  BY <1>1, FinalStep DEF Final
<1>2. QED
  BY <1>1, Invariance, PTL DEF Spec, ErrorsAreFinal
=============================================================================
