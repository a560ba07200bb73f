---------------------------- MODULE CodeGenProofs ----------------------------
(***************************************************************************)
(* However ifs and loops are nested, the blocks of a function are placed,  *)
(* ended and entered as LLVM's verifier demands, and its code never leaves *)
(* the function while it runs.                                             *)
(*                                                                         *)
(* While the tree is walked the function is unfinished: some blocks are    *)
(* not in it yet, and the insert block has no end.  The inductive          *)
(* invariant says which: each of the blocks that are missing is owed by    *)
(* one call of GenerateCode that is in progress, and will be placed by it. *)
(* Like the calls, the invariant is about values and not about variables.  *)
(***************************************************************************)
EXTENDS CodeGen, SumProofs

-----------------------------------------------------------------------------
(* The inductive invariant.                                                 *)

\* The blocks that a call in progress has created and not yet placed.
Owes(f) ==
    IF f.k = "afterThen" THEN {f.else, f.merge}
    ELSE IF f.k = "afterElse" THEN {f.merge}
    ELSE IF f.k = "afterFunction" THEN {ExitBlock}
    ELSE {}
Owed(w) == UNION {Owes(w[i]) : i \in DOMAIN w}

\* What a list of instructions leads to, one that can be appended to, and one
\* that has its end.
Targets(ins) == UNION {ins[j].to : j \in {i \in DOMAIN ins : IsTerminator(ins[i])}}
Open(ins)    == \A j \in DOMAIN ins : ~IsTerminator(ins[j])
Ended(ins)   ==
    /\ ins # <<>>
    /\ IsTerminator(ins[Len(ins)])
    /\ \A j \in 1..(Len(ins) - 1) : ~IsTerminator(ins[j])
Preds(bs, pl, b) == {p \in pl : b \in Targets(bs[p].ins)}

\* Statements that stand in the body, at any depth; values that one returns.
Part(ss, body) ==
    /\ IsSeq(ss)
    /\ \A j \in DOMAIN ss : \E l \in Lists(body) : \E i \in DOMAIN l : ss[j] = l[i]
Returned(v, body) ==
    \E l \in Lists(body) : \E j \in DOMAIN l : l[j].k = "ret" /\ l[j].v = v

InsOK(x, n, body) ==
    /\ x.i \in {"event", "store", "br", "cbr", "ret"}
    /\ IsTerminator(x) => x.to \subseteq 1..n
    /\ x.i = "cbr" => x.to = {x.yes, x.no}
    /\ x.i = "store" => Returned(x.v, body)

ListOK(x, n, body) == IsSeq(x) /\ \A j \in DOMAIN x : InsOK(x[j], n, body)

BlockOK(b, n, body) ==
    /\ b = [ins |-> b.ins, phi |-> b.phi]
    /\ ListOK(b.ins, n, body)
    /\ b.phi \subseteq 1..n

\* Blocks that lead to the first n only.
BlocksIn(bs, n, body) ==
    /\ IsSeq(bs)
    /\ EntryBlock \in DOMAIN bs /\ ExitBlock \in DOMAIN bs
    /\ \A b \in DOMAIN bs : BlockOK(bs[b], n, body)
BlocksOK(bs, body) == BlocksIn(bs, Len(bs), body)

CallOK(f, pl, body) ==
    /\ f.k \in {"domain", "afterThen", "afterElse", "afterBody", "afterFunction"}
    /\ f.k \in {"domain", "afterThen"} => Part(f.ss, body)
    /\ f.k = "afterThen" => f.else # f.merge
    /\ f.k = "afterElse" => f.then \in pl
    /\ f.k = "afterBody" => f.loop \in pl

Calls(w, pl, body) ==
    /\ IsSeq(w)
    /\ \A i \in DOMAIN w : CallOK(w[i], pl, body)
    /\ \A i \in DOMAIN w : w[i].k = "afterFunction" <=> i = Len(w)
    /\ \A i, j \in DOMAIN w : i # j => Owes(w[i]) \cap Owes(w[j]) = {}

Shape(bs, pl, c, w, body) ==
    /\ BlocksOK(bs, body)
    /\ Calls(w, pl, body) /\ w # <<>>
    /\ pl \subseteq DOMAIN bs /\ EntryBlock \in pl /\ c \in pl
    /\ Owed(w) = DOMAIN bs \ pl
    /\ \A b \in DOMAIN bs \ pl : bs[b] = NewBlock

\* What a call expects of the edges it has drawn.
CallDrawn(f, bs, pl) ==
    /\ f.k = "afterBody" => bs[f.loop].phi # {}
    /\ f.k = "afterThen" => Preds(bs, pl, f.merge) = {}
    /\ f.k = "afterElse" => Preds(bs, pl, f.merge) = {f.then}

CallsDrawn(w, bs, pl) == \A i \in DOMAIN w : CallDrawn(w[i], bs, pl)

PhiOK(bs, pl, b) == bs[b].phi = {} \/ bs[b].phi = Preds(bs, pl, b)

Drawn(bs, pl, c, w) ==
    /\ \A b \in pl \ {c} : Ended(bs[b].ins)
    /\ Open(bs[c].ins)
    /\ \A b \in pl : PhiOK(bs, pl, b)
    /\ CallsDrawn(w, bs, pl)

Plain == ~Uses(func.body, "leave")

IInv ==
    /\ func \in Functions
    /\ phase \in {"emit", "verify", "run", "done", "rejected"}
    /\ tests \in Seq(BOOLEAN)
    /\ retValue = Undefined \/ Returned(retValue, func.body)
    /\ phase = "emit" => /\ Shape(blocks, placed, cur, work, func.body)
                         /\ Plain => Drawn(blocks, placed, cur, work)
    /\ phase # "emit" => /\ BlocksOK(blocks, func.body)
                         /\ placed = DOMAIN blocks /\ cur \in placed
    /\ phase \in {"emit", "verify", "rejected"} => at = <<EntryBlock, 1>>
    /\ phase = "verify" /\ Plain => WellFormed
    /\ phase = "rejected" => ~Plain
    /\ phase \in {"run", "done"} => /\ WellFormed
                                    /\ at = <<at[1], at[2]>>
                                    /\ at[1] \in placed
                                    /\ at[2] \in DOMAIN blocks[at[1]].ins

-----------------------------------------------------------------------------
(* Lists of instructions and of blocks.                                     *)

LEMMA Joined ==
  ASSUME NEW p, NEW q, IsSeq(p), IsSeq(q)
  PROVE  /\ IsSeq(p \o q)
         /\ Len(p \o q) = Len(p) + Len(q)
         /\ \A k \in 1..Len(p) : (p \o q)[k] = p[k]
         /\ \A k \in 1..Len(q) : (p \o q)[Len(p) + k] = q[k]
<1> DEFINE P == {p[k] : k \in DOMAIN p}
           Q == {q[k] : k \in DOMAIN q}
           S == P \union Q
<1>1. p \in Seq(P) /\ q \in Seq(Q)
  BY DEF IsSeq
<1> HIDE DEF P, Q
<1>2. p \in Seq(S) /\ q \in Seq(S)
  <2>1. P \subseteq S /\ Q \subseteq S
    OBVIOUS
  <2>2. QED
    BY <1>1, <2>1, SeqMonotonic
<1> HIDE DEF S
<1>3. p \o q \in Seq(S)
  BY <1>2
<1>4. IsSeq(p \o q)
  BY <1>3, SeqOfAny
<1>5. QED
  BY <1>2, <1>4

LEMMA SingleParts ==
  ASSUME NEW x
  PROVE  IsSeq(<<x>>) /\ Len(<<x>>) = 1 /\ DOMAIN <<x>> = {1} /\ <<x>>[1] = x
<1>1. <<x>> \in Seq({x})
  OBVIOUS
<1>2. IsSeq(<<x>>)
  BY <1>1, SeqOfAny
<1>3. QED
  BY <1>2

\* One instruction behind others.
LEMMA OneMore ==
  ASSUME NEW q, NEW x, IsSeq(q)
  PROVE  /\ IsSeq(q \o <<x>>)
         /\ Len(q \o <<x>>) = Len(q) + 1
         /\ \A k \in 1..Len(q) : (q \o <<x>>)[k] = q[k]
         /\ (q \o <<x>>)[Len(q) + 1] = x
<1> DEFINE r == <<x>>
<1>1. IsSeq(r) /\ Len(r) = 1 /\ r[1] = x /\ 1 \in 1..1
  BY SingleParts
<1> HIDE DEF r
<1>2. /\ IsSeq(q \o r) /\ Len(q \o r) = Len(q) + Len(r)
      /\ \A k \in 1..Len(q) : (q \o r)[k] = q[k]
      /\ \A k \in 1..Len(r) : (q \o r)[Len(q) + k] = r[k]
  BY <1>1, Joined
<1>3. QED
  BY <1>1, <1>2 DEF r

LEMMA TwoMore ==
  ASSUME NEW q, NEW x, NEW y, IsSeq(q)
  PROVE  q \o <<x, y>> = (q \o <<x>>) \o <<y>>
<1>1. <<x, y>> = <<x>> \o <<y>>
  <2> DEFINE S == {x, y}
  <2>1. x \in S /\ y \in S
    OBVIOUS
  <2> HIDE DEF S
  <2>2. <<x>> \in Seq(S) /\ <<y>> \in Seq(S) /\ <<x, y>> \in Seq(S)
    BY <2>1
  <2>3. /\ <<x>> \o <<y>> \in Seq(S) /\ Len(<<x>> \o <<y>>) = 2 /\ Len(<<x, y>>) = 2
        /\ (<<x>> \o <<y>>)[1] = x /\ (<<x>> \o <<y>>)[2] = y
    BY <2>2
  <2>4. <<x, y>>[1] = x /\ <<x, y>>[2] = y
    OBVIOUS
  <2>5. \A k \in 1..2 : <<x, y>>[k] = (<<x>> \o <<y>>)[k]
    <3>1. \A k \in 1..2 : k = 1 \/ k = 2
      OBVIOUS
    <3>2. QED
      BY <2>3, <2>4, <3>1
  <2>6. QED
    BY <2>2, <2>3, <2>5, SeqEqual
<1>2. (q \o <<x>>) \o <<y>> = q \o (<<x>> \o <<y>>)
  <2> DEFINE a == <<x>>
             b == <<y>>
  <2>1. IsSeq(a) /\ IsSeq(b)
    BY SingleParts
  <2> HIDE DEF a, b
  <2>2. (q \o a) \o b = q \o (a \o b)
    BY <2>1, OnTop
  <2>3. QED
    BY <2>2 DEF a, b
<1>3. QED
  BY <1>1, <1>2

LEMMA EmptyParts == Open(<<>>) /\ Targets(<<>>) = {} /\ IsSeq(<<>>) /\ Len(<<>>) = 0
  BY EmptyIsSeq DEF Open, Targets

\* What is open leads nowhere; an instruction behind it leaves it open or ends it.
LEMMA OpenLeadsNowhere ==
  ASSUME NEW q, Open(q)
  PROVE  Targets(q) = {}
BY DEF Open, Targets

LEMMA StaysOpen ==
  ASSUME NEW q, NEW x, IsSeq(q), Open(q), ~IsTerminator(x)
  PROVE  Open(q \o <<x>>) /\ IsSeq(q \o <<x>>)
<1> DEFINE r == q \o <<x>>
<1>1. /\ IsSeq(r) /\ Len(r) = Len(q) + 1 /\ \A k \in 1..Len(q) : r[k] = q[k]
      /\ r[Len(q) + 1] = x
  BY OneMore
<1>2. Len(q) \in Nat /\ DOMAIN q = 1..Len(q) /\ DOMAIN r = 1..Len(r)
  BY <1>1, SeqParts
<1> HIDE DEF r
<1>3. ASSUME NEW j \in DOMAIN r PROVE ~IsTerminator(r[j])
  <2>1. j \in 1..Len(q) \/ j = Len(q) + 1
    BY <1>1, <1>2
  <2>2. QED
    BY <1>1, <1>2, <2>1 DEF Open
<1>4. QED
  BY <1>1, <1>3 DEF Open, r

LEMMA IsEnded ==
  ASSUME NEW q, NEW x, IsSeq(q), Open(q), IsTerminator(x)
  PROVE  Ended(q \o <<x>>) /\ Targets(q \o <<x>>) = x.to
<1> DEFINE r == q \o <<x>>
<1>1. /\ IsSeq(r) /\ Len(r) = Len(q) + 1 /\ \A k \in 1..Len(q) : r[k] = q[k]
      /\ r[Len(q) + 1] = x
  BY OneMore
<1>2. Len(q) \in Nat /\ DOMAIN q = 1..Len(q) /\ DOMAIN r = 1..Len(r) /\ r # <<>>
  BY <1>1, SeqParts
<1> HIDE DEF r
<1>3. \A j \in 1..Len(q) : ~IsTerminator(r[j])
  BY <1>1, <1>2 DEF Open
<1>4. Ended(r)
  <2>1. Len(r) = Len(q) + 1 /\ Len(r) - 1 = Len(q)
    BY <1>1, <1>2
  <2>2. QED
    BY <1>1, <1>2, <1>3, <2>1 DEF Ended
<1>5. {i \in DOMAIN r : IsTerminator(r[i])} = {Len(q) + 1}
  <2>1. \A i \in DOMAIN r : i \in 1..Len(q) \/ i = Len(q) + 1
    BY <1>1, <1>2
  <2>2. Len(q) + 1 \in DOMAIN r
    BY <1>1, <1>2
  <2>3. QED
    BY <1>1, <1>3, <2>1, <2>2
<1>6. Targets(r) = x.to
  BY <1>1, <1>5 DEF Targets
<1>7. QED
  BY <1>4, <1>6 DEF r

-----------------------------------------------------------------------------
(* The calls of GenerateCode in progress.                                   *)

LEMMA OwedCons ==
  ASSUME NEW f, NEW t, IsSeq(t)
  PROVE  Owed(<<f>> \o t) = Owes(f) \union Owed(t)
<1> DEFINE w == <<f>> \o t
<1>1. /\ IsSeq(w) /\ w[1] = f /\ Len(w) = Len(t) + 1
      /\ \A k \in 1..Len(t) : w[k + 1] = t[k]
  BY ConsParts
<1>2. Len(t) \in Nat /\ DOMAIN w = 1..Len(w) /\ DOMAIN t = 1..Len(t)
  BY <1>1, SeqParts
<1> HIDE DEF w
<1>3. ASSUME NEW i \in DOMAIN w PROVE i = 1 \/ (i - 1 \in DOMAIN t /\ w[i] = t[i - 1])
  <2>1. i = 1 \/ i - 1 \in 1..Len(t)
    BY <1>1, <1>2
  <2>2. i - 1 \in 1..Len(t) => w[(i - 1) + 1] = t[i - 1]
    BY <1>1
  <2>3. (i - 1) + 1 = i
    BY <1>2
  <2>4. QED
    BY <1>2, <2>1, <2>2, <2>3
<1>4. Owed(w) \subseteq Owes(f) \union Owed(t)
  BY <1>1, <1>3 DEF Owed
<1>5. 1 \in DOMAIN w /\ \A k \in DOMAIN t : k + 1 \in DOMAIN w
  BY <1>1, <1>2
<1>6. Owes(f) \union Owed(t) \subseteq Owed(w)
  <2>1. Owes(f) \subseteq Owed(w)
    BY <1>1, <1>5 DEF Owed
  <2>2. \A k \in DOMAIN t : Owes(t[k]) = Owes(w[k + 1])
    BY <1>1, <1>2
  <2>3. Owed(t) \subseteq Owed(w)
    BY <1>5, <2>2 DEF Owed
  <2>4. QED
    BY <2>1, <2>3
<1>7. QED
  BY <1>4, <1>6 DEF w

\* A call is made by those in progress.
LEMMA CallsCons ==
  ASSUME NEW f, NEW t, NEW pl, NEW body, Calls(t, pl, body), t # <<>>,
         CallOK(f, pl, body), f.k # "afterFunction", Owes(f) \cap Owed(t) = {}
  PROVE  /\ Calls(<<f>> \o t, pl, body) /\ <<f>> \o t # <<>>
         /\ Owed(<<f>> \o t) = Owes(f) \union Owed(t)
<1> DEFINE w == <<f>> \o t
<1>1. IsSeq(t)
  BY DEF Calls
<1>2. /\ IsSeq(w) /\ w # <<>> /\ w[1] = f /\ Len(w) = Len(t) + 1
      /\ \A k \in 1..Len(t) : w[k + 1] = t[k]
  BY <1>1, ConsParts
<1>3. /\ Len(t) \in Nat /\ DOMAIN w = 1..Len(w) /\ DOMAIN t = 1..Len(t) /\ Len(t) > 0
  BY <1>1, <1>2, SeqParts
<1>4. Owed(w) = Owes(f) \union Owed(t)
  BY <1>1, OwedCons
<1> HIDE DEF w
<1>5. ASSUME NEW i \in DOMAIN w PROVE i = 1 \/ (i - 1 \in DOMAIN t /\ w[i] = t[i - 1])
  <2>1. i = 1 \/ i - 1 \in 1..Len(t)
    BY <1>2, <1>3
  <2>2. i - 1 \in 1..Len(t) => w[(i - 1) + 1] = t[i - 1]
    BY <1>2
  <2>3. (i - 1) + 1 = i
    BY <1>3
  <2>4. QED
    BY <1>3, <2>1, <2>2, <2>3
<1>6. \A i \in DOMAIN w : CallOK(w[i], pl, body)
  BY <1>2, <1>5 DEF Calls
<1>7. ASSUME NEW i \in DOMAIN w PROVE w[i].k = "afterFunction" <=> i = Len(w)
  <2>1. CASE i = 1
    BY <1>2, <1>3, <2>1
  <2>2. CASE i - 1 \in DOMAIN t /\ w[i] = t[i - 1]
    <3>1. t[i - 1].k = "afterFunction" <=> i - 1 = Len(t)
      BY <2>2 DEF Calls
    <3>2. i - 1 = Len(t) <=> i = Len(w)
      BY <1>2, <1>3
    <3>3. QED
      BY <2>2, <3>1, <3>2
  <2>3. QED
    BY <1>5, <2>1, <2>2
<1>8. ASSUME NEW i \in DOMAIN w, NEW j \in DOMAIN w, i # j PROVE Owes(w[i]) \cap Owes(w[j]) = {}
  <2>1. \A k \in DOMAIN t : Owes(t[k]) \subseteq Owed(t)
    BY DEF Owed
  <2>2. CASE i = 1
    BY <1>2, <1>5, <1>8, <2>1, <2>2
  <2>3. CASE j = 1
    BY <1>2, <1>5, <1>8, <2>1, <2>3
  <2>4. CASE i # 1 /\ j # 1
    <3>1. /\ i - 1 \in DOMAIN t /\ w[i] = t[i - 1] /\ j - 1 \in DOMAIN t /\ w[j] = t[j - 1]
      BY <1>5, <2>4
    <3>2. i - 1 # j - 1
      BY <1>3, <1>8
    <3>3. QED
      BY <3>1, <3>2 DEF Calls
  <2>5. QED
    BY <2>2, <2>3, <2>4
<1>9. Calls(w, pl, body)
  BY <1>2, <1>6, <1>7, <1>8 DEF Calls
<1>10. QED
  BY <1>2, <1>4, <1>9 DEF w

\* The innermost call and the others; below that of a function there is none.
LEMMA CallsSplit ==
  ASSUME NEW w, NEW pl, NEW body, Calls(w, pl, body), w # <<>>
  PROVE  LET f == Head(w)
             t == Tail(w)
         IN  /\ w = <<f>> \o t
             /\ Calls(t, pl, body) /\ CallOK(f, pl, body)
             /\ Owed(w) = Owes(f) \union Owed(t) /\ Owes(f) \cap Owed(t) = {}
             /\ f.k = "afterFunction" <=> t = <<>>
<1> DEFINE f == Head(w)
           t == Tail(w)
<1>1. w = <<f>> \o t /\ IsSeq(t) /\ f = w[1] /\ Len(t) = Len(w) - 1 /\ IsSeq(w)
  BY SeqSplit DEF Calls
<1>2. \A k \in 1..Len(t) : w[k + 1] = t[k]
  BY <1>1, ConsParts
<1>3. /\ Len(w) \in Nat /\ Len(w) > 0 /\ DOMAIN w = 1..Len(w) /\ DOMAIN t = 1..Len(t)
      /\ Len(t) \in Nat /\ (t # <<>> <=> Len(t) > 0)
  BY <1>1, SeqParts
<1>4. Owed(w) = Owes(f) \union Owed(t)
  BY <1>1, OwedCons
<1> HIDE DEF f, t
<1>5. 1 \in DOMAIN w /\ \A k \in DOMAIN t : k + 1 \in DOMAIN w /\ k + 1 # 1 /\ w[k + 1] = t[k]
  BY <1>1, <1>2, <1>3
<1>6. Calls(t, pl, body)
  <2>1. \A k \in DOMAIN t : CallOK(t[k], pl, body)
    <3>1. \A i \in DOMAIN w : CallOK(w[i], pl, body)
      BY DEF Calls
    <3>2. ASSUME NEW k \in DOMAIN t PROVE CallOK(t[k], pl, body)
      BY <1>5, <3>1
    <3>3. QED
      BY <3>2
  <2>2. ASSUME NEW k \in DOMAIN t PROVE t[k].k = "afterFunction" <=> k = Len(t)
    <3>1. w[k + 1].k = "afterFunction" <=> k + 1 = Len(w)
      BY <1>5 DEF Calls
    <3>2. k + 1 = Len(w) <=> k = Len(t)
      BY <1>1, <1>3
    <3>3. QED
      BY <1>5, <3>1, <3>2
  <2>3. ASSUME NEW i \in DOMAIN t, NEW j \in DOMAIN t, i # j PROVE Owes(t[i]) \cap Owes(t[j]) = {}
    <3>1. i + 1 # j + 1
      BY <1>3, <2>3
    <3>2. Owes(w[i + 1]) \cap Owes(w[j + 1]) = {}
      BY <1>5, <3>1 DEF Calls
    <3>3. QED
      BY <1>5, <3>2
  <2>4. QED
    BY <1>1, <2>1, <2>2, <2>3 DEF Calls
<1>7. CallOK(f, pl, body) /\ (f.k = "afterFunction" <=> 1 = Len(w))
  BY <1>1, <1>5 DEF Calls
<1>8. Owes(f) \cap Owed(t) = {}
  <2>1. \A k \in DOMAIN t : Owes(w[1]) \cap Owes(w[k + 1]) = {}
    BY <1>5 DEF Calls
  <2>2. QED
    BY <1>1, <1>5, <2>1 DEF Owed
<1>9. 1 = Len(w) <=> t = <<>>
  BY <1>1, <1>3
<1>10. QED
  BY <1>1, <1>4, <1>6, <1>7, <1>8, <1>9 DEF f, t

LEMMA CallsGrow ==
  ASSUME NEW w, NEW pl, NEW pl2, NEW body, Calls(w, pl, body), pl \subseteq pl2
  PROVE  Calls(w, pl2, body)
BY DEF Calls, CallOK

\* What the calls expect of the edges.
LEMMA DrawnCons ==
  ASSUME NEW f, NEW t, NEW bs, NEW pl, IsSeq(t)
  PROVE  CallsDrawn(<<f>> \o t, bs, pl) <=> CallDrawn(f, bs, pl) /\ CallsDrawn(t, bs, pl)
<1> DEFINE w == <<f>> \o t
<1>1. /\ IsSeq(w) /\ w[1] = f /\ Len(w) = Len(t) + 1
      /\ \A k \in 1..Len(t) : w[k + 1] = t[k]
  BY ConsParts
<1>2. Len(t) \in Nat /\ DOMAIN w = 1..Len(w) /\ DOMAIN t = 1..Len(t)
  BY <1>1, SeqParts
<1> HIDE DEF w
<1>3. ASSUME NEW i \in DOMAIN w PROVE i = 1 \/ (i - 1 \in DOMAIN t /\ w[i] = t[i - 1])
  <2>1. i = 1 \/ i - 1 \in 1..Len(t)
    BY <1>1, <1>2
  <2>2. i - 1 \in 1..Len(t) => w[(i - 1) + 1] = t[i - 1]
    BY <1>1
  <2>3. (i - 1) + 1 = i
    BY <1>2
  <2>4. QED
    BY <1>2, <2>1, <2>2, <2>3
<1>4. 1 \in DOMAIN w /\ \A k \in DOMAIN t : k + 1 \in DOMAIN w /\ w[k + 1] = t[k]
  BY <1>1, <1>2
<1>5. CallDrawn(f, bs, pl) /\ CallsDrawn(t, bs, pl) => CallsDrawn(w, bs, pl)
  BY <1>1, <1>3 DEF CallsDrawn
<1>6. CallsDrawn(w, bs, pl) => CallDrawn(f, bs, pl) /\ CallsDrawn(t, bs, pl)
  BY <1>1, <1>4 DEF CallsDrawn
<1>7. QED
  BY <1>5, <1>6 DEF w

\* The calls that go on later are not disturbed: no edge is drawn to what they owe, and
\* the phi nodes of their loops are not emptied.
LEMMA DrawnStays ==
  ASSUME NEW w, NEW bs, NEW pl, NEW bs2, NEW pl2, NEW body, Calls(w, pl, body),
         CallsDrawn(w, bs, pl),
         \A b \in Owed(w) : Preds(bs2, pl2, b) = Preds(bs, pl, b),
         \A b \in pl : bs[b].phi # {} => bs2[b].phi # {}
  PROVE  CallsDrawn(w, bs2, pl2)
<1>1. ASSUME NEW i \in DOMAIN w PROVE CallDrawn(w[i], bs2, pl2)
  <2>1. CallDrawn(w[i], bs, pl) /\ CallOK(w[i], pl, body) /\ Owes(w[i]) \subseteq Owed(w)
    BY DEF Calls, CallsDrawn, Owed
  <2>2. w[i].k = "afterBody" => bs2[w[i].loop].phi # {}
    BY <2>1 DEF CallDrawn, CallOK
  <2>3. w[i].k = "afterThen" => Preds(bs2, pl2, w[i].merge) = {}
    BY <2>1 DEF CallDrawn, Owes
  <2>4. w[i].k = "afterElse" => Preds(bs2, pl2, w[i].merge) = {w[i].then}
    BY <2>1 DEF CallDrawn, Owes
  <2>5. QED
    BY <2>2, <2>3, <2>4 DEF CallDrawn
<1>2. QED
  BY <1>1 DEF CallsDrawn

-----------------------------------------------------------------------------
(* Blocks that get instructions, incoming edges, and others behind them.    *)

LEMMA BlocksParts ==
  ASSUME NEW bs, NEW n, NEW body, BlocksIn(bs, n, body)
  PROVE  /\ Len(bs) \in Nat /\ DOMAIN bs = 1..Len(bs) /\ Len(bs) >= 2
         /\ EntryBlock \in DOMAIN bs /\ ExitBlock \in DOMAIN bs
         /\ \A b \in DOMAIN bs : BlockOK(bs[b], n, body)
<1>1. IsSeq(bs) /\ ExitBlock \in DOMAIN bs
  BY DEF BlocksIn
<1>2. Len(bs) \in Nat /\ DOMAIN bs = 1..Len(bs)
  BY <1>1, SeqParts
<1>3. QED
  BY <1>1, <1>2 DEF BlocksIn, ExitBlock

LEMMA BlocksWider ==
  ASSUME NEW bs, NEW n \in Nat, NEW m \in Nat, n <= m, NEW body, BlocksIn(bs, n, body)
  PROVE  BlocksIn(bs, m, body)
<1>1. 1..n \subseteq 1..m
  OBVIOUS
<1>2. ASSUME NEW x, InsOK(x, n, body) PROVE InsOK(x, m, body)
  BY <1>1, <1>2 DEF InsOK
<1>3. ASSUME NEW b, BlockOK(b, n, body) PROVE BlockOK(b, m, body)
  <2>1. b.phi \subseteq 1..m
    BY <1>1, <1>3 DEF BlockOK
  <2>2. ListOK(b.ins, m, body)
    BY <1>2, <1>3 DEF BlockOK, ListOK
  <2>3. QED
    BY <1>3, <2>1, <2>2 DEF BlockOK
<1>4. QED
  BY <1>3 DEF BlocksIn

\* A sequence in which one element is another.
Replace(s, c, v) == [s EXCEPT ![c] = v]
IsReplaced(r, s, c, v) ==
    /\ IsSeq(r) /\ Len(r) = Len(s) /\ DOMAIN r = DOMAIN s /\ r[c] = v
    /\ \A b \in DOMAIN s : b # c => r[b] = s[b]

LEMMA Replaced ==
  ASSUME NEW s, IsSeq(s), NEW c \in DOMAIN s, NEW v
  PROVE  IsReplaced(Replace(s, c, v), s, c, v)
<1> DEFINE r == [s EXCEPT ![c] = v]
           S == {s[k] : k \in DOMAIN s} \union {v}
<1>1. s \in Seq(S) /\ v \in S /\ c \in 1..Len(s)
  <2>1. {s[k] : k \in DOMAIN s} \subseteq S
    OBVIOUS
  <2>2. s \in Seq(S)
    BY <2>1, SeqMonotonic DEF IsSeq
  <2>3. QED
    BY <2>2, SeqParts
<1> HIDE DEF S
<1>2. r \in Seq(S) /\ Len(r) = Len(s)
  BY <1>1, ExceptSeq
<1>3. IsSeq(r)
  BY <1>2, SeqOfAny
<1>4. DOMAIN r = DOMAIN s /\ r[c] = v /\ \A b \in DOMAIN s : b # c => r[b] = s[b]
  OBVIOUS
<1>5. QED
  BY <1>2, <1>3, <1>4 DEF IsReplaced, Replace

\* The builder appends instructions to a block.
Emitted(b2, bs, c, x, n, body) ==
    /\ BlocksIn(b2, n, body) /\ Len(b2) = Len(bs) /\ DOMAIN b2 = DOMAIN bs
    /\ b2[c].ins = bs[c].ins \o x /\ b2[c].phi = bs[c].phi
    /\ \A b \in DOMAIN bs : b # c => b2[b] = bs[b]

LEMMA EmitIs ==
  ASSUME NEW bs, NEW n, NEW body, BlocksIn(bs, n, body), NEW c \in DOMAIN bs,
         NEW x, ListOK(x, n, body)
  PROVE  Emitted(Emit(bs, c, x), bs, c, x, n, body)
<1> DEFINE b2 == Emit(bs, c, x)
           q == bs[c].ins
           p == bs[c].phi
           v == [ins |-> q \o x, phi |-> p]
<1>1. IsSeq(bs) /\ BlockOK(bs[c], n, body)
  BY DEF BlocksIn
<1>2. b2 = Replace(bs, c, v)
  <2>1. bs[c] = [ins |-> q, phi |-> p]
    BY <1>1 DEF BlockOK
  <2>2. [bs[c] EXCEPT !.ins = q \o x] = v
    <3> DEFINE y == q \o x
               z == bs[c]
    <3>1. z = [ins |-> q, phi |-> p]
      BY <2>1
    <3> HIDE DEF y, z, q, p
    <3>2. [z EXCEPT !.ins = y] = [ins |-> y, phi |-> p]
      BY <3>1
    <3>3. QED
      BY <3>2 DEF y, z
  <2>3. b2 = [bs EXCEPT ![c] = [bs[c] EXCEPT !.ins = q \o x]]
    BY DEF Emit
  <2> HIDE DEF v
  <2>4. QED
    BY <2>2, <2>3 DEF Replace
<1>3. IsSeq(q) /\ IsSeq(x) /\ p \subseteq 1..n /\ ListOK(q, n, body)
  BY <1>1 DEF BlockOK, ListOK
<1> HIDE DEF q, p
<1>4. v.ins = q \o x /\ v.phi = p /\ v = [ins |-> v.ins, phi |-> v.phi]
  OBVIOUS
<1> HIDE DEF v, b2
<1>5. /\ IsSeq(b2) /\ Len(b2) = Len(bs) /\ DOMAIN b2 = DOMAIN bs /\ b2[c] = v
      /\ \A b \in DOMAIN bs : b # c => b2[b] = bs[b]
  BY <1>1, <1>2, Replaced DEF IsReplaced
<1>6. ListOK(q \o x, n, body)
  <2> DEFINE r == q \o x
  <2>1. /\ IsSeq(r) /\ Len(r) = Len(q) + Len(x) /\ \A k \in 1..Len(q) : r[k] = q[k]
        /\ \A k \in 1..Len(x) : r[Len(q) + k] = x[k]
    BY <1>3, Joined
  <2>2. /\ Len(q) \in Nat /\ Len(x) \in Nat /\ DOMAIN q = 1..Len(q) /\ DOMAIN x = 1..Len(x)
        /\ DOMAIN r = 1..Len(r)
    BY <1>3, <2>1, SeqParts
  <2> HIDE DEF r
  <2>3. ASSUME NEW j \in DOMAIN r PROVE InsOK(r[j], n, body)
    <3>1. j \in 1..Len(q) \/ (j - Len(q) \in 1..Len(x) /\ Len(q) + (j - Len(q)) = j)
      BY <2>1, <2>2
    <3>2. CASE j \in 1..Len(q)
      BY <1>3, <2>1, <2>2, <3>2 DEF ListOK
    <3>3. CASE j - Len(q) \in 1..Len(x) /\ Len(q) + (j - Len(q)) = j
      <4>1. r[j] = x[j - Len(q)]
        BY <2>1, <3>3
      <4>2. QED
        BY <2>2, <3>3, <4>1 DEF ListOK
    <3>4. QED
      BY <3>1, <3>2, <3>3
  <2>4. QED
    BY <2>1, <2>3 DEF r, ListOK
<1>7. BlockOK(v, n, body)
  BY <1>3, <1>4, <1>6 DEF BlockOK
<1>8. BlocksIn(b2, n, body)
  <2>1. \A b \in DOMAIN bs : BlockOK(bs[b], n, body)
    BY DEF BlocksIn
  <2>2. \A b \in DOMAIN b2 : BlockOK(b2[b], n, body)
    BY <1>5, <1>7, <2>1
  <2>3. QED
    BY <1>5, <2>2 DEF BlocksIn
<1>9. QED
  BY <1>4, <1>5, <1>8 DEF q, p, b2, Emitted

\* The incoming edges of a block are set.
WithPhi(bs, c, s) == [bs EXCEPT ![c].phi = s]
PhiSet(b2, bs, c, s, n, body) ==
    /\ BlocksIn(b2, n, body) /\ Len(b2) = Len(bs) /\ DOMAIN b2 = DOMAIN bs
    /\ b2[c].ins = bs[c].ins /\ b2[c].phi = s
    /\ \A b \in DOMAIN bs : b # c => b2[b] = bs[b]

LEMMA PhiIs ==
  ASSUME NEW bs, NEW n, NEW body, BlocksIn(bs, n, body), NEW c \in DOMAIN bs,
         NEW s, s \subseteq 1..n
  PROVE  PhiSet(WithPhi(bs, c, s), bs, c, s, n, body)
<1> DEFINE b2 == WithPhi(bs, c, s)
           q == bs[c].ins
           v == [ins |-> q, phi |-> s]
<1>1. IsSeq(bs) /\ BlockOK(bs[c], n, body)
  BY DEF BlocksIn
<1>2. b2 = Replace(bs, c, v)
  <2>1. bs[c] = [ins |-> q, phi |-> bs[c].phi]
    BY <1>1 DEF BlockOK
  <2>2. [bs[c] EXCEPT !.phi = s] = v
    <3> DEFINE z == bs[c]
               f == z.phi
    <3>1. z = [ins |-> q, phi |-> f]
      BY <2>1
    <3> HIDE DEF z, q, f
    <3>2. [z EXCEPT !.phi = s] = [ins |-> q, phi |-> s]
      BY <3>1
    <3>3. QED
      BY <3>2 DEF z
  <2>3. b2 = [bs EXCEPT ![c] = [bs[c] EXCEPT !.phi = s]]
    BY DEF WithPhi
  <2> HIDE DEF v
  <2>4. QED
    BY <2>2, <2>3 DEF Replace
<1>3. ListOK(q, n, body)
  BY <1>1 DEF BlockOK
<1> HIDE DEF q
<1>4. v.ins = q /\ v.phi = s /\ v = [ins |-> v.ins, phi |-> v.phi]
  OBVIOUS
<1> HIDE DEF v, b2
<1>5. /\ IsSeq(b2) /\ Len(b2) = Len(bs) /\ DOMAIN b2 = DOMAIN bs /\ b2[c] = v
      /\ \A b \in DOMAIN bs : b # c => b2[b] = bs[b]
  BY <1>1, <1>2, Replaced DEF IsReplaced
<1>6. BlockOK(v, n, body)
  BY <1>3, <1>4 DEF BlockOK
<1>7. BlocksIn(b2, n, body)
  <2>1. \A b \in DOMAIN bs : BlockOK(bs[b], n, body)
    BY DEF BlocksIn
  <2>2. \A b \in DOMAIN b2 : BlockOK(b2[b], n, body)
    BY <1>5, <1>6, <2>1
  <2>3. QED
    BY <1>5, <2>2 DEF BlocksIn
<1>8. QED
  BY <1>4, <1>5, <1>7 DEF q, b2, PhiSet

\* Blocks are created.
NewOK(new, n, body) == IsSeq(new) /\ \A j \in DOMAIN new : BlockOK(new[j], n, body)
Created(b2, bs, new, n, body) ==
    /\ BlocksIn(b2, n, body) /\ Len(b2) = Len(bs) + Len(new) /\ DOMAIN b2 = 1..Len(b2)
    /\ \A b \in DOMAIN bs : b2[b] = bs[b]
    /\ \A k \in 1..Len(new) : b2[Len(bs) + k] = new[k]

LEMMA CreateIs ==
  ASSUME NEW bs, NEW n, NEW body, BlocksIn(bs, n, body), NEW new, NewOK(new, n, body)
  PROVE  Created(bs \o new, bs, new, n, body)
<1> DEFINE b2 == bs \o new
<1>1. IsSeq(new) /\ \A j \in DOMAIN new : BlockOK(new[j], n, body)
  BY DEF NewOK
<1>2. IsSeq(bs) /\ \A b \in DOMAIN bs : BlockOK(bs[b], n, body)
  BY DEF BlocksIn
<1>3. /\ IsSeq(b2) /\ Len(b2) = Len(bs) + Len(new) /\ \A k \in 1..Len(bs) : b2[k] = bs[k]
      /\ \A k \in 1..Len(new) : b2[Len(bs) + k] = new[k]
  BY <1>1, <1>2, Joined
<1>4. /\ Len(bs) \in Nat /\ Len(new) \in Nat /\ DOMAIN bs = 1..Len(bs) /\ DOMAIN new = 1..Len(new)
      /\ DOMAIN b2 = 1..Len(b2)
  BY <1>1, <1>2, <1>3, SeqParts
<1> HIDE DEF b2
<1>5. ASSUME NEW b \in DOMAIN b2 PROVE BlockOK(b2[b], n, body)
  <2>1. b \in 1..Len(bs) \/ (b - Len(bs) \in 1..Len(new) /\ Len(bs) + (b - Len(bs)) = b)
    BY <1>3, <1>4
  <2>2. CASE b \in 1..Len(bs)
    BY <1>2, <1>3, <1>4, <2>2
  <2>3. CASE b - Len(bs) \in 1..Len(new) /\ Len(bs) + (b - Len(bs)) = b
    <3>1. b2[b] = new[b - Len(bs)]
      BY <1>3, <2>3
    <3>2. QED
      BY <1>1, <1>4, <2>3, <3>1
  <2>4. QED
    BY <2>1, <2>2, <2>3
<1>6. DOMAIN bs \subseteq DOMAIN b2
  BY <1>3, <1>4
<1>7. BlocksIn(b2, n, body)
  BY <1>3, <1>5, <1>6 DEF BlocksIn
<1>8. QED
  BY <1>3, <1>4, <1>7 DEF b2, Created

LEMMA NewBlockIs ==
  /\ NewBlock.ins = <<>> /\ NewBlock.phi = {}
  /\ \A n, body : BlockOK(NewBlock, n, body)
  /\ \A c : [NewBlock EXCEPT !.phi = {c}].ins = <<>> /\ [NewBlock EXCEPT !.phi = {c}].phi = {c}
  /\ \A n, body, c : c \in 1..n => BlockOK([NewBlock EXCEPT !.phi = {c}], n, body)
<1>1. IsSeq(<<>>) /\ DOMAIN <<>> = {}
  BY EmptyIsSeq
<1>2. ASSUME NEW n, NEW body, NEW s, s \subseteq 1..n
      PROVE  BlockOK([ins |-> <<>>, phi |-> s], n, body)
  <2> DEFINE b == [ins |-> <<>>, phi |-> s]
  <2>1. b.ins = <<>> /\ b.phi = s /\ b = [ins |-> b.ins, phi |-> b.phi]
    OBVIOUS
  <2> HIDE DEF b
  <2>2. QED
    BY <1>1, <1>2, <2>1 DEF BlockOK, ListOK, b
<1>3. NewBlock.ins = <<>> /\ NewBlock.phi = {} /\ NewBlock = [ins |-> <<>>, phi |-> {}]
  BY DEF NewBlock
<1>4. \A n, body : BlockOK(NewBlock, n, body)
  BY <1>2, <1>3
<1>5. ASSUME NEW c
      PROVE  /\ [NewBlock EXCEPT !.phi = {c}] = [ins |-> <<>>, phi |-> {c}]
             /\ [NewBlock EXCEPT !.phi = {c}].ins = <<>> /\ [NewBlock EXCEPT !.phi = {c}].phi = {c}
  BY DEF NewBlock
<1>6. ASSUME NEW n, NEW body, NEW c, c \in 1..n
      PROVE  BlockOK([NewBlock EXCEPT !.phi = {c}], n, body)
  <2>1. {c} \subseteq 1..n
    BY <1>6
  <2> DEFINE v == [NewBlock EXCEPT !.phi = {c}]
             u == [ins |-> <<>>, phi |-> {c}]
  <2>2. v = u
    BY <1>5
  <2>3. BlockOK(u, n, body)
    BY <1>2, <2>1
  <2> HIDE DEF u, v
  <2>4. BlockOK(v, n, body)
    BY <2>2, <2>3
  <2>5. QED
    BY <2>4 DEF v
<1>7. QED
  BY <1>3, <1>4, <1>5, <1>6

\* The instructions that are emitted.
LEMMA InstructionsOK ==
  ASSUME NEW n \in Nat, NEW body
  PROVE  /\ \A e : InsOK(Event(e), n, body) /\ ~IsTerminator(Event(e))
         /\ \A v : ~IsTerminator(Store(v)) /\ (Returned(v, body) => InsOK(Store(v), n, body))
         /\ \A b : IsTerminator(Br(b)) /\ Br(b).to = {b} /\ (b \in 1..n => InsOK(Br(b), n, body))
         /\ \A t, e : /\ IsTerminator(CondBr(t, e)) /\ CondBr(t, e).to = {t, e}
                      /\ t \in 1..n /\ e \in 1..n => InsOK(CondBr(t, e), n, body)
         /\ IsTerminator(Ret) /\ Ret.to = {} /\ InsOK(Ret, n, body)
BY DEF InsOK, IsTerminator, Event, Store, Br, CondBr, Ret

LEMMA TargetsInside ==
  ASSUME NEW bs, NEW n, NEW body, BlocksIn(bs, n, body), NEW b \in DOMAIN bs
  PROVE  Targets(bs[b].ins) \subseteq 1..n
<1>1. BlockOK(bs[b], n, body)
  BY DEF BlocksIn
<1>2. \A j \in DOMAIN bs[b].ins : IsTerminator(bs[b].ins[j]) => bs[b].ins[j].to \subseteq 1..n
  BY <1>1 DEF BlockOK, ListOK, InsOK
<1>3. QED
  BY <1>2 DEF Targets

\* Nothing leads to a block that is created later.
LEMMA NoWayToNew ==
  ASSUME NEW bs, NEW n, NEW body, BlocksIn(bs, n, body), NEW pl, pl \subseteq DOMAIN bs,
         NEW b, b \notin 1..n
  PROVE  Preds(bs, pl, b) = {}
BY TargetsInside DEF Preds

-----------------------------------------------------------------------------
(* The walk over the statements.                                            *)

LEMMA NothingOnTop == ASSUME NEW t, IsSeq(t) PROVE <<>> \o t = t
<1> DEFINE S == {t[k] : k \in DOMAIN t}
           e == <<>>
<1>1. t \in Seq(S)
  BY DEF IsSeq
<1> HIDE DEF S
<1>2. QED
  BY <1>1, ConcatEmptySeq

LEMMA ThreeOnTop ==
  ASSUME NEW f, NEW g, NEW h, NEW t, IsSeq(t)
  PROVE  <<f, g, h>> \o t = <<f>> \o (<<g>> \o (<<h>> \o t))
<1>1. <<f, g, h>> = <<f, g>> \o <<h>>
  <2> DEFINE S == {f, g, h}
  <2>1. f \in S /\ g \in S /\ h \in S
    OBVIOUS
  <2> HIDE DEF S
  <2>2. <<f, g>> \in Seq(S) /\ <<h>> \in Seq(S) /\ <<f, g, h>> \in Seq(S)
    BY <2>1
  <2>3. <<f, g>>[1] = f /\ <<f, g>>[2] = g /\ <<h>>[1] = h /\ Len(<<f, g>>) = 2 /\ Len(<<h>>) = 1
    OBVIOUS
  <2>4. /\ <<f, g>> \o <<h>> \in Seq(S) /\ Len(<<f, g>> \o <<h>>) = 3 /\ Len(<<f, g, h>>) = 3
        /\ (<<f, g>> \o <<h>>)[1] = f /\ (<<f, g>> \o <<h>>)[2] = g /\ (<<f, g>> \o <<h>>)[3] = h
    BY <2>2, <2>3
  <2>5. <<f, g, h>>[1] = f /\ <<f, g, h>>[2] = g /\ <<f, g, h>>[3] = h
    OBVIOUS
  <2>6. \A k \in 1..3 : <<f, g, h>>[k] = (<<f, g>> \o <<h>>)[k]
    <3>1. \A k \in 1..3 : k = 1 \/ k = 2 \/ k = 3
      OBVIOUS
    <3>2. QED
      BY <2>4, <2>5, <3>1
  <2>7. QED
    BY <2>2, <2>4, <2>6, SeqEqual
<1>2. (<<f, g>> \o <<h>>) \o t = <<f, g>> \o (<<h>> \o t)
  <2> DEFINE a == <<f, g>>
             b == <<h>>
  <2>1. IsSeq(a) /\ IsSeq(b)
    <3>1. a \in Seq({f, g}) /\ b \in Seq({h})
      OBVIOUS
    <3>2. QED
      BY <3>1, SeqOfAny
  <2> HIDE DEF a, b
  <2>2. (a \o b) \o t = a \o (b \o t)
    BY <2>1, OnTop
  <2>3. QED
    BY <2>2 DEF a, b
<1>3. <<f, g>> \o (<<h>> \o t) = <<f>> \o (<<g>> \o (<<h>> \o t))
  <2> DEFINE u == <<h>> \o t
  <2>1. IsSeq(u)
    BY ConsParts
  <2> HIDE DEF u
  <2>2. <<f, g>> \o u = <<f>> \o (<<g>> \o u)
    BY <2>1, TwoOnTop
  <2>3. QED
    BY <2>2 DEF u
<1>4. QED
  BY <1>1, <1>2, <1>3

\* What is nested in a function is a list of its statements.
LEMMA ListsArePart ==
  ASSUME NEW body, body \in {f.body : f \in Functions}, NEW l \in Lists(body)
  PROVE  Part(l, body) /\ Inner(l) \subseteq Lists(body)
<1>1. IsSeq(l) /\ Inner(l) \subseteq Lists(body)
  BY BodiesAreLists DEF IsSeq
<1>2. QED
  BY <1>1 DEF Part

LEMMA BodyIsPart ==
  ASSUME NEW body, body \in {f.body : f \in Functions}
  PROVE  Part(body, body)
<1>1. body \in Lists(body)
  BY DEF Lists
<1>2. QED
  BY <1>1, ListsArePart

\* A list of statements that is left.
LEMMA TailIsPart ==
  ASSUME NEW ss, NEW body, Part(ss, body), ss # <<>>
  PROVE  /\ Part(Tail(ss), body)
         /\ \E l \in Lists(body) : \E i \in DOMAIN l : Head(ss) = l[i]
<1> DEFINE t == Tail(ss)
<1>1. /\ IsSeq(ss) /\ IsSeq(t) /\ Head(ss) = ss[1] /\ Len(t) = Len(ss) - 1
      /\ ss = <<Head(ss)>> \o t
  BY SeqSplit DEF Part
<1>2. \A k \in 1..Len(t) : ss[k + 1] = t[k]
  BY <1>1, ConsParts
<1>3. /\ Len(ss) \in Nat /\ Len(ss) > 0 /\ DOMAIN ss = 1..Len(ss) /\ DOMAIN t = 1..Len(t)
  BY <1>1, SeqParts
<1> HIDE DEF t
<1>4. 1 \in DOMAIN ss /\ \A k \in DOMAIN t : k + 1 \in DOMAIN ss /\ ss[k + 1] = t[k]
  BY <1>1, <1>2, <1>3
<1>5. QED
  BY <1>1, <1>4 DEF Part, t

\* The statement that is generated: its place in the function, and what it brings.
LEMMA StatementIs ==
  ASSUME IInv, NEW k, AtStatement(k)
  PROVE  LET t == Tail(work)
         IN  /\ phase = "emit" /\ Stmt.k = k
             /\ Shape(blocks, placed, cur, work, func.body)
             /\ work = <<Head(work)>> \o t /\ Calls(t, placed, func.body) /\ t # <<>> /\ IsSeq(t)
             /\ Owed(t) = DOMAIN blocks \ placed
             /\ Part(Tail(Head(work).ss), func.body)
             /\ k \in {"dom", "if", "for"} => Part(Stmt.body, func.body)
             /\ k = "if" => Part(Stmt.other, func.body)
             /\ k = "ret" => Returned(Stmt.v, func.body)
             /\ k = "leave" => ~Plain
             /\ Plain => CallsDrawn(t, blocks, placed)
<1> DEFINE t == Tail(work)
           h == Head(work)
           body == func.body
<1>1. /\ phase = "emit" /\ h.k = "domain" /\ h.ss # <<>> /\ Stmt.k = k /\ Stmt = Head(h.ss)
      /\ Shape(blocks, placed, cur, work, body) /\ body \in {f.body : f \in Functions}
      /\ Plain => CallsDrawn(work, blocks, placed)
  BY DEF IInv, AtStatement, Stmt, Drawn
<1>2. Calls(work, placed, body) /\ work # <<>> /\ Owed(work) = DOMAIN blocks \ placed
  BY <1>1 DEF Shape
<1>3. /\ work = <<h>> \o t /\ Calls(t, placed, body) /\ CallOK(h, placed, body)
      /\ Owed(work) = Owes(h) \union Owed(t) /\ (h.k = "afterFunction" <=> t = <<>>)
  BY <1>2, CallsSplit
<1>4. IsSeq(t)
  BY <1>3 DEF Calls
<1> HIDE DEF t, h, body
<1>5. Owes(h) = {} /\ t # <<>>
  BY <1>1, <1>3 DEF Owes
<1>6. Part(h.ss, body)
  BY <1>1, <1>3 DEF CallOK
<1>7. Part(Tail(h.ss), body) /\ \E l \in Lists(body) : \E i \in DOMAIN l : Stmt = l[i]
  BY <1>1, <1>6, TailIsPart
<1>8. PICK l \in Lists(body) : \E i \in DOMAIN l : Stmt = l[i]
  BY <1>7
<1>9. PICK i \in DOMAIN l : Stmt = l[i]
  BY <1>8
<1>10. k \in {"dom", "if", "for"} => Part(Stmt.body, body)
  <2>1. SUFFICES ASSUME k \in {"dom", "if", "for"} PROVE Part(Stmt.body, body)
    OBVIOUS
  <2>2. Stmt.body \in Inner(l)
    BY <1>1, <1>9, <2>1 DEF Inner
  <2>3. QED
    BY <1>1, <2>2, ListsArePart
<1>11. k = "if" => Part(Stmt.other, body)
  <2>1. SUFFICES ASSUME k = "if" PROVE Part(Stmt.other, body)
    OBVIOUS
  <2>2. Stmt.other \in Inner(l)
    BY <1>1, <1>9, <2>1 DEF Inner
  <2>3. QED
    BY <1>1, <2>2, ListsArePart
<1>12. k = "ret" => Returned(Stmt.v, body)
  BY <1>1, <1>9 DEF Returned
<1>13. k = "leave" => ~Plain
  BY <1>1, <1>9 DEF Plain, Uses, body
<1>14. Plain => CallsDrawn(t, blocks, placed)
  BY <1>1, <1>3, <1>4, DrawnCons
<1>15. QED
  BY <1>1, <1>2, <1>3, <1>4, <1>5, <1>7, <1>10, <1>11, <1>12, <1>13, <1>14 DEF t, h, body

\* The call that goes on: what it is, and what those below it owe.
LEMMA FrameIs ==
  ASSUME IInv, NEW k, AtFrame(k)
  PROVE  LET t == Tail(work)
             h == Head(work)
         IN  /\ phase = "emit" /\ h.k = k
             /\ Shape(blocks, placed, cur, work, func.body)
             /\ work = <<h>> \o t /\ Calls(t, placed, func.body) /\ IsSeq(t)
             /\ k # "afterFunction" <=> t # <<>>
             /\ Owes(h) \union Owed(t) = DOMAIN blocks \ placed /\ Owes(h) \cap Owed(t) = {}
             /\ CallOK(h, placed, func.body)
             /\ Plain => CallsDrawn(t, blocks, placed) /\ CallDrawn(h, blocks, placed)
<1> DEFINE t == Tail(work)
           h == Head(work)
           body == func.body
<1>1. /\ phase = "emit" /\ h.k = k /\ Shape(blocks, placed, cur, work, body)
      /\ Plain => CallsDrawn(work, blocks, placed)
  BY DEF IInv, AtFrame, Drawn
<1>2. Calls(work, placed, body) /\ work # <<>> /\ Owed(work) = DOMAIN blocks \ placed
  BY <1>1 DEF Shape
<1>3. /\ work = <<h>> \o t /\ Calls(t, placed, body) /\ CallOK(h, placed, body)
      /\ Owed(work) = Owes(h) \union Owed(t) /\ Owes(h) \cap Owed(t) = {}
      /\ (h.k = "afterFunction" <=> t = <<>>)
  BY <1>2, CallsSplit
<1>4. IsSeq(t)
  BY <1>3 DEF Calls
<1> HIDE DEF t, h, body
<1>5. Plain => CallsDrawn(t, blocks, placed) /\ CallDrawn(h, blocks, placed)
  BY <1>1, <1>3, <1>4, DrawnCons
<1>6. QED
  BY <1>1, <1>2, <1>3, <1>4, <1>5 DEF t, h, body

LEMMA DomainIs ==
  ASSUME NEW ss
  PROVE  /\ Domain(ss).k = "domain" /\ Domain(ss).ss = ss /\ Owes(Domain(ss)) = {}
         /\ \A pl, body : Part(ss, body) => CallOK(Domain(ss), pl, body)
         /\ \A bs, pl : CallDrawn(Domain(ss), bs, pl)
<1>1. Domain(ss).k = "domain" /\ Domain(ss).ss = ss
  BY DEF Domain
<1>2. QED
  BY <1>1 DEF Owes, CallOK, CallDrawn

\* A step of the walk.
LEMMA Walks ==
  ASSUME IInv, phase = "emit", UNCHANGED <<func, phase, runVars>>,
         Shape(blocks', placed', cur', work', func.body),
         Plain => Drawn(blocks', placed', cur', work')
  PROVE  IInv'
<1>1. /\ func' = func /\ phase' = phase /\ at' = at /\ tests' = tests /\ retValue' = retValue
  BY DEF runVars
<1>2. Plain' = Plain
  BY <1>1 DEF Plain
<1>3. /\ func \in Functions /\ tests \in Seq(BOOLEAN) /\ at = <<EntryBlock, 1>>
      /\ retValue = Undefined \/ Returned(retValue, func.body)
  BY DEF IInv
<1>4. QED
  BY <1>1, <1>2, <1>3 DEF IInv

\* What is left of a domain goes back on the stack.
LEMMA RestOnTop ==
  ASSUME IInv, NEW k, AtStatement(k)
  PROVE  LET w == <<Rest>> \o Tail(work)
         IN  /\ Calls(w, placed, func.body) /\ w # <<>> /\ IsSeq(w)
             /\ Owed(w) = DOMAIN blocks \ placed
             /\ \A bs, pl : CallsDrawn(w, bs, pl) <=> CallsDrawn(Tail(work), bs, pl)
<1> DEFINE t == Tail(work)
           w == <<Rest>> \o t
<1>1. /\ Calls(t, placed, func.body) /\ t # <<>> /\ IsSeq(t) /\ Owed(t) = DOMAIN blocks \ placed
      /\ Part(Tail(Head(work).ss), func.body)
  BY StatementIs
<1>2. /\ CallOK(Rest, placed, func.body) /\ Rest.k = "domain" /\ Owes(Rest) = {}
      /\ \A bs, pl : CallDrawn(Rest, bs, pl)
  BY <1>1, DomainIs DEF Rest
<1> HIDE DEF t
<1>3. Calls(w, placed, func.body) /\ w # <<>> /\ Owed(w) = DOMAIN blocks \ placed
  BY <1>1, <1>2, CallsCons
<1>4. \A bs, pl : CallsDrawn(w, bs, pl) <=> CallsDrawn(t, bs, pl)
  BY <1>1, <1>2, DrawnCons
<1>5. QED
  BY <1>3, <1>4 DEF t, Calls

\* Instructions go to the insert block and the walk goes on behind them.
LEMMA StraightStep ==
  ASSUME IInv, NEW k, AtStatement(k), NEW x, InsOK(x, Len(blocks), func.body),
         Plain => ~IsTerminator(x), blocks' = Emit(blocks, cur, <<x>>), Push(<<Rest>>),
         UNCHANGED <<func, placed, cur, phase, runVars>>
  PROVE  IInv'
<1> DEFINE t == Tail(work)
           w == <<Rest>> \o t
           e == <<x>>
<1>1. /\ phase = "emit" /\ Shape(blocks, placed, cur, work, func.body)
      /\ Plain => CallsDrawn(t, blocks, placed)
  BY StatementIs
<1>2. work' = w /\ placed' = placed /\ cur' = cur
  BY DEF Push
<1>3. /\ Calls(w, placed, func.body) /\ w # <<>> /\ Owed(w) = DOMAIN blocks \ placed
      /\ \A bs, pl : CallsDrawn(w, bs, pl) <=> CallsDrawn(t, bs, pl)
  BY RestOnTop
<1>4. /\ BlocksIn(blocks, Len(blocks), func.body)
      /\ placed \subseteq DOMAIN blocks /\ cur \in placed
      /\ EntryBlock \in placed /\ \A b \in DOMAIN blocks \ placed : blocks[b] = NewBlock
  BY <1>1 DEF Shape, BlocksOK
<1>5. ListOK(e, Len(blocks), func.body)
  BY SingleParts DEF ListOK
<1>6. blocks' = Emit(blocks, cur, e) /\ cur \in DOMAIN blocks
  BY <1>4
<1> HIDE DEF t, w, e
<1>7. Emitted(blocks', blocks, cur, e, Len(blocks), func.body)
  BY <1>4, <1>5, <1>6, EmitIs
<1>8. /\ BlocksIn(blocks', Len(blocks), func.body) /\ Len(blocks') = Len(blocks)
      /\ DOMAIN blocks' = DOMAIN blocks /\ blocks'[cur].ins = blocks[cur].ins \o e
      /\ blocks'[cur].phi = blocks[cur].phi
      /\ \A b \in DOMAIN blocks : b # cur => blocks'[b] = blocks[b]
  BY <1>7 DEF Emitted
<1>9. Shape(blocks', placed', cur', work', func.body)
  BY <1>2, <1>3, <1>4, <1>8 DEF Shape, BlocksOK
<1>10. ASSUME Plain PROVE Drawn(blocks', placed', cur', work')
  <2>1. Drawn(blocks, placed, cur, work)
    BY <1>1, <1>10 DEF IInv
  <2>2. IsSeq(blocks[cur].ins) /\ Open(blocks[cur].ins)
    BY <1>4, <2>1 DEF Drawn, BlocksIn, BlockOK, ListOK
  <2>3. Open(blocks'[cur].ins)
    BY <1>8, <1>10, <2>2, StaysOpen DEF e
  <2>4. \A b \in placed : Targets(blocks'[b].ins) = Targets(blocks[b].ins)
    BY <1>4, <1>8, <2>2, <2>3, OpenLeadsNowhere
  <2>5. \A b : Preds(blocks', placed, b) = Preds(blocks, placed, b)
    BY <2>4 DEF Preds
  <2>6. \A b \in placed : blocks'[b].phi = blocks[b].phi
    BY <1>4, <1>8
  <2>7. \A b \in placed : PhiOK(blocks', placed, b)
    BY <2>1, <2>5, <2>6 DEF Drawn, PhiOK
  <2>8. \A b \in placed \ {cur} : Ended(blocks'[b].ins)
    BY <1>4, <1>8, <2>1 DEF Drawn
  <2>9. CallsDrawn(w, blocks, placed)
    BY <1>1, <1>3, <1>10
  <2>10. CallsDrawn(w, blocks', placed)
    BY <1>3, <2>5, <2>6, <2>9, DrawnStays
  <2>11. QED
    BY <1>2, <2>3, <2>7, <2>8, <2>10 DEF Drawn
<1>11. QED
  BY <1>1, <1>9, <1>10, Walks

LEMMA GenExpressionStep == ASSUME IInv, GenExpression PROVE IInv'
<1>1. /\ AtStatement("exp") /\ blocks' = Emit(blocks, cur, <<Event(Stmt.n)>>) /\ Push(<<Rest>>)
      /\ UNCHANGED <<func, placed, cur, phase, runVars>>
  BY DEF GenExpression
<1>2. InsOK(Event(Stmt.n), Len(blocks), func.body) /\ ~IsTerminator(Event(Stmt.n))
  BY DEF InsOK, IsTerminator, Event
<1>3. QED
  BY <1>1, <1>2, StraightStep

LEMMA GenReturnValueStep == ASSUME IInv, GenReturnValue PROVE IInv'
<1>1. /\ AtStatement("ret") /\ blocks' = Emit(blocks, cur, <<Store(Stmt.v)>>) /\ Push(<<Rest>>)
      /\ UNCHANGED <<func, placed, cur, phase, runVars>>
  BY DEF GenReturnValue
<1>2. Returned(Stmt.v, func.body)
  BY <1>1, StatementIs
<1>3. InsOK(Store(Stmt.v), Len(blocks), func.body) /\ ~IsTerminator(Store(Stmt.v))
  BY <1>2 DEF InsOK, IsTerminator, Store
<1>4. QED
  BY <1>1, <1>3, StraightStep

LEMMA GenReturnVoidStep == ASSUME IInv, GenReturnVoid PROVE IInv'
<1>1. /\ AtStatement("leave") /\ blocks' = Emit(blocks, cur, <<Br(ExitBlock)>>) /\ Push(<<Rest>>)
      /\ UNCHANGED <<func, placed, cur, phase, runVars>>
  BY DEF GenReturnVoid
<1>2. ~Plain /\ Shape(blocks, placed, cur, work, func.body)
  BY <1>1, StatementIs
<1>3. BlocksIn(blocks, Len(blocks), func.body)
  BY <1>2 DEF Shape, BlocksOK
<1>4. ExitBlock \in 1..Len(blocks) /\ Len(blocks) \in Nat
  BY <1>3, BlocksParts
<1>5. InsOK(Br(ExitBlock), Len(blocks), func.body)
  BY <1>4, InstructionsOK
<1>6. QED
  BY <1>1, <1>2, <1>5, StraightStep

\* Only the stack of calls changes.
LEMMA CallStep ==
  ASSUME IInv, phase = "emit", UNCHANGED <<func, blocks, placed, cur, phase, runVars>>,
         Shape(blocks, placed, cur, work, func.body),
         Calls(work', placed, func.body), work' # <<>>, Owed(work') = DOMAIN blocks \ placed,
         Plain => CallsDrawn(work', blocks, placed)
  PROVE  IInv'
<1>1. blocks' = blocks /\ placed' = placed /\ cur' = cur
  OBVIOUS
<1>2. Shape(blocks', placed', cur', work', func.body)
  BY <1>1 DEF Shape
<1>3. ASSUME Plain PROVE Drawn(blocks', placed', cur', work')
  <2>1. Drawn(blocks, placed, cur, work)
    BY <1>3 DEF IInv
  <2>2. QED
    BY <1>1, <1>3, <2>1 DEF Drawn
<1>4. QED
  BY <1>2, <1>3, Walks

LEMMA GenDomainStep == ASSUME IInv, GenDomain PROVE IInv'
<1> DEFINE g == Domain(Stmt.body)
           w == <<Rest>> \o Tail(work)
<1>1. AtStatement("dom") /\ UNCHANGED <<func, blocks, placed, cur, phase, runVars>>
  BY DEF GenDomain
<1>2. /\ phase = "emit" /\ Shape(blocks, placed, cur, work, func.body) /\ IsSeq(Tail(work))
      /\ Part(Stmt.body, func.body) /\ (Plain => CallsDrawn(Tail(work), blocks, placed))
  BY <1>1, StatementIs
<1>3. /\ Calls(w, placed, func.body) /\ w # <<>> /\ IsSeq(w) /\ Owed(w) = DOMAIN blocks \ placed
      /\ \A bs, pl : CallsDrawn(w, bs, pl) <=> CallsDrawn(Tail(work), bs, pl)
  BY <1>1, RestOnTop
<1>4. /\ CallOK(g, placed, func.body) /\ g.k = "domain" /\ Owes(g) = {}
      /\ \A bs, pl : CallDrawn(g, bs, pl)
  BY <1>2, DomainIs
<1>5. work' = <<g>> \o w
  BY <1>2, TwoOnTop DEF GenDomain, Push
<1> HIDE DEF g, w
<1>6. Calls(work', placed, func.body) /\ work' # <<>> /\ Owed(work') = DOMAIN blocks \ placed
  BY <1>3, <1>4, <1>5, CallsCons
<1>7. Plain => CallsDrawn(work', blocks, placed)
  BY <1>2, <1>3, <1>4, <1>5, DrawnCons
<1>8. QED
  BY <1>1, <1>2, <1>6, <1>7, CallStep

LEMMA EndDomainStep == ASSUME IInv, EndDomain PROVE IInv'
<1> DEFINE t == Tail(work)
<1>1. AtFrame("domain") /\ UNCHANGED <<func, blocks, placed, cur, phase, runVars>>
  BY DEF EndDomain
<1>2. /\ phase = "emit" /\ Shape(blocks, placed, cur, work, func.body)
      /\ Calls(t, placed, func.body)
      /\ IsSeq(t) /\ t # <<>> /\ Head(work).k = "domain"
      /\ Owes(Head(work)) \union Owed(t) = DOMAIN blocks \ placed
      /\ Plain => CallsDrawn(t, blocks, placed)
  BY <1>1, FrameIs
<1>3. work' = t
  BY <1>2, NothingOnTop DEF EndDomain, Push
<1>4. Owed(t) = DOMAIN blocks \ placed
  BY <1>2 DEF Owes
<1>5. QED
  BY <1>1, <1>2, <1>3, <1>4, CallStep

\* The insert block gets its end, and the walk goes on in a block that is placed now.
Turns(bs, pl, c, bs2, x) ==
    /\ c \in pl /\ x \notin pl
    /\ \A b \in pl \ {c} : bs2[b].ins = bs[b].ins
    /\ Ended(bs2[c].ins) /\ bs2[x].ins = <<>>

Turned(bs, pl, c, bs2, x, pl2) ==
    /\ \A b : b \notin Targets(bs2[c].ins) => Preds(bs2, pl2, b) = Preds(bs, pl, b)
    /\ \A b \in Targets(bs2[c].ins) : Preds(bs2, pl2, b) = Preds(bs, pl, b) \union {c}
    /\ \A b \in pl2 \ {x} : Ended(bs2[b].ins)
    /\ Open(bs2[x].ins)

LEMMA Closes ==
  ASSUME NEW bs, NEW pl, NEW c, NEW w, Drawn(bs, pl, c, w), NEW bs2, NEW x,
         Turns(bs, pl, c, bs2, x)
  PROVE  Turned(bs, pl, c, bs2, x, pl \union {x})
<1> DEFINE pl2 == pl \union {x}
           to  == Targets(bs2[c].ins)
<1>1. /\ c \in pl /\ x \notin pl /\ \A b \in pl \ {c} : bs2[b].ins = bs[b].ins
      /\ Ended(bs2[c].ins) /\ bs2[x].ins = <<>>
  BY DEF Turns
<1>2. Targets(bs[c].ins) = {}
  BY OpenLeadsNowhere DEF Drawn
<1>3. Open(bs2[x].ins) /\ Targets(bs2[x].ins) = {}
  BY <1>1, EmptyParts
<1>4. \A b \in pl2 \ {x} : Ended(bs2[b].ins)
  BY <1>1 DEF Drawn
<1>5. \A b : Preds(bs2, pl2, b) = {p \in pl \ {c} : b \in Targets(bs[p].ins)}
                                    \union {p \in {c} : b \in to}
  BY <1>1, <1>3 DEF Preds
<1>6. \A b : Preds(bs, pl, b) = {p \in pl \ {c} : b \in Targets(bs[p].ins)}
  BY <1>1, <1>2 DEF Preds
<1>7. QED
  BY <1>1, <1>3, <1>4, <1>5, <1>6 DEF Turned

LEMMA GenIfStep == ASSUME IInv, GenIf PROVE IInv'
<1> DEFINE n == Len(blocks)
           p == n + 1
           e == n + 2
           m == n + 3
           new == <<NewBlock, NewBlock, NewBlock>>
           x == <<CondBr(p, e)>>
           mid == Emit(blocks, cur, x)
           t == Tail(work)
           r == <<Rest>> \o t
           g == AfterThen(Stmt.other, e, m)
           d == Domain(Stmt.body)
           u == <<g>> \o r
           body == func.body
<1>1. /\ AtStatement("if") /\ blocks' = mid \o new /\ placed' = placed \union {p} /\ cur' = p
      /\ Push(<<d, g, Rest>>) /\ UNCHANGED <<func, phase, runVars>>
  BY DEF GenIf
<1>2. /\ phase = "emit" /\ Shape(blocks, placed, cur, work, body) /\ IsSeq(t)
      /\ Part(Stmt.body, body) /\ Part(Stmt.other, body)
      /\ (Plain => CallsDrawn(t, blocks, placed))
  BY <1>1, StatementIs
<1>3. /\ BlocksIn(blocks, n, body) /\ placed \subseteq DOMAIN blocks /\ cur \in placed
      /\ EntryBlock \in placed /\ \A b \in DOMAIN blocks \ placed : blocks[b] = NewBlock
  BY <1>2 DEF Shape, BlocksOK
<1>4. n \in Nat /\ DOMAIN blocks = 1..n /\ cur \in DOMAIN blocks
  BY <1>3, BlocksParts
<1>5. work' = <<d>> \o u
  BY <1>1, <1>2, ThreeOnTop DEF Push
<1>6. /\ Calls(r, placed, body) /\ r # <<>> /\ IsSeq(r) /\ Owed(r) = DOMAIN blocks \ placed
      /\ \A bs, pl : CallsDrawn(r, bs, pl) <=> CallsDrawn(t, bs, pl)
  BY <1>1, RestOnTop
<1>7. /\ d.k = "domain" /\ Owes(d) = {} /\ CallOK(d, placed', body)
      /\ \A bs, pl : CallDrawn(d, bs, pl)
  BY <1>2, DomainIs
<1>8. /\ p \in Nat /\ e \in Nat /\ m \in Nat /\ p \notin 1..n /\ e \notin 1..n /\ m \notin 1..n
      /\ 1..m = 1..n \union {p, e, m} /\ p # e /\ e # m /\ p # m /\ n <= m
      /\ n + 1 = p /\ n + 2 = e /\ n + 3 = m
  BY <1>4
<1>9. /\ g.k = "afterThen" /\ g.ss = Stmt.other /\ g.else = e /\ g.merge = m
  BY DEF AfterThen
<1>10. IsSeq(new) /\ Len(new) = 3 /\ new[1] = NewBlock /\ new[2] = NewBlock /\ new[3] = NewBlock
       /\ DOMAIN new = 1..3
  <2>1. new \in Seq({NewBlock})
    OBVIOUS
  <2>2. IsSeq(new)
    BY <2>1, SeqOfAny
  <2>3. QED
    BY <2>2
<1>11. IsSeq(x) /\ DOMAIN x = {1} /\ x[1] = CondBr(p, e)
  BY SingleParts
<1>12. CondBr(p, e).to = {p, e} /\ IsTerminator(CondBr(p, e)) /\ InsOK(CondBr(p, e), m, body)
  BY <1>8, InstructionsOK
<1> HIDE DEF n, p, e, m, new, x, mid, t, r, g, d, u, body
<1>13. BlocksIn(blocks, m, body)
  BY <1>3, <1>4, <1>8, BlocksWider
<1>14. /\ BlocksIn(mid, m, body) /\ Len(mid) = n /\ DOMAIN mid = DOMAIN blocks
       /\ mid[cur].ins = blocks[cur].ins \o x /\ mid[cur].phi = blocks[cur].phi
       /\ \A b \in DOMAIN blocks : b # cur => mid[b] = blocks[b]
  <2>1. ListOK(x, m, body)
    BY <1>11, <1>12 DEF ListOK
  <2>2. mid = Emit(blocks, cur, x)
    BY DEF mid
  <2>3. Emitted(mid, blocks, cur, x, m, body)
    BY <1>4, <1>13, <2>1, <2>2, EmitIs
  <2>4. QED
    BY <1>11, <2>3 DEF n, Emitted
<1>15. NewOK(new, m, body)
  <2>1. \A j \in 1..3 : j = 1 \/ j = 2 \/ j = 3
    OBVIOUS
  <2>2. QED
    BY <1>10, <2>1, NewBlockIs DEF NewOK
<1>16. /\ BlocksIn(blocks', m, body) /\ Len(blocks') = m /\ DOMAIN blocks' = 1..m
       /\ \A b \in DOMAIN blocks : blocks'[b] = mid[b]
       /\ blocks'[p] = NewBlock /\ blocks'[e] = NewBlock /\ blocks'[m] = NewBlock
  <2>1. Created(blocks', mid, new, m, body)
    BY <1>1, <1>14, <1>15, CreateIs
  <2>2. /\ BlocksIn(blocks', m, body) /\ Len(blocks') = Len(mid) + Len(new)
        /\ DOMAIN blocks' = 1..Len(blocks')
        /\ \A b \in DOMAIN mid : blocks'[b] = mid[b]
        /\ \A k \in 1..Len(new) : blocks'[Len(mid) + k] = new[k]
    BY <2>1 DEF Created
  <2>3. blocks'[n + 1] = new[1] /\ blocks'[n + 2] = new[2] /\ blocks'[n + 3] = new[3]
    <3>1. 1 \in 1..3 /\ 2 \in 1..3 /\ 3 \in 1..3
      OBVIOUS
    <3>2. QED
      BY <1>10, <1>14, <2>2, <3>1
  <2>4. QED
    BY <1>1, <1>8, <1>10, <1>14, <2>2, <2>3
<1>17. /\ blocks'[cur].ins = blocks[cur].ins \o x /\ blocks'[cur].phi = blocks[cur].phi
       /\ \A b \in placed \ {cur} : blocks'[b] = blocks[b]
       /\ \A b \in DOMAIN blocks' \ placed : blocks'[b] = NewBlock
  <2>1. \A b \in DOMAIN blocks : b # cur => blocks'[b] = blocks[b]
    BY <1>14, <1>16
  <2>2. \A b \in DOMAIN blocks' : b \in DOMAIN blocks \/ b = p \/ b = e \/ b = m
    BY <1>4, <1>8, <1>16
  <2>3. QED
    BY <1>3, <1>4, <1>14, <1>16, <2>1, <2>2
<1>18. Owes(g) = {e, m} /\ CallOK(g, placed', body)
  BY <1>2, <1>8, <1>9 DEF Owes, CallOK
<1>19. Calls(r, placed', body)
  BY <1>1, <1>6, CallsGrow
<1>20. /\ Calls(u, placed', body) /\ u # <<>> /\ IsSeq(u)
       /\ Owed(u) = {e, m} \union (DOMAIN blocks \ placed)
  <2>1. Owes(g) \cap Owed(r) = {}
    BY <1>4, <1>6, <1>8, <1>18
  <2>2. Calls(u, placed', body) /\ u # <<>> /\ Owed(u) = Owes(g) \union Owed(r)
    BY <1>6, <1>9, <1>18, <1>19, <2>1, CallsCons DEF u
  <2>3. QED
    BY <1>6, <1>18, <2>2 DEF Calls
<1>21. /\ Calls(work', placed', body) /\ work' # <<>>
       /\ Owed(work') = {e, m} \union (DOMAIN blocks \ placed)
  BY <1>5, <1>7, <1>20, CallsCons
<1>22. Shape(blocks', placed', cur', work', body)
  <2>1. BlocksOK(blocks', body)
    BY <1>16 DEF BlocksOK
  <2>2. placed' \subseteq DOMAIN blocks' /\ EntryBlock \in placed' /\ cur' \in placed'
    BY <1>1, <1>3, <1>4, <1>8, <1>16
  <2>3. Owed(work') = DOMAIN blocks' \ placed'
    BY <1>1, <1>3, <1>4, <1>8, <1>16, <1>21
  <2>4. QED
    BY <1>1, <1>17, <1>21, <2>1, <2>2, <2>3 DEF Shape
<1>23. ASSUME Plain PROVE Drawn(blocks', placed', cur', work')
  <2>1. Drawn(blocks, placed, cur, work)
    BY <1>2, <1>23 DEF IInv
  <2>2. IsSeq(blocks[cur].ins) /\ Open(blocks[cur].ins)
    BY <1>3, <1>4, <2>1 DEF Drawn, BlocksIn, BlockOK, ListOK
  <2>3. Ended(blocks'[cur].ins) /\ Targets(blocks'[cur].ins) = {p, e}
    BY <1>12, <1>17, <2>2, IsEnded DEF x
  <2>4. blocks'[p].ins = <<>> /\ blocks'[p].phi = {} /\ p \notin placed
    BY <1>3, <1>4, <1>8, <1>16, NewBlockIs
  <2>5. \A b \in placed \ {cur} : blocks'[b].ins = blocks[b].ins
    BY <1>17
  <2>6. /\ \A b : b \notin Targets(blocks'[cur].ins) =>
                Preds(blocks', placed', b) = Preds(blocks, placed, b)
        /\ \A b \in placed' \ {p} : Ended(blocks'[b].ins)
        /\ Open(blocks'[p].ins)
    <3>1. Turns(blocks, placed, cur, blocks', p)
      BY <1>3, <2>3, <2>4, <2>5 DEF Turns
    <3>2. Turned(blocks, placed, cur, blocks', p, placed')
      BY <1>1, <2>1, <3>1, Closes
    <3>3. QED
      BY <3>2 DEF Turned
  <2>7. \A b \in placed : blocks'[b].phi = blocks[b].phi /\ b \notin {p, e}
    BY <1>3, <1>4, <1>8, <1>17
  <2>8. \A b \in placed' : PhiOK(blocks', placed', b)
    BY <1>1, <2>1, <2>3, <2>4, <2>6, <2>7 DEF Drawn, PhiOK
  <2>9. CallsDrawn(r, blocks', placed')
    <3>1. \A b \in Owed(r) : Preds(blocks', placed', b) = Preds(blocks, placed, b)
      BY <1>4, <1>6, <1>8, <2>3, <2>6
    <3>2. CallsDrawn(r, blocks, placed)
      BY <1>2, <1>6, <1>23
    <3>3. QED
      BY <1>6, <2>7, <3>1, <3>2, DrawnStays
  <2>10. CallDrawn(g, blocks', placed')
    <3>1. Preds(blocks, placed, m) = {}
      BY <1>3, <1>8, NoWayToNew
    <3>2. Preds(blocks', placed', m) = {}
      BY <1>8, <2>3, <2>6, <3>1
    <3>3. QED
      BY <1>9, <3>2 DEF CallDrawn
  <2>11. CallsDrawn(u, blocks', placed')
    BY <1>6, <2>9, <2>10, DrawnCons DEF u
  <2>12. CallsDrawn(work', blocks', placed')
    BY <1>5, <1>7, <1>20, <2>11, DrawnCons
  <2>13. QED
    BY <1>1, <2>6, <2>8, <2>12 DEF Drawn
<1>24. QED
  BY <1>1, <1>2, <1>22, <1>23, Walks DEF body

LEMMA GenElseStep == ASSUME IInv, GenElse PROVE IInv'
<1> DEFINE f == Head(work)
           t == Tail(work)
           n == Len(blocks)
           e == f.else
           m == f.merge
           x == <<Br(m)>>
           d == Domain(f.ss)
           g == AfterElse(cur, m)
           u == <<g>> \o t
           body == func.body
<1>1. /\ AtFrame("afterThen") /\ blocks' = Emit(blocks, cur, x) /\ placed' = placed \union {e}
      /\ cur' = e /\ Push(<<d, g>>) /\ UNCHANGED <<func, phase, runVars>>
  BY DEF GenElse
<1>2. /\ phase = "emit" /\ f.k = "afterThen" /\ Shape(blocks, placed, cur, work, body)
      /\ Calls(t, placed, body) /\ t # <<>> /\ IsSeq(t)
      /\ Owes(f) \union Owed(t) = DOMAIN blocks \ placed /\ Owes(f) \cap Owed(t) = {}
      /\ CallOK(f, placed, body)
      /\ (Plain => CallsDrawn(t, blocks, placed) /\ CallDrawn(f, blocks, placed))
  <2> HIDE DEF n, e, m, x, d, g, u
  <2>1. QED
    BY <1>1, FrameIs
<1>3. /\ BlocksIn(blocks, n, body) /\ placed \subseteq DOMAIN blocks /\ cur \in placed
      /\ EntryBlock \in placed /\ \A b \in DOMAIN blocks \ placed : blocks[b] = NewBlock
  BY <1>2 DEF Shape, BlocksOK
<1>4. n \in Nat /\ DOMAIN blocks = 1..n /\ cur \in DOMAIN blocks
  BY <1>3, BlocksParts
<1>5. work' = <<d>> \o u
  BY <1>1, <1>2, TwoOnTop DEF Push
<1>6. Owes(f) = {e, m} /\ Part(f.ss, body) /\ e # m
  BY <1>2 DEF Owes, CallOK
<1>7. /\ d.k = "domain" /\ Owes(d) = {} /\ CallOK(d, placed', body)
      /\ \A bs, pl : CallDrawn(d, bs, pl)
  BY <1>6, DomainIs
<1>8. g.k = "afterElse" /\ g.then = cur /\ g.merge = m /\ Owes(g) = {m} /\ CallOK(g, placed', body)
  <2>1. cur \in placed'
    BY <1>1, <1>3
  <2>2. g.k = "afterElse" /\ g.then = cur /\ g.merge = m
    BY DEF AfterElse
  <2> HIDE DEF g
  <2>3. QED
    BY <2>1, <2>2 DEF Owes, CallOK
<1>9. IsSeq(x) /\ DOMAIN x = {1} /\ x[1] = Br(m)
  BY SingleParts
<1> HIDE DEF f, t, n, e, m, x, d, g, u, body
<1>10. /\ e \in DOMAIN blocks /\ m \in DOMAIN blocks /\ e \notin placed /\ m \notin placed
       /\ e \notin Owed(t) /\ m \notin Owed(t) /\ Owed(t) = (DOMAIN blocks \ placed) \ {e, m}
       /\ blocks[e] = NewBlock
  BY <1>2, <1>3, <1>6
<1>11. Br(m).to = {m} /\ IsTerminator(Br(m)) /\ InsOK(Br(m), n, body)
  BY <1>4, <1>10, InstructionsOK
<1>12. /\ BlocksIn(blocks', n, body) /\ Len(blocks') = n /\ DOMAIN blocks' = DOMAIN blocks
       /\ blocks'[cur].ins = blocks[cur].ins \o x /\ blocks'[cur].phi = blocks[cur].phi
       /\ \A b \in DOMAIN blocks : b # cur => blocks'[b] = blocks[b]
  <2>1. ListOK(x, n, body)
    BY <1>9, <1>11 DEF ListOK
  <2>2. Emitted(blocks', blocks, cur, x, n, body)
    BY <1>1, <1>3, <1>4, <2>1, EmitIs
  <2>3. QED
    BY <2>2 DEF n, Emitted
<1>13. Calls(t, placed', body)
  BY <1>1, <1>2, CallsGrow
<1>14. Calls(u, placed', body) /\ u # <<>> /\ IsSeq(u) /\ Owed(u) = {m} \union Owed(t)
  <2>1. Owes(g) \cap Owed(t) = {}
    BY <1>8, <1>10
  <2>2. Calls(u, placed', body) /\ u # <<>> /\ Owed(u) = Owes(g) \union Owed(t)
    BY <1>2, <1>8, <1>13, <2>1, CallsCons DEF u
  <2>3. QED
    BY <1>8, <2>2 DEF Calls
<1>15. Calls(work', placed', body) /\ work' # <<>> /\ Owed(work') = {m} \union Owed(t)
  <2>1. Owes(d) \cap Owed(u) = {} /\ d.k # "afterFunction"
    BY <1>7
  <2>2. Calls(work', placed', body) /\ work' # <<>> /\ Owed(work') = Owes(d) \union Owed(u)
    BY <1>5, <1>7, <1>14, <2>1, CallsCons
  <2>3. QED
    BY <1>7, <1>14, <2>2
<1>16. Shape(blocks', placed', cur', work', body)
  <2>1. BlocksOK(blocks', body)
    BY <1>12 DEF BlocksOK
  <2>2. placed' \subseteq DOMAIN blocks' /\ EntryBlock \in placed' /\ cur' \in placed'
    BY <1>1, <1>3, <1>10, <1>12
  <2>3. Owed(work') = DOMAIN blocks' \ placed'
    BY <1>1, <1>6, <1>10, <1>12, <1>15
  <2>4. \A b \in DOMAIN blocks' \ placed' : blocks'[b] = NewBlock
    BY <1>1, <1>3, <1>12
  <2>5. QED
    BY <1>15, <2>1, <2>2, <2>3, <2>4 DEF Shape
<1>17. ASSUME Plain PROVE Drawn(blocks', placed', cur', work')
  <2>1. Drawn(blocks, placed, cur, work)
    BY <1>2, <1>17 DEF IInv
  <2>2. IsSeq(blocks[cur].ins) /\ Open(blocks[cur].ins)
    BY <1>3, <1>4, <2>1 DEF Drawn, BlocksIn, BlockOK, ListOK
  <2>3. Ended(blocks'[cur].ins) /\ Targets(blocks'[cur].ins) = {m}
    BY <1>11, <1>12, <2>2, IsEnded DEF x
  <2>4. blocks'[e].ins = <<>> /\ blocks'[e].phi = {}
    BY <1>3, <1>10, <1>12, NewBlockIs
  <2>5. \A b \in placed \ {cur} : blocks'[b].ins = blocks[b].ins
    BY <1>3, <1>12
  <2>6. /\ \A b : b # m => Preds(blocks', placed', b) = Preds(blocks, placed, b)
        /\ Preds(blocks', placed', m) = Preds(blocks, placed, m) \union {cur}
        /\ \A b \in placed' \ {e} : Ended(blocks'[b].ins)
        /\ Open(blocks'[e].ins)
    <3>1. Turns(blocks, placed, cur, blocks', e)
      BY <1>3, <1>10, <2>3, <2>4, <2>5 DEF Turns
    <3>2. Turned(blocks, placed, cur, blocks', e, placed')
      BY <1>1, <2>1, <3>1, Closes
    <3>3. QED
      BY <2>3, <3>2 DEF Turned
  <2>7. \A b \in placed : blocks'[b].phi = blocks[b].phi /\ b # m
    BY <1>3, <1>10, <1>12
  <2>8. \A b \in placed' : PhiOK(blocks', placed', b)
    BY <1>1, <2>1, <2>4, <2>6, <2>7 DEF Drawn, PhiOK
  <2>9. CallsDrawn(t, blocks', placed')
    <3>1. \A b \in Owed(t) : Preds(blocks', placed', b) = Preds(blocks, placed, b)
      BY <1>10, <2>6
    <3>2. QED
      BY <1>2, <1>17, <2>7, <3>1, DrawnStays
  <2>10. CallDrawn(g, blocks', placed')
    <3>1. Preds(blocks, placed, m) = {}
      BY <1>2, <1>17 DEF CallDrawn, m
    <3>2. Preds(blocks', placed', m) = {cur}
      BY <2>6, <3>1
    <3>3. QED
      BY <1>8, <3>2 DEF CallDrawn
  <2>11. CallsDrawn(u, blocks', placed')
    BY <1>2, <2>9, <2>10, DrawnCons DEF u
  <2>12. CallsDrawn(work', blocks', placed')
    BY <1>5, <1>7, <1>14, <2>11, DrawnCons
  <2>13. QED
    BY <1>1, <2>6, <2>8, <2>12 DEF Drawn
<1>18. QED
  BY <1>1, <1>2, <1>16, <1>17, Walks DEF body

LEMMA GenMergeStep == ASSUME IInv, GenMerge PROVE IInv'
<1> DEFINE f == Head(work)
           t == Tail(work)
           n == Len(blocks)
           m == f.merge
           x == <<Br(m)>>
           s == {f.then, cur}
           mid == Emit(blocks, cur, x)
           body == func.body
<1>1. /\ AtFrame("afterElse") /\ blocks' = WithPhi(mid, m, s) /\ placed' = placed \union {m}
      /\ cur' = m /\ Push(<<>>) /\ UNCHANGED <<func, phase, runVars>>
  BY DEF GenMerge, WithPhi
<1>2. /\ phase = "emit" /\ f.k = "afterElse" /\ Shape(blocks, placed, cur, work, body)
      /\ Calls(t, placed, body) /\ t # <<>> /\ IsSeq(t)
      /\ Owes(f) \union Owed(t) = DOMAIN blocks \ placed /\ Owes(f) \cap Owed(t) = {}
      /\ CallOK(f, placed, body)
      /\ (Plain => CallsDrawn(t, blocks, placed) /\ CallDrawn(f, blocks, placed))
  <2> HIDE DEF n, m, x, s, mid
  <2>1. QED
    BY <1>1, FrameIs
<1>3. /\ BlocksIn(blocks, n, body) /\ placed \subseteq DOMAIN blocks /\ cur \in placed
      /\ EntryBlock \in placed /\ \A b \in DOMAIN blocks \ placed : blocks[b] = NewBlock
  BY <1>2 DEF Shape, BlocksOK
<1>4. n \in Nat /\ DOMAIN blocks = 1..n /\ cur \in DOMAIN blocks
  BY <1>3, BlocksParts
<1>5. work' = t
  BY <1>1, <1>2, NothingOnTop DEF Push
<1>6. Owes(f) = {m} /\ f.then \in placed
  BY <1>2 DEF Owes, CallOK
<1>7. IsSeq(x) /\ DOMAIN x = {1} /\ x[1] = Br(m)
  BY SingleParts
<1>8. /\ s \subseteq 1..n /\ s = {f.then, cur} /\ s # {}
  BY <1>3, <1>4, <1>6
<1>9. Plain => Preds(blocks, placed, m) = {f.then}
  BY <1>2 DEF CallDrawn
<1>10. mid = Emit(blocks, cur, x)
  OBVIOUS
<1> HIDE DEF f, t, n, m, x, s, mid, body
<1>11. /\ m \in DOMAIN blocks /\ m \notin placed /\ m # cur
       /\ m \notin Owed(t) /\ Owed(t) = (DOMAIN blocks \ placed) \ {m}
       /\ blocks[m] = NewBlock
  BY <1>2, <1>3, <1>6
<1>12. Br(m).to = {m} /\ IsTerminator(Br(m)) /\ InsOK(Br(m), n, body)
  BY <1>4, <1>11, InstructionsOK
<1>13. /\ BlocksIn(mid, n, body) /\ Len(mid) = n /\ DOMAIN mid = DOMAIN blocks
       /\ mid[cur].ins = blocks[cur].ins \o x /\ mid[cur].phi = blocks[cur].phi
       /\ \A b \in DOMAIN blocks : b # cur => mid[b] = blocks[b]
  <2>1. ListOK(x, n, body)
    BY <1>7, <1>12 DEF ListOK
  <2>2. Emitted(mid, blocks, cur, x, n, body)
    BY <1>10, <1>3, <1>4, <2>1, EmitIs
  <2>3. QED
    BY <2>2 DEF n, Emitted
<1>14. /\ BlocksIn(blocks', n, body) /\ Len(blocks') = n /\ DOMAIN blocks' = DOMAIN blocks
       /\ blocks'[m].ins = mid[m].ins /\ blocks'[m].phi = s
       /\ \A b \in DOMAIN blocks : b # m => blocks'[b] = mid[b]
  <2>1. m \in DOMAIN mid
    BY <1>11, <1>13
  <2>2. PhiSet(blocks', mid, m, s, n, body)
    BY <1>1, <1>8, <1>13, <2>1, PhiIs
  <2>3. QED
    BY <1>13, <2>2 DEF PhiSet
<1>15. Calls(t, placed', body)
  BY <1>1, <1>2, CallsGrow
<1>16. Shape(blocks', placed', cur', work', body)
  <2>1. BlocksOK(blocks', body)
    BY <1>14 DEF BlocksOK
  <2>2. placed' \subseteq DOMAIN blocks' /\ EntryBlock \in placed' /\ cur' \in placed'
    BY <1>1, <1>3, <1>11, <1>14
  <2>3. Owed(work') = DOMAIN blocks' \ placed'
    BY <1>1, <1>5, <1>11, <1>14
  <2>4. \A b \in DOMAIN blocks' \ placed' : blocks'[b] = NewBlock
    BY <1>1, <1>3, <1>13, <1>14
  <2>5. QED
    BY <1>2, <1>5, <1>15, <2>1, <2>2, <2>3, <2>4 DEF Shape
<1>17. ASSUME Plain PROVE Drawn(blocks', placed', cur', work')
  <2>1. Drawn(blocks, placed, cur, work)
    BY <1>2, <1>17 DEF IInv
  <2>2. IsSeq(blocks[cur].ins) /\ Open(blocks[cur].ins)
    BY <1>3, <1>4, <2>1 DEF Drawn, BlocksIn, BlockOK, ListOK
  <2>3. Ended(blocks'[cur].ins) /\ Targets(blocks'[cur].ins) = {m}
    <3>1. blocks'[cur].ins = blocks[cur].ins \o <<Br(m)>>
      BY <1>4, <1>11, <1>13, <1>14 DEF x
    <3>2. QED
      BY <1>12, <2>2, <3>1, IsEnded
  <2>4. blocks'[m].ins = <<>> /\ blocks'[m].phi = s
    BY <1>3, <1>11, <1>13, <1>14, NewBlockIs
  <2>5. \A b \in placed \ {cur} : blocks'[b].ins = blocks[b].ins
    BY <1>3, <1>11, <1>13, <1>14
  <2>6. /\ \A b : b # m => Preds(blocks', placed', b) = Preds(blocks, placed, b)
        /\ Preds(blocks', placed', m) = Preds(blocks, placed, m) \union {cur}
        /\ \A b \in placed' \ {m} : Ended(blocks'[b].ins)
        /\ Open(blocks'[m].ins)
    <3>1. Turns(blocks, placed, cur, blocks', m)
      BY <1>3, <1>11, <2>3, <2>4, <2>5 DEF Turns
    <3>2. Turned(blocks, placed, cur, blocks', m, placed')
      BY <1>1, <2>1, <3>1, Closes
    <3>3. QED
      BY <2>3, <3>2 DEF Turned
  <2>7. \A b \in placed : blocks'[b].phi = blocks[b].phi /\ b # m
    BY <1>3, <1>11, <1>13, <1>14
  <2>8. Preds(blocks', placed', m) = s
    BY <1>8, <1>9, <1>17, <2>6
  <2>9. \A b \in placed' : PhiOK(blocks', placed', b)
    BY <1>1, <2>1, <2>4, <2>6, <2>7, <2>8 DEF Drawn, PhiOK
  <2>10. CallsDrawn(t, blocks', placed')
    <3>1. \A b \in Owed(t) : Preds(blocks', placed', b) = Preds(blocks, placed, b)
      BY <1>11, <2>6
    <3>2. QED
      BY <1>2, <1>17, <2>7, <3>1, DrawnStays
  <2>11. QED
    BY <1>1, <1>5, <2>6, <2>9, <2>10 DEF Drawn
<1>18. QED
  BY <1>1, <1>2, <1>16, <1>17, Walks DEF body

\* Two instructions; a block behind the others.
LEMMA PairParts ==
  ASSUME NEW x, NEW y
  PROVE  IsSeq(<<x, y>>) /\ DOMAIN <<x, y>> = {1, 2} /\ <<x, y>>[1] = x /\ <<x, y>>[2] = y
<1>1. <<x, y>> \in Seq({x, y})
  OBVIOUS
<1>2. IsSeq(<<x, y>>)
  BY <1>1, SeqOfAny
<1>3. 1..2 = {1, 2}
  OBVIOUS
<1>4. QED
  BY <1>2, <1>3

LEMMA PairEnds ==
  ASSUME NEW q, NEW x, NEW y, IsSeq(q), Open(q), ~IsTerminator(x), IsTerminator(y)
  PROVE  Ended(q \o <<x, y>>) /\ Targets(q \o <<x, y>>) = y.to
<1> DEFINE r == q \o <<x>>
<1>1. IsSeq(r) /\ Open(r)
  BY StaysOpen
<1>2. q \o <<x, y>> = r \o <<y>>
  BY TwoMore
<1> HIDE DEF r
<1>3. Ended(r \o <<y>>) /\ Targets(r \o <<y>>) = y.to
  BY <1>1, IsEnded
<1>4. QED
  BY <1>2, <1>3

LEMMA AppendIs == ASSUME NEW s, NEW x, IsSeq(s) PROVE Append(s, x) = s \o <<x>>
<1> DEFINE S == {s[k] : k \in DOMAIN s} \union {x}
<1>1. s \in Seq(S) /\ x \in S
  <2>1. {s[k] : k \in DOMAIN s} \subseteq S
    OBVIOUS
  <2>2. QED
    BY <2>1, SeqMonotonic DEF IsSeq
<1> HIDE DEF S
<1>2. QED
  BY <1>1

\* One block is created behind the others.
LEMMA CreateOne ==
  ASSUME NEW bs, NEW n, NEW body, BlocksIn(bs, n, body), NEW b, BlockOK(b, n, body)
  PROVE  /\ BlocksIn(Append(bs, b), n, body) /\ Len(Append(bs, b)) = Len(bs) + 1
         /\ DOMAIN Append(bs, b) = 1..(Len(bs) + 1)
         /\ \A k \in DOMAIN bs : Append(bs, b)[k] = bs[k]
         /\ Append(bs, b)[Len(bs) + 1] = b
<1> DEFINE new == <<b>>
           r == bs \o new
<1>1. Append(bs, b) = r
  BY AppendIs DEF BlocksIn
<1>2. IsSeq(new) /\ Len(new) = 1 /\ DOMAIN new = {1} /\ new[1] = b
  BY SingleParts
<1> HIDE DEF new
<1>3. NewOK(new, n, body)
  BY <1>2 DEF NewOK
<1>4. Created(r, bs, new, n, body)
  BY <1>3, CreateIs
<1> HIDE DEF r
<1>5. 1 \in 1..Len(new)
  BY <1>2
<1>6. QED
  BY <1>1, <1>2, <1>4, <1>5 DEF Created

LEMMA GenForStep == ASSUME IInv, GenFor PROVE IInv'
<1> DEFINE n == Len(blocks)
           l == n + 1
           y == Event("start")
           x == <<y, Br(l)>>
           mid == Emit(blocks, cur, x)
           nb == [NewBlock EXCEPT !.phi = {cur}]
           t == Tail(work)
           r == <<Rest>> \o t
           g == AfterBody(l)
           d == Domain(Stmt.body)
           u == <<g>> \o r
           body == func.body
<1>1. /\ AtStatement("for") /\ blocks' = Append(mid, nb) /\ placed' = placed \union {l} /\ cur' = l
      /\ Push(<<d, g, Rest>>) /\ UNCHANGED <<func, phase, runVars>>
  BY DEF GenFor
<1>2. /\ phase = "emit" /\ Shape(blocks, placed, cur, work, body) /\ IsSeq(t)
      /\ Part(Stmt.body, body) /\ (Plain => CallsDrawn(t, blocks, placed))
  BY <1>1, StatementIs
<1>3. /\ BlocksIn(blocks, n, body) /\ placed \subseteq DOMAIN blocks /\ cur \in placed
      /\ EntryBlock \in placed /\ \A b \in DOMAIN blocks \ placed : blocks[b] = NewBlock
  BY <1>2 DEF Shape, BlocksOK
<1>4. n \in Nat /\ DOMAIN blocks = 1..n /\ cur \in DOMAIN blocks
  BY <1>3, BlocksParts
<1>5. work' = <<d>> \o u
  BY <1>1, <1>2, ThreeOnTop DEF Push
<1>6. /\ Calls(r, placed, body) /\ r # <<>> /\ IsSeq(r) /\ Owed(r) = DOMAIN blocks \ placed
      /\ \A bs, pl : CallsDrawn(r, bs, pl) <=> CallsDrawn(t, bs, pl)
  BY <1>1, RestOnTop
<1>7. /\ d.k = "domain" /\ Owes(d) = {} /\ CallOK(d, placed', body)
      /\ \A bs, pl : CallDrawn(d, bs, pl)
  BY <1>2, DomainIs
<1>8. /\ l \in Nat /\ l \notin 1..n /\ 1..l = 1..n \union {l} /\ n <= l /\ n + 1 = l
  BY <1>4
<1>9. /\ g.k = "afterBody" /\ g.loop = l /\ Owes(g) = {} /\ CallOK(g, placed', body)
  <2>1. l \in placed'
    BY <1>1
  <2>2. g.k = "afterBody" /\ g.loop = l
    BY DEF AfterBody
  <2> HIDE DEF g, l
  <2>3. QED
    BY <2>1, <2>2 DEF Owes, CallOK
<1>10. IsSeq(x) /\ DOMAIN x = {1, 2} /\ x[1] = y /\ x[2] = Br(l)
  BY PairParts
<1>11. /\ Br(l).to = {l} /\ IsTerminator(Br(l)) /\ InsOK(Br(l), l, body)
       /\ InsOK(y, l, body) /\ ~IsTerminator(y)
  BY <1>8, InstructionsOK
<1>12. nb.ins = <<>> /\ nb.phi = {cur} /\ BlockOK(nb, l, body)
  <2>1. cur \in 1..l
    BY <1>4, <1>8
  <2>2. QED
    BY <2>1, NewBlockIs
<1> HIDE DEF n, l, y, x, mid, nb, t, r, g, d, u, body
<1>13. BlocksIn(blocks, l, body)
  BY <1>3, <1>4, <1>8, BlocksWider
<1>14. /\ BlocksIn(mid, l, body) /\ Len(mid) = n /\ DOMAIN mid = DOMAIN blocks
       /\ mid[cur].ins = blocks[cur].ins \o x /\ mid[cur].phi = blocks[cur].phi
       /\ \A b \in DOMAIN blocks : b # cur => mid[b] = blocks[b]
  <2>1. ListOK(x, l, body)
    BY <1>10, <1>11 DEF ListOK
  <2>2. mid = Emit(blocks, cur, x)
    BY DEF mid
  <2>3. Emitted(mid, blocks, cur, x, l, body)
    BY <1>4, <1>13, <2>1, <2>2, EmitIs
  <2>4. QED
    BY <2>3 DEF n, Emitted
<1>15. /\ BlocksIn(blocks', l, body) /\ Len(blocks') = l /\ DOMAIN blocks' = 1..l
       /\ \A b \in DOMAIN blocks : blocks'[b] = mid[b]
       /\ blocks'[l] = nb
  BY <1>1, <1>8, <1>12, <1>14, CreateOne
<1>16. /\ blocks'[cur].ins = blocks[cur].ins \o x /\ blocks'[cur].phi = blocks[cur].phi
       /\ \A b \in placed \ {cur} : blocks'[b] = blocks[b]
       /\ \A b \in DOMAIN blocks' \ placed' : blocks'[b] = NewBlock
  <2>1. \A b \in DOMAIN blocks : b # cur => blocks'[b] = blocks[b]
    BY <1>14, <1>15
  <2>2. \A b \in DOMAIN blocks' : b \in DOMAIN blocks \/ b = l
    BY <1>4, <1>8, <1>15
  <2>3. QED
    BY <1>1, <1>3, <1>4, <1>14, <1>15, <2>1, <2>2
<1>17. Calls(r, placed', body)
  BY <1>1, <1>6, CallsGrow
<1>18. Calls(u, placed', body) /\ u # <<>> /\ IsSeq(u) /\ Owed(u) = DOMAIN blocks \ placed
  <2>1. Owes(g) \cap Owed(r) = {}
    BY <1>9
  <2>2. Calls(u, placed', body) /\ u # <<>> /\ Owed(u) = Owes(g) \union Owed(r)
    BY <1>6, <1>9, <1>17, <2>1, CallsCons DEF u
  <2>3. QED
    BY <1>6, <1>9, <2>2 DEF Calls
<1>19. Calls(work', placed', body) /\ work' # <<>> /\ Owed(work') = DOMAIN blocks \ placed
  <2>1. Owes(d) \cap Owed(u) = {} /\ d.k # "afterFunction"
    BY <1>7
  <2>2. Calls(work', placed', body) /\ work' # <<>> /\ Owed(work') = Owes(d) \union Owed(u)
    BY <1>5, <1>7, <1>18, <2>1, CallsCons
  <2>3. QED
    BY <1>7, <1>18, <2>2
<1>20. Shape(blocks', placed', cur', work', body)
  <2>1. BlocksOK(blocks', body)
    BY <1>15 DEF BlocksOK
  <2>2. placed' \subseteq DOMAIN blocks' /\ EntryBlock \in placed' /\ cur' \in placed'
    BY <1>1, <1>3, <1>4, <1>8, <1>15
  <2>3. Owed(work') = DOMAIN blocks' \ placed'
    BY <1>1, <1>3, <1>4, <1>8, <1>15, <1>19
  <2>4. QED
    BY <1>16, <1>19, <2>1, <2>2, <2>3 DEF Shape
<1>21. ASSUME Plain PROVE Drawn(blocks', placed', cur', work')
  <2>1. Drawn(blocks, placed, cur, work)
    BY <1>2, <1>21 DEF IInv
  <2>2. IsSeq(blocks[cur].ins) /\ Open(blocks[cur].ins)
    BY <1>3, <1>4, <2>1 DEF Drawn, BlocksIn, BlockOK, ListOK
  <2>3. Ended(blocks'[cur].ins) /\ Targets(blocks'[cur].ins) = {l}
    BY <1>11, <1>16, <2>2, PairEnds DEF x
  <2>4. blocks'[l].ins = <<>> /\ blocks'[l].phi = {cur} /\ l \notin placed
    BY <1>3, <1>4, <1>8, <1>12, <1>15
  <2>5. \A b \in placed \ {cur} : blocks'[b].ins = blocks[b].ins
    BY <1>16
  <2>6. /\ \A b : b # l => Preds(blocks', placed', b) = Preds(blocks, placed, b)
        /\ Preds(blocks', placed', l) = Preds(blocks, placed, l) \union {cur}
        /\ \A b \in placed' \ {l} : Ended(blocks'[b].ins)
        /\ Open(blocks'[l].ins)
    <3>1. Turns(blocks, placed, cur, blocks', l)
      BY <1>3, <2>3, <2>4, <2>5 DEF Turns
    <3>2. Turned(blocks, placed, cur, blocks', l, placed')
      BY <1>1, <2>1, <3>1, Closes
    <3>3. QED
      BY <2>3, <3>2 DEF Turned
  <2>7. \A b \in placed : blocks'[b].phi = blocks[b].phi /\ b # l
    BY <1>3, <1>4, <1>8, <1>16
  <2>8. Preds(blocks', placed', l) = {cur}
    <3>1. Preds(blocks, placed, l) = {}
      BY <1>3, <1>8, NoWayToNew
    <3>2. QED
      BY <2>6, <3>1
  <2>9. \A b \in placed' : PhiOK(blocks', placed', b)
    BY <1>1, <2>1, <2>4, <2>6, <2>7, <2>8 DEF Drawn, PhiOK
  <2>10. CallsDrawn(r, blocks', placed')
    <3>1. \A b \in Owed(r) : Preds(blocks', placed', b) = Preds(blocks, placed, b)
      BY <1>4, <1>6, <1>8, <2>6
    <3>2. CallsDrawn(r, blocks, placed)
      BY <1>2, <1>6, <1>21
    <3>3. QED
      BY <1>6, <2>7, <3>1, <3>2, DrawnStays
  <2>11. CallDrawn(g, blocks', placed')
    BY <1>9, <2>4 DEF CallDrawn
  <2>12. CallsDrawn(u, blocks', placed')
    BY <1>6, <2>10, <2>11, DrawnCons DEF u
  <2>13. CallsDrawn(work', blocks', placed')
    BY <1>5, <1>7, <1>18, <2>12, DrawnCons
  <2>14. QED
    BY <1>1, <2>6, <2>9, <2>13 DEF Drawn
<1>22. QED
  BY <1>1, <1>2, <1>20, <1>21, Walks DEF body

LEMMA GenForEndStep == ASSUME IInv, GenForEnd PROVE IInv'
<1> DEFINE f == Head(work)
           t == Tail(work)
           n == Len(blocks)
           l == f.loop
           a == n + 1
           y == Event("step")
           x == <<y, CondBr(l, a)>>
           mid == Emit(blocks, cur, x)
           s == mid[l].phi \union {cur}
           two == WithPhi(mid, l, s)
           body == func.body
<1>1. /\ AtFrame("afterBody") /\ blocks' = Append(two, NewBlock) /\ placed' = placed \union {a}
      /\ cur' = a /\ Push(<<>>) /\ UNCHANGED <<func, phase, runVars>>
  BY DEF GenForEnd, WithPhi
<1>2. /\ phase = "emit" /\ f.k = "afterBody" /\ Shape(blocks, placed, cur, work, body)
      /\ Calls(t, placed, body) /\ t # <<>> /\ IsSeq(t)
      /\ Owes(f) \union Owed(t) = DOMAIN blocks \ placed /\ Owes(f) \cap Owed(t) = {}
      /\ CallOK(f, placed, body)
      /\ (Plain => CallsDrawn(t, blocks, placed) /\ CallDrawn(f, blocks, placed))
  <2> HIDE DEF n, l, a, y, x, mid, s, two
  <2>1. QED
    BY <1>1, FrameIs
<1>3. /\ BlocksIn(blocks, n, body) /\ placed \subseteq DOMAIN blocks /\ cur \in placed
      /\ EntryBlock \in placed /\ \A b \in DOMAIN blocks \ placed : blocks[b] = NewBlock
  BY <1>2 DEF Shape, BlocksOK
<1>4. n \in Nat /\ DOMAIN blocks = 1..n /\ cur \in DOMAIN blocks
  BY <1>3, BlocksParts
<1>5. work' = t
  BY <1>1, <1>2, NothingOnTop DEF Push
<1>6. Owes(f) = {} /\ l \in placed
  BY <1>2 DEF Owes, CallOK
<1>7. Plain => blocks[l].phi # {}
  BY <1>2 DEF CallDrawn
<1>8. IsSeq(x) /\ DOMAIN x = {1, 2} /\ x[1] = y /\ x[2] = CondBr(l, a)
  BY PairParts
<1>9. /\ a \in Nat /\ a \notin 1..n /\ 1..a = 1..n \union {a} /\ n <= a /\ n + 1 = a
  BY <1>4
<1>10. mid = Emit(blocks, cur, x) /\ two = WithPhi(mid, l, s) /\ s = mid[l].phi \union {cur}
  OBVIOUS
<1>11. /\ CondBr(l, a).to = {l, a} /\ IsTerminator(CondBr(l, a)) /\ InsOK(CondBr(l, a), a, body)
       /\ InsOK(y, a, body) /\ ~IsTerminator(y)
  <2>1. l \in 1..a
    BY <1>3, <1>4, <1>6, <1>9
  <2>2. a \in 1..a
    BY <1>9
  <2>3. QED
    BY <1>9, <2>1, <2>2, InstructionsOK
<1> HIDE DEF f, t, n, l, a, y, x, mid, s, two, body
<1>12. BlocksIn(blocks, a, body) /\ Owed(t) = DOMAIN blocks \ placed /\ l \in DOMAIN blocks
  BY <1>2, <1>3, <1>4, <1>6, <1>9, BlocksWider
<1>13. /\ BlocksIn(mid, a, body) /\ Len(mid) = n /\ DOMAIN mid = DOMAIN blocks
       /\ mid[cur].ins = blocks[cur].ins \o x /\ mid[cur].phi = blocks[cur].phi
       /\ \A b \in DOMAIN blocks : b # cur => mid[b] = blocks[b]
  <2>1. ListOK(x, a, body)
    BY <1>8, <1>11 DEF ListOK
  <2>2. Emitted(mid, blocks, cur, x, a, body)
    BY <1>4, <1>10, <1>12, <2>1, EmitIs
  <2>3. QED
    BY <2>2 DEF n, Emitted
<1>14. s = blocks[l].phi \union {cur} /\ s \subseteq 1..a
  <2>1. mid[l].phi = blocks[l].phi
    BY <1>12, <1>13
  <2>2. blocks[l].phi \subseteq 1..a
    BY <1>12 DEF BlocksIn, BlockOK
  <2>3. cur \in 1..a
    BY <1>4, <1>9
  <2>4. QED
    BY <1>10, <2>1, <2>2, <2>3
<1>15. /\ BlocksIn(two, a, body) /\ Len(two) = n /\ DOMAIN two = DOMAIN blocks
       /\ two[l].ins = mid[l].ins /\ two[l].phi = s
       /\ \A b \in DOMAIN blocks : b # l => two[b] = mid[b]
  <2>1. l \in DOMAIN mid
    BY <1>12, <1>13
  <2>2. PhiSet(two, mid, l, s, a, body)
    BY <1>10, <1>13, <1>14, <2>1, PhiIs
  <2>3. QED
    BY <1>13, <2>2 DEF PhiSet
<1>16. /\ BlocksIn(blocks', a, body) /\ Len(blocks') = a /\ DOMAIN blocks' = 1..a
       /\ \A b \in DOMAIN blocks : blocks'[b] = two[b]
       /\ blocks'[a] = NewBlock
  BY <1>1, <1>9, <1>15, NewBlockIs, CreateOne
<1>17. /\ blocks'[cur].ins = blocks[cur].ins \o x /\ blocks'[l].phi = s
       /\ \A b \in placed \ {cur} : blocks'[b].ins = blocks[b].ins
       /\ \A b \in placed \ {l} : blocks'[b].phi = blocks[b].phi
       /\ \A b \in DOMAIN blocks' \ placed' : blocks'[b] = NewBlock
  <2>1. \A b \in DOMAIN blocks : blocks'[b].ins = mid[b].ins
    BY <1>15, <1>16
  <2>2. \A b \in DOMAIN blocks : b # l => blocks'[b].phi = mid[b].phi
    BY <1>15, <1>16
  <2>3. \A b \in DOMAIN blocks : b # l /\ b # cur => blocks'[b] = blocks[b]
    BY <1>13, <1>15, <1>16
  <2>4. \A b \in DOMAIN blocks' : b \in DOMAIN blocks \/ b = a
    BY <1>4, <1>9, <1>16
  <2>5. \A b \in DOMAIN blocks' \ placed' : b \in DOMAIN blocks \ placed /\ b # l /\ b # cur
    BY <1>1, <1>3, <1>6, <2>4
  <2>6. \A b \in DOMAIN blocks' \ placed' : blocks'[b] = NewBlock
    BY <1>3, <2>3, <2>5
  <2>7. blocks'[l].phi = s
    BY <1>12, <1>15, <1>16
  <2>8. QED
    BY <1>3, <1>4, <1>13, <2>1, <2>2, <2>6, <2>7
<1>18. Calls(t, placed', body)
  BY <1>1, <1>2, CallsGrow
<1>19. Shape(blocks', placed', cur', work', body)
  <2>1. BlocksOK(blocks', body)
    BY <1>16 DEF BlocksOK
  <2>2. placed' \subseteq DOMAIN blocks' /\ EntryBlock \in placed' /\ cur' \in placed'
    BY <1>1, <1>3, <1>4, <1>9, <1>16
  <2>3. Owed(work') = DOMAIN blocks' \ placed'
    BY <1>1, <1>3, <1>4, <1>5, <1>9, <1>12, <1>16
  <2>4. QED
    BY <1>2, <1>5, <1>17, <1>18, <2>1, <2>2, <2>3 DEF Shape
<1>20. ASSUME Plain PROVE Drawn(blocks', placed', cur', work')
  <2>1. Drawn(blocks, placed, cur, work)
    BY <1>2, <1>20 DEF IInv
  <2>2. IsSeq(blocks[cur].ins) /\ Open(blocks[cur].ins)
    BY <1>3, <1>4, <2>1 DEF Drawn, BlocksIn, BlockOK, ListOK
  <2>3. Ended(blocks'[cur].ins) /\ Targets(blocks'[cur].ins) = {l, a}
    BY <1>11, <1>17, <2>2, PairEnds DEF x
  <2>4. blocks'[a].ins = <<>> /\ blocks'[a].phi = {} /\ a \notin placed
    BY <1>3, <1>4, <1>9, <1>16, NewBlockIs
  <2>5. \A b \in placed \ {cur} : blocks'[b].ins = blocks[b].ins
    BY <1>17
  <2>6. /\ \A b : b \notin {l, a} => Preds(blocks', placed', b) = Preds(blocks, placed, b)
        /\ Preds(blocks', placed', l) = Preds(blocks, placed, l) \union {cur}
        /\ \A b \in placed' \ {a} : Ended(blocks'[b].ins)
        /\ Open(blocks'[a].ins)
    <3>1. Turns(blocks, placed, cur, blocks', a)
      BY <1>3, <2>3, <2>4, <2>5 DEF Turns
    <3>2. Turned(blocks, placed, cur, blocks', a, placed')
      BY <1>1, <2>1, <3>1, Closes
    <3>3. QED
      BY <2>3, <3>2 DEF Turned
  <2>7. \A b \in placed : b # a /\ (b # l => blocks'[b].phi = blocks[b].phi)
    BY <1>3, <1>4, <1>9, <1>17
  <2>8. PhiOK(blocks', placed', l)
    <3>1. blocks[l].phi = Preds(blocks, placed, l)
      BY <1>6, <1>7, <1>20, <2>1 DEF Drawn, PhiOK
    <3>2. blocks'[l].phi = Preds(blocks', placed', l)
      BY <1>14, <1>17, <2>6, <3>1
    <3>3. QED
      BY <3>2 DEF PhiOK
  <2>9. \A b \in placed' : PhiOK(blocks', placed', b)
    <3>1. \A b \in placed \ {l} : PhiOK(blocks', placed', b)
      BY <2>1, <2>6, <2>7 DEF Drawn, PhiOK
    <3>2. PhiOK(blocks', placed', a)
      BY <2>4 DEF PhiOK
    <3>3. QED
      BY <1>1, <2>8, <3>1, <3>2
  <2>10. CallsDrawn(t, blocks', placed')
    <3>1. \A b \in Owed(t) : Preds(blocks', placed', b) = Preds(blocks, placed, b)
      BY <1>4, <1>6, <1>9, <1>12, <2>6
    <3>2. \A b \in placed : blocks[b].phi # {} => blocks'[b].phi # {}
      BY <1>14, <1>17, <2>7
    <3>3. QED
      BY <1>2, <1>20, <3>1, <3>2, DrawnStays
  <2>11. QED
    BY <1>1, <1>5, <2>6, <2>9, <2>10 DEF Drawn
<1>21. QED
  BY <1>1, <1>2, <1>19, <1>20, Walks DEF body

\* What the verifier demands, in the words of the invariant, of the function
\* that a step leaves behind.
LEMMA WellFormedNow ==
  ASSUME \A b \in placed' : Ended(blocks'[b].ins),
         \A b \in placed' : Targets(blocks'[b].ins) \subseteq placed',
         \A b \in placed' : PhiOK(blocks', placed', b)
  PROVE  WellFormed'
<1>1. \A b : Successors(b)' = Targets(blocks'[b].ins)
  BY DEF Successors, Targets
<1>2. \A b : Predecessors(b)' = Preds(blocks', placed', b)
  BY <1>1 DEF Predecessors, Preds
<1>3. \A b \in placed' : Terminated(b)'
  BY DEF Terminated, Ended
<1>4. QED
  BY <1>1, <1>2, <1>3 DEF WellFormed, PhiOK

LEMMA GenExitStep == ASSUME IInv, GenExit PROVE IInv'
<1> DEFINE f == Head(work)
           t == Tail(work)
           n == Len(blocks)
           m == ExitBlock
           x == <<Br(m)>>
           y == <<Ret>>
           mid == Emit(blocks, cur, x)
           body == func.body
<1>1. /\ AtFrame("afterFunction") /\ blocks' = Emit(mid, m, y) /\ placed' = placed \union {m}
      /\ cur' = m /\ phase' = "verify" /\ UNCHANGED <<func, runVars>>
  BY DEF GenExit
<1>2. /\ phase = "emit" /\ f.k = "afterFunction" /\ Shape(blocks, placed, cur, work, body)
      /\ t = <<>> /\ Owes(f) \union Owed(t) = DOMAIN blocks \ placed
  BY <1>1, FrameIs
<1>3. /\ BlocksIn(blocks, n, body) /\ placed \subseteq DOMAIN blocks /\ cur \in placed
      /\ \A b \in DOMAIN blocks \ placed : blocks[b] = NewBlock
  BY <1>2 DEF Shape, BlocksOK
<1>4. n \in Nat /\ DOMAIN blocks = 1..n /\ cur \in DOMAIN blocks /\ m \in DOMAIN blocks
  BY <1>3, BlocksParts
<1>5. DOMAIN blocks \ placed = {m}
  <2>1. Owes(f) = {m}
    BY <1>2 DEF Owes
  <2>2. Owed(t) = {}
    BY <1>2, EmptyParts DEF Owed
  <2>3. QED
    BY <1>2, <2>1, <2>2
<1>6. IsSeq(x) /\ DOMAIN x = {1} /\ x[1] = Br(m) /\ IsSeq(y) /\ DOMAIN y = {1} /\ y[1] = Ret
  BY SingleParts
<1>7. mid = Emit(blocks, cur, x)
  OBVIOUS
<1>8. /\ Br(m).to = {m} /\ IsTerminator(Br(m)) /\ InsOK(Br(m), n, body)
      /\ Ret.to = {} /\ IsTerminator(Ret) /\ InsOK(Ret, n, body)
  BY <1>4, InstructionsOK
<1> HIDE DEF f, t, n, m, x, y, mid, body
<1>9. m \notin placed /\ m # cur /\ blocks[m] = NewBlock /\ placed' = DOMAIN blocks
  BY <1>1, <1>3, <1>4, <1>5
<1>10. /\ BlocksIn(mid, n, body) /\ Len(mid) = n /\ DOMAIN mid = DOMAIN blocks
       /\ mid[cur].ins = blocks[cur].ins \o x /\ mid[cur].phi = blocks[cur].phi
       /\ \A b \in DOMAIN blocks : b # cur => mid[b] = blocks[b]
  <2>1. ListOK(x, n, body)
    BY <1>6, <1>8 DEF ListOK
  <2>2. Emitted(mid, blocks, cur, x, n, body)
    BY <1>3, <1>4, <1>7, <2>1, EmitIs
  <2>3. QED
    BY <2>2 DEF n, Emitted
<1>11. /\ BlocksIn(blocks', n, body) /\ Len(blocks') = n /\ DOMAIN blocks' = DOMAIN blocks
       /\ blocks'[m].ins = mid[m].ins \o y /\ blocks'[m].phi = mid[m].phi
       /\ \A b \in DOMAIN blocks : b # m => blocks'[b] = mid[b]
  <2>1. ListOK(y, n, body) /\ m \in DOMAIN mid
    BY <1>4, <1>6, <1>8, <1>10 DEF ListOK
  <2>2. Emitted(blocks', mid, m, y, n, body)
    BY <1>1, <1>10, <2>1, EmitIs
  <2>3. QED
    BY <1>10, <2>2 DEF Emitted
<1>12. BlocksOK(blocks', body) /\ placed' = DOMAIN blocks' /\ cur' \in placed'
  BY <1>1, <1>4, <1>9, <1>11 DEF BlocksOK
<1>13. ASSUME Plain PROVE WellFormed'
  <2>1. Drawn(blocks, placed, cur, work)
    BY <1>2, <1>13 DEF IInv
  <2>2. IsSeq(blocks[cur].ins) /\ Open(blocks[cur].ins)
    BY <1>3, <1>4, <2>1 DEF Drawn, BlocksIn, BlockOK, ListOK
  <2>3. Ended(mid[cur].ins) /\ Targets(mid[cur].ins) = {m}
    <3>1. mid[cur].ins = blocks[cur].ins \o <<Br(m)>>
      BY <1>10 DEF x
    <3>2. QED
      BY <1>8, <2>2, <3>1, IsEnded
  <2>4. mid[m].ins = <<>> /\ mid[m].phi = {}
    BY <1>4, <1>9, <1>10, NewBlockIs
  <2>5. \A b \in placed \ {cur} : mid[b].ins = blocks[b].ins
    BY <1>3, <1>10
  <2>6. /\ \A b : b # m => Preds(mid, placed', b) = Preds(blocks, placed, b)
        /\ \A b \in placed' \ {m} : Ended(mid[b].ins)
    <3>1. Turns(blocks, placed, cur, mid, m)
      BY <1>3, <1>9, <2>3, <2>4, <2>5 DEF Turns
    <3>2. Turned(blocks, placed, cur, mid, m, placed')
      BY <1>1, <2>1, <3>1, Closes
    <3>3. QED
      BY <2>3, <3>2 DEF Turned
  <2>7. blocks'[m].phi = {} /\ Ended(blocks'[m].ins) /\ Targets(blocks'[m].ins) = {}
    <3>1. blocks'[m].ins = <<>> \o <<Ret>>
      BY <1>11, <2>4 DEF y
    <3>2. IsSeq(<<>>) /\ Open(<<>>)
      BY EmptyParts
    <3>3. Ended(blocks'[m].ins) /\ Targets(blocks'[m].ins) = Ret.to
      <4> DEFINE q == <<>>
      <4>1. IsSeq(q) /\ Open(q) /\ blocks'[m].ins = q \o <<Ret>>
        BY <3>1, <3>2
      <4> HIDE DEF q
      <4>2. QED
        BY <1>8, <4>1, IsEnded
    <3>4. QED
      BY <1>8, <1>11, <2>4, <3>3
  <2>8. Targets(mid[m].ins) = {}
    BY <2>4, EmptyParts
  <2>9. \A b \in placed' : Targets(blocks'[b].ins) = Targets(mid[b].ins)
    BY <1>9, <1>11, <2>7, <2>8
  <2>10. \A b : Preds(blocks', placed', b) = Preds(mid, placed', b)
    BY <2>9 DEF Preds
  <2>11. \A b \in placed' : Ended(blocks'[b].ins)
    BY <1>9, <1>11, <2>6, <2>7
  <2>12. \A b \in placed' : Targets(blocks'[b].ins) \subseteq placed'
    BY <1>4, <1>9, <1>11, TargetsInside
  <2>13. \A b \in placed : blocks'[b].phi = blocks[b].phi
    BY <1>3, <1>9, <1>10, <1>11
  <2>14. \A b \in placed' : PhiOK(blocks', placed', b)
    BY <1>1, <1>9, <2>1, <2>6, <2>7, <2>10, <2>13 DEF Drawn, PhiOK
  <2>15. QED
    BY <2>11, <2>12, <2>14, WellFormedNow
<1>14. /\ func' = func /\ at' = at /\ tests' = tests /\ retValue' = retValue
  BY <1>1 DEF runVars
<1>15. Plain' = Plain
  BY <1>14 DEF Plain
<1>16. /\ func \in Functions /\ tests \in Seq(BOOLEAN) /\ at = <<EntryBlock, 1>>
       /\ retValue = Undefined \/ Returned(retValue, func.body)
  BY <1>2 DEF IInv
<1>17. QED
  BY <1>1, <1>12, <1>13, <1>14, <1>15, <1>16 DEF IInv, body

-----------------------------------------------------------------------------
(* The verifier, and the function as it runs.                               *)

LEMMA VerifyStep == ASSUME IInv, Verify PROVE IInv'
<1>1. /\ phase = "verify" /\ phase' = (IF WellFormed THEN "run" ELSE "rejected")
      /\ func' = func /\ blocks' = blocks /\ placed' = placed /\ cur' = cur
      /\ at' = at /\ tests' = tests /\ retValue' = retValue
  BY DEF Verify, emitVars, runVars
<1>2. Plain' = Plain /\ WellFormed' = WellFormed
  BY <1>1 DEF Plain, WellFormed, Terminated, Successors, Predecessors
<1>3. /\ func \in Functions /\ tests \in Seq(BOOLEAN) /\ at = <<EntryBlock, 1>>
      /\ retValue = Undefined \/ Returned(retValue, func.body)
      /\ BlocksOK(blocks, func.body) /\ placed = DOMAIN blocks /\ cur \in placed
      /\ (Plain => WellFormed)
  BY <1>1 DEF IInv
<1>4. CASE WellFormed
  <2>1. EntryBlock \in placed
    BY <1>3, BlocksParts DEF BlocksOK
  <2>2. blocks[EntryBlock].ins # <<>> /\ IsSeq(blocks[EntryBlock].ins)
    BY <1>3, <1>4, <2>1 DEF WellFormed, Terminated, BlocksOK, BlocksIn, BlockOK, ListOK
  <2>3. 1 \in DOMAIN blocks[EntryBlock].ins
    BY <2>2, SeqParts
  <2>4. at[1] = EntryBlock /\ at[2] = 1 /\ at = <<at[1], at[2]>>
    BY <1>3
  <2>5. phase' = "run"
    BY <1>1, <1>4
  <2>6. QED
    BY <1>1, <1>2, <1>3, <1>4, <2>1, <2>3, <2>4, <2>5 DEF IInv
<1>5. CASE ~WellFormed
  BY <1>1, <1>2, <1>3, <1>5 DEF IInv
<1>6. QED
  BY <1>4, <1>5

\* Where the function runs: an instruction of a block that is ended.
LEMMA RunningIs ==
  ASSUME IInv, phase = "run"
  PROVE  /\ at[1] \in placed /\ at[1] \in DOMAIN blocks
         /\ at[2] \in 1..Len(blocks[at[1]].ins)
         /\ Len(blocks[at[1]].ins) \in Nat
         /\ InsOK(Instr, Len(blocks), func.body)
         /\ ~IsTerminator(Instr) => at[2] + 1 \in 1..Len(blocks[at[1]].ins)
         /\ IsTerminator(Instr) => Instr.to \subseteq placed
<1> DEFINE b == at[1]
           q == blocks[b].ins
<1>1. /\ WellFormed /\ b \in placed /\ b \in DOMAIN blocks /\ at[2] \in DOMAIN q
      /\ BlocksOK(blocks, func.body) /\ Instr = q[at[2]]
  BY DEF IInv, Instr
<1>2. Terminated(b) /\ Successors(b) \subseteq placed
  BY <1>1 DEF WellFormed
<1>3. ListOK(q, Len(blocks), func.body)
  BY <1>1 DEF BlocksOK, BlocksIn, BlockOK
<1>4. IsSeq(q) /\ InsOK(Instr, Len(blocks), func.body)
  BY <1>1, <1>3 DEF ListOK
<1>5. Len(q) \in Nat /\ DOMAIN q = 1..Len(q)
  BY <1>4, SeqParts
<1>6. IsTerminator(q[Len(q)])
  BY <1>2 DEF Terminated
<1>7. IsTerminator(Instr) => Instr.to \subseteq Successors(b)
  BY <1>1 DEF Successors
<1> HIDE DEF b, q
<1>8. at[2] # Len(q) => at[2] + 1 \in 1..Len(q)
  BY <1>1, <1>5
<1>9. QED
  BY <1>1, <1>2, <1>4, <1>5, <1>6, <1>7, <1>8 DEF b, q

\* A step of the run: the function stays as it is.
LEMMA Runs ==
  ASSUME IInv, phase = "run", phase' \in {"run", "done"}, UNCHANGED <<func, emitVars>>,
         NEW b, NEW j, at' = <<b, j>>, b \in placed, j \in DOMAIN blocks[b].ins,
         tests' \in Seq(BOOLEAN), retValue' = Undefined \/ Returned(retValue', func.body)
  PROVE  IInv'
<1>1. /\ func' = func /\ blocks' = blocks /\ placed' = placed /\ cur' = cur
  BY DEF emitVars
<1>2. Plain' = Plain /\ WellFormed' = WellFormed
  BY <1>1 DEF Plain, WellFormed, Terminated, Successors, Predecessors
<1>3. /\ func \in Functions /\ BlocksOK(blocks, func.body) /\ placed = DOMAIN blocks
      /\ cur \in placed /\ WellFormed
  BY DEF IInv
<1>4. at'[1] = b /\ at'[2] = j /\ at' = <<at'[1], at'[2]>>
  OBVIOUS
<1>5. QED
  BY <1>1, <1>2, <1>3, <1>4 DEF IInv

LEMMA RunEventStep == ASSUME IInv, RunEvent PROVE IInv'
<1>1. /\ phase = "run" /\ phase' = phase /\ Instr.i = "event" /\ at' = <<at[1], at[2] + 1>>
      /\ tests' = tests /\ retValue' = retValue /\ UNCHANGED <<func, emitVars>>
  BY DEF RunEvent, Running, Instr
<1>2. ~IsTerminator(Instr)
  BY <1>1 DEF IsTerminator
<1>3. at[1] \in placed /\ at[2] + 1 \in DOMAIN blocks[at[1]].ins
  <2>1. IsSeq(blocks[at[1]].ins)
    BY <1>1, RunningIs DEF IInv, BlocksOK, BlocksIn, BlockOK, ListOK
  <2>2. QED
    BY <1>1, <1>2, <2>1, RunningIs, SeqParts
<1>4. tests \in Seq(BOOLEAN) /\ (retValue = Undefined \/ Returned(retValue, func.body))
  BY DEF IInv
<1>5. QED
  BY <1>1, <1>3, <1>4, Runs

LEMMA RunStoreStep == ASSUME IInv, RunStore PROVE IInv'
<1>1. /\ phase = "run" /\ phase' = phase /\ Instr.i = "store" /\ at' = <<at[1], at[2] + 1>>
      /\ tests' = tests /\ retValue' = Instr.v /\ UNCHANGED <<func, emitVars>>
  BY DEF RunStore, Running, Instr
<1>2. ~IsTerminator(Instr)
  BY <1>1 DEF IsTerminator
<1>3. at[1] \in placed /\ at[2] + 1 \in DOMAIN blocks[at[1]].ins
  <2>1. IsSeq(blocks[at[1]].ins)
    BY <1>1, RunningIs DEF IInv, BlocksOK, BlocksIn, BlockOK, ListOK
  <2>2. QED
    BY <1>1, <1>2, <2>1, RunningIs, SeqParts
<1>4. tests \in Seq(BOOLEAN) /\ Returned(retValue', func.body)
  BY <1>1, RunningIs DEF IInv, InsOK
<1>5. QED
  BY <1>1, <1>3, <1>4, Runs

\* A branch leads to the first instruction of a block of the function.
LEMMA Entered ==
  ASSUME IInv, phase = "run", IsTerminator(Instr), NEW b \in Instr.to
  PROVE  b \in placed /\ 1 \in DOMAIN blocks[b].ins
<1>1. b \in placed
  BY RunningIs
<1>2. /\ WellFormed /\ b \in DOMAIN blocks /\ BlocksOK(blocks, func.body)
  BY <1>1 DEF IInv
<1>3. blocks[b].ins # <<>> /\ IsSeq(blocks[b].ins)
  BY <1>1, <1>2 DEF WellFormed, Terminated, BlocksOK, BlocksIn, BlockOK, ListOK
<1>4. QED
  BY <1>1, <1>3, SeqParts

LEMMA RunBrStep == ASSUME IInv, RunBr PROVE IInv'
<1>1. /\ phase = "run" /\ phase' = phase /\ Instr.i = "br"
      /\ tests' = tests /\ retValue' = retValue /\ UNCHANGED <<func, emitVars>>
  BY DEF RunBr, Running, Instr
<1>2. PICK b \in Instr.to : at' = <<b, 1>>
  BY DEF RunBr
<1>3. IsTerminator(Instr)
  BY <1>1 DEF IsTerminator
<1>4. b \in placed /\ 1 \in DOMAIN blocks[b].ins
  BY <1>1, <1>3, Entered
<1>5. tests \in Seq(BOOLEAN) /\ (retValue = Undefined \/ Returned(retValue, func.body))
  BY DEF IInv
<1>6. QED
  BY <1>1, <1>2, <1>4, <1>5, Runs

LEMMA RunCondBrStep == ASSUME IInv, RunCondBr PROVE IInv'
<1>1. /\ phase = "run" /\ phase' = phase /\ Instr.i = "cbr"
      /\ retValue' = retValue /\ UNCHANGED <<func, emitVars>>
  BY DEF RunCondBr, Running, Instr
<1>2. PICK out \in BOOLEAN : /\ tests' = Append(tests, out)
                             /\ at' = <<IF out THEN Instr.yes ELSE Instr.no, 1>>
  BY DEF RunCondBr
<1>3. PICK b : b = IF out THEN Instr.yes ELSE Instr.no
  OBVIOUS
<1>4. IsTerminator(Instr) /\ Instr.to = {Instr.yes, Instr.no}
  BY <1>1, RunningIs DEF IsTerminator, InsOK
<1>5. b \in Instr.to
  BY <1>3, <1>4
<1>6. b \in placed /\ 1 \in DOMAIN blocks[b].ins
  BY <1>1, <1>4, <1>5, Entered
<1>7. tests \in Seq(BOOLEAN) /\ (retValue = Undefined \/ Returned(retValue, func.body))
  BY DEF IInv
<1>8. tests' \in Seq(BOOLEAN)
  BY <1>2, <1>7
<1>9. at' = <<b, 1>>
  BY <1>2, <1>3
<1>10. QED
  BY <1>1, <1>6, <1>7, <1>8, <1>9, Runs

LEMMA RunRetStep == ASSUME IInv, RunRet PROVE IInv'
<1>1. /\ phase = "run" /\ phase' = "done" /\ at' = at
      /\ tests' = tests /\ retValue' = retValue /\ UNCHANGED <<func, emitVars>>
  BY DEF RunRet, Running, runVars
<1>2. /\ at' = <<at[1], at[2]>> /\ at[1] \in placed /\ at[2] \in DOMAIN blocks[at[1]].ins
      /\ tests \in Seq(BOOLEAN) /\ (retValue = Undefined \/ Returned(retValue, func.body))
  BY <1>1 DEF IInv
<1>3. QED
  BY <1>1, <1>2, Runs

-----------------------------------------------------------------------------
(* The invariant holds of every state, and implies what is claimed.         *)

LEMMA InitInv == ASSUME Init PROVE IInv
<1> DEFINE body == func.body
           d == Domain(body)
           a == AfterFunction
           u == <<a>>
<1>1. /\ func \in Functions /\ blocks = <<NewBlock, NewBlock>> /\ placed = {EntryBlock}
      /\ cur = EntryBlock /\ work = <<d, a>> /\ phase = "emit" /\ at = <<EntryBlock, 1>>
      /\ tests = <<>> /\ retValue = Undefined
  BY DEF Init
<1>2. work = <<d>> \o u /\ IsSeq(u) /\ Len(u) = 1 /\ DOMAIN u = {1} /\ u[1] = a /\ u # <<>>
  <2>1. <<d, a>> = <<d>> \o u
    <3>1. IsSeq(<<>>)
      BY EmptyParts
    <3> DEFINE q == <<>>
    <3>2. IsSeq(q)
      BY <3>1
    <3> HIDE DEF q, d, a
    <3>3. q \o <<d, a>> = (q \o <<d>>) \o <<a>>
      BY <3>2, TwoMore
    <3>4. \A s : IsSeq(s) => q \o s = s
      BY NothingOnTop DEF q
    <3>5. IsSeq(<<d, a>>) /\ IsSeq(<<d>>)
      BY PairParts, SingleParts
    <3>6. QED
      BY <3>3, <3>4, <3>5
  <2>2. QED
    BY <1>1, <2>1, SingleParts
<1>3. a.k = "afterFunction" /\ Owes(a) = {ExitBlock}
  BY DEF AfterFunction, Owes
<1>4. Part(body, body)
  BY <1>1, BodyIsPart
<1>5. /\ d.k = "domain" /\ Owes(d) = {} /\ CallOK(d, placed, body)
      /\ \A bs, pl : CallDrawn(d, bs, pl)
  BY <1>4, DomainIs
<1>6. CallOK(a, placed, body) /\ \A bs, pl : CallDrawn(a, bs, pl)
  BY <1>3 DEF CallOK, CallDrawn
<1> HIDE DEF body, d, a, u
<1>7. Calls(u, placed, body) /\ Owed(u) = {ExitBlock}
  <2>1. \A i \in DOMAIN u : i = 1 /\ u[i] = a
    BY <1>2
  <2>2. \A i \in DOMAIN u : u[i].k = "afterFunction" <=> i = Len(u)
    BY <1>2, <1>3, <2>1
  <2>3. Calls(u, placed, body)
    BY <1>2, <1>6, <2>1, <2>2 DEF Calls
  <2>4. QED
    BY <1>2, <1>3, <2>3 DEF Owed
<1>8. Calls(work, placed, body) /\ work # <<>> /\ Owed(work) = {ExitBlock}
  <2>1. Owes(d) \cap Owed(u) = {} /\ d.k # "afterFunction"
    BY <1>5
  <2>2. Calls(work, placed, body) /\ work # <<>> /\ Owed(work) = Owes(d) \union Owed(u)
    BY <1>2, <1>5, <1>7, <2>1, CallsCons
  <2>3. QED
    BY <1>5, <1>7, <2>2
<1>9. /\ IsSeq(blocks) /\ DOMAIN blocks = {1, 2} /\ Len(blocks) = 2
      /\ blocks[1] = NewBlock /\ blocks[2] = NewBlock
  BY <1>1, PairParts
<1>10. BlocksOK(blocks, body) /\ EntryBlock \in DOMAIN blocks
  BY <1>9, NewBlockIs DEF BlocksOK, BlocksIn, EntryBlock, ExitBlock
<1>11. Shape(blocks, placed, cur, work, body)
  <2>1. DOMAIN blocks \ placed = {ExitBlock} /\ blocks[ExitBlock] = NewBlock
    BY <1>1, <1>9 DEF EntryBlock, ExitBlock
  <2>2. QED
    BY <1>1, <1>8, <1>10, <2>1 DEF Shape
<1>12. Drawn(blocks, placed, cur, work)
  <2>1. CallsDrawn(u, blocks, placed)
    BY <1>2, <1>6 DEF CallsDrawn
  <2>2. CallsDrawn(work, blocks, placed)
    BY <1>2, <1>5, <2>1, DrawnCons
  <2>3. blocks[cur].ins = <<>> /\ blocks[cur].phi = {}
    BY <1>1, <1>9, NewBlockIs DEF EntryBlock
  <2>4. Open(blocks[cur].ins) /\ PhiOK(blocks, placed, cur)
    BY <2>3, EmptyParts DEF PhiOK
  <2>5. QED
    BY <1>1, <2>2, <2>4 DEF Drawn
<1>13. tests \in Seq(BOOLEAN)
  BY <1>1
<1>14. QED
  BY <1>1, <1>11, <1>12, <1>13 DEF IInv, body

LEMMA StutterInv == ASSUME IInv, UNCHANGED vars PROVE IInv'
<1>1. /\ func' = func /\ blocks' = blocks /\ placed' = placed /\ cur' = cur /\ work' = work
      /\ phase' = phase /\ at' = at /\ tests' = tests /\ retValue' = retValue
  BY DEF vars
<1>2. Plain' = Plain /\ WellFormed' = WellFormed
  BY <1>1 DEF Plain, WellFormed, Terminated, Successors, Predecessors
<1>3. QED
  BY <1>1, <1>2 DEF IInv

LEMMA NextInv == ASSUME IInv, [Next]_vars PROVE IInv'
<1>1. CASE GenStatement
  BY <1>1, GenExpressionStep, GenReturnValueStep, GenReturnVoidStep, GenDomainStep, GenIfStep,
     GenForStep DEF GenStatement
<1>2. CASE GenFrame
  BY <1>2, EndDomainStep, GenElseStep, GenMergeStep, GenForEndStep, GenExitStep DEF GenFrame
<1>3. CASE Verify
  BY <1>3, VerifyStep
<1>4. CASE Execute
  BY <1>4, RunEventStep, RunStoreStep, RunBrStep, RunCondBrStep, RunRetStep DEF Execute
<1>5. CASE UNCHANGED vars
  BY <1>5, StutterInv
<1>6. QED
  BY <1>1, <1>2, <1>3, <1>4, <1>5 DEF Next

LEMMA Invariance == Spec => []IInv
<1>1. Init => IInv
  BY InitInv
<1>2. IInv /\ [Next]_vars => IInv'
  BY NextInv
<1>3. QED
  BY <1>1, <1>2, PTL DEF Spec

LEMMA TypesFollow == ASSUME IInv PROVE TypeOK
<1>1. CASE phase = "emit"
  <2>1. /\ BlocksIn(blocks, Len(blocks), func.body) /\ placed \subseteq DOMAIN blocks
        /\ cur \in placed /\ EntryBlock \in placed /\ at = <<EntryBlock, 1>>
    BY <1>1 DEF IInv, Shape, BlocksOK
  <2>2. \A b \in DOMAIN blocks : blocks[b].phi \subseteq DOMAIN blocks
    BY <2>1, BlocksParts DEF BlockOK
  <2>3. at[1] = EntryBlock
    BY <2>1
  <2>4. QED
    BY <1>1, <2>1, <2>2, <2>3 DEF IInv, TypeOK, Returned
<1>2. CASE phase # "emit"
  <2>1. /\ BlocksIn(blocks, Len(blocks), func.body) /\ placed = DOMAIN blocks /\ cur \in placed
    BY <1>2 DEF IInv, BlocksOK
  <2>2. EntryBlock \in placed /\ \A b \in DOMAIN blocks : blocks[b].phi \subseteq DOMAIN blocks
    BY <2>1, BlocksParts DEF BlockOK
  <2>3. at[1] \in placed
    <3>1. CASE phase \in {"verify", "rejected"}
      <4>1. at = <<EntryBlock, 1>>
        BY <3>1 DEF IInv
      <4>2. QED
        BY <2>2, <4>1
    <3>2. CASE phase \in {"run", "done"}
      BY <3>2 DEF IInv
    <3>3. QED
      BY <1>2, <3>1, <3>2 DEF IInv
  <2>4. at[2] \in DOMAIN blocks[at[1]].ins \/ phase \in {"emit", "verify", "rejected"}
    BY DEF IInv
  <2>5. QED
    BY <2>1, <2>2, <2>3, <2>4 DEF IInv, TypeOK, Returned
<1>3. QED
  BY <1>1, <1>2

\* Blocks, edges and the insert block stay inside the function; while its code runs there
\* is always an instruction to run; what is in _retValue was returned by a statement.
THEOREM CodeGenTypes == Spec => []TypeOK
<1>1. IInv => TypeOK
  BY TypesFollow
<1>2. QED
  BY <1>1, Invariance, PTL

\* A function without "return;" is never refused by the verifier, however its ifs and loops
\* are nested: every block is ended once, and every PHI has the predecessors of its block.
THEOREM CodeGenVerifierAccepts == Spec => []VerifierAccepts
<1>1. IInv => VerifierAccepts
  BY DEF IInv, Plain, VerifierAccepts
<1>2. QED
  BY <1>1, Invariance, PTL

\* When the walk over a function ends, every block that it created is in the function.
THEOREM CodeGenNoBlockLost == Spec => []NoBlockLost
<1>1. IInv => NoBlockLost
  BY DEF IInv, NoBlockLost
<1>2. QED
  BY <1>1, Invariance, PTL
=============================================================================
