------------------------------- MODULE Parser -------------------------------
(***************************************************************************)
(* The recursive-descent parser of the KSC front end                       *)
(* (src/src/parser_AST_Gen.cpp), from CompilingContext::Parse down to the  *)
(* expressions.  The C++ call stack is the variable stack: a frame names   *)
(* the place in the code where the call goes on, and counts the AST nodes  *)
(* the call owns.  The text is made up while it is read, a token at a      *)
(* time, so the model parses every text of a bounded length.               *)
(*                                                                         *)
(* Types are int, bool, void, structures, extern types and arrays of them; *)
(* no shared domain and no lexeme the tokenizer rejects.  Values and names *)
(* are abstract: Names are the identifiers, "num" is any positive integer. *)
(***************************************************************************)
EXTENDS Integers, Sequences, Sums, TLC

CONSTANTS Words,      \* the tokens a text may go on with
          Names,      \* the identifiers among them
          Swizzles,   \* the names that ConvertSwizzle takes for the one element there is
          Openings,   \* what a text begins with
          MaxTokens   \* bound: tokens after the prefix

Types    == {"int", "bool", "void"}
Keywords == {"if", "else", "for", "return", "true", "struct", "extern"}
Idents   == Names \union Types \union Keywords
BinaryOps == {"=", "<", "+", "&", "?"}

VARIABLES text,     \* the prefix chosen
          given,    \* how many tokens were scanned
          ended,    \* the cursor is at the end of the text: IsEOF
          buf,      \* the tokens scanned and not yet taken
          stack,    \* the calls in progress, innermost first
          ret,      \* what the last call returned
          scopes,   \* the CodeDomains open, innermost first, the root last
          funcs,    \* mDefinedFunctions of the root
          curFunc,  \* mpCurrentFunc
          errs,     \* whether mErrorMessages is not empty
          live,     \* s_instances.size(), from the start of the parse
          verdict,  \* parsing, accepted, rejected or aborted by an assertion
          failed    \* the line of that assertion

vars == <<text, given, ended, buf, stack, ret, scopes, funcs, curFunc, errs,
          live, verdict, failed>>
textVars == <<text, given, ended>>
tables   == <<scopes, funcs, curFunc>>
outcome  == <<verdict, failed>>

None == "none"

\* No identifier is taken for the null pointer.
ASSUME NoneIsNoName == None \notin Idents

\* What a call returns: failure, success, an expression or a statement.  Of an
\* expression: what its CheckSemantic will say, the type and the sign of
\* arraySize, or the type "bad"; mark is TypeInfo::assignable; lval whether
\* IsAssignable says so, and if only to those who allow a swizzle.
Failed == [ok |-> FALSE, size |-> 0, type |-> None, arr |-> 0, lval |-> "no",
           mark |-> FALSE, const |-> FALSE, rets |-> FALSE]
Passed == [Failed EXCEPT !.ok = TRUE]
Exp(size, type)  == [Passed EXCEPT !.size = size, !.type = type]
Statement(size, good, rets) ==
    [Passed EXCEPT !.size = size, !.type = IF good THEN "stmt" ELSE "bad", !.rets = rets]

\* A domain: its variables, the structures and extern types it defines, and what
\* mExpAllowedFlag lets it have, by the domain that began with it.
NoVars   == [n \in {} |-> None]
NewScope(kind) == [kind |-> kind, vars |-> NoVars, structs |-> NoVars, externs |-> {},
                   size |-> 1, cnt |-> 0, rets |-> FALSE]
NoFunc   == [known |-> FALSE, ret |-> "void", args |-> <<>>, names |-> <<>>,
             begun |-> FALSE, body |-> FALSE]

Frame(pc) == [pc |-> pc, size |-> 0]
Single    == Frame("single")
Simple    == Frame("simple")
\* ParseComplexExpression without a left operand: a simple one comes first.
Complex   == <<Simple, Frame("operator")>>

Top    == Head(stack)
Cur    == Head(scopes)
Inside == Cur.kind = "function"
Tok(i) == IF i <= Len(buf) THEN buf[i] ELSE "eof"

-----------------------------------------------------------------------------
(* How far a place of the code looks ahead.                                 *)

IfPattern   == Tok(1) = "if" /\ Tok(2) = "("
VarPattern  == /\ Tok(1) \in Idents \ (Keywords \union {"void"})
               /\ Tok(2) \in Idents
FuncPattern == /\ Cur.kind = "root"
               /\ Tok(1) \in Idents \ Keywords
               /\ Tok(2) \in Idents
               /\ Tok(3) = "("
StructPattern == /\ Cur.kind # "struct"
                 /\ Tok(1) = "struct" /\ Tok(2) \in Idents /\ Tok(3) = "{"
ExternPattern == Cur.kind # "struct" /\ Tok(1) = "extern" /\ Tok(2) \in Idents

\* Mutant of SingleLooks: a pattern of four tokens.
SingleLooksFour ==
    IF buf = <<>> \/ Tok(1) = ";" \/ (Inside /\ Tok(1) = "for") THEN 1
    ELSE IF Cur.kind = "struct" \/ (Inside /\ (Len(buf) < 2 \/ IfPattern \/ VarPattern)) THEN 2
    ELSE 4

SingleLooks ==
    IF buf = <<>> \/ Tok(1) = ";" \/ (Inside /\ Tok(1) = "for") THEN 1
    ELSE IF Cur.kind = "struct" \/ (Inside /\ (Len(buf) < 2 \/ IfPattern \/ VarPattern)) THEN 2
    ELSE 3

\* A place that is reached by a return goes on reading only after a success.
Looks(f) ==
    CASE f.pc = "single" -> SingleLooks
      [] f.pc \in {"root", "domain", "repeat", "combine", "selectEnd", "not",
                   "varValue", "keep", "functionEnd"} -> 0
      [] f.pc \in {"forStart", "forStep"} -> IF ret.ok \/ ~errs THEN 1 ELSE 0
      [] f.pc = "line" -> IF ret.ok \/ f.part = "loop" THEN 1 ELSE 0
      [] f.pc \in {"operator", "right", "colon", "initArg", "paren", "callArg",
                   "index", "value", "varSize", "ifCond", "block", "forCond",
                   "close"} -> IF ret.ok THEN 1 ELSE 0
      [] OTHER -> 1

Scan ==
    /\ verdict = "parsing"
    /\ ~ended
    /\ Len(buf) < Looks(Top)
    /\ \/ /\ given < Len(text)
          /\ buf' = Append(buf, text[given + 1])
          /\ given' = given + 1
          /\ ended' = FALSE
       \/ /\ given \in Len(text)..(Len(text) + MaxTokens - 1)
          /\ \E w \in Words : buf' = Append(buf, w)
          /\ given' = given + 1
          /\ ended' \in BOOLEAN
       \/ /\ given >= Len(text)
          /\ ended' = TRUE
          /\ UNCHANGED <<given, buf>>
    /\ UNCHANGED <<text, stack, ret, tables, errs, live, outcome>>

On(pc) ==
    /\ verdict = "parsing"
    /\ Top.pc = pc
    /\ ended \/ Len(buf) >= Looks(Top)
    /\ UNCHANGED textVars

Take(n) == buf' = SubSeq(buf, n + 1, Len(buf))

\* The innermost call goes on as the given frames, or returns.
Go(frames, n) == stack' = frames \o Tail(stack) /\ Take(n)
Give(r, n)    == stack' = Tail(stack) /\ Take(n) /\ ret' = r

\* It makes the calls of the frames, or goes on with a node it has made.
Calls(frames, n)    == Go(frames, n) /\ UNCHANGED <<ret, tables, errs, live, outcome>>
Makes(frames, r, n) == Go(frames, n) /\ ret' = r /\ live' = live + 1
                         /\ UNCHANGED <<tables, errs, outcome>>

\* It returns a node it was given, or one it has made.
Returns(r, n) == Give(r, n) /\ UNCHANGED <<tables, errs, live, outcome>>
Yields(r, n)  == Give(r, n) /\ live' = live + 1 /\ UNCHANGED <<tables, errs, outcome>>

\* It returns failure, with a message or without, after so many nodes that it
\* owns are deleted.
Quit(freed, n)   == Give(Failed, n) /\ live' = live - freed /\ UNCHANGED outcome
Fails(freed, n)  == Quit(freed, n) /\ errs' = TRUE /\ UNCHANGED tables
Shirks(freed, n) == Quit(freed, n) /\ UNCHANGED <<errs, tables>>

\* An assertion of the code, at its line.
Claim(holds, line) ==
    /\ verdict' = IF holds THEN verdict ELSE "aborted"
    /\ failed' = IF holds THEN failed ELSE line

\* The innermost domain gets an item; a domain is opened; the innermost closes.
Added(ss, size, rets) ==
    [ss EXCEPT ![1].size = @ + size, ![1].cnt = @ + 1, ![1].rets = @ \/ rets]
Opened(ss) == <<NewScope(Head(ss).kind)>> \o ss
Closed(ss) == [Tail(ss) EXCEPT ![1].size = @ + ss[1].size, ![1].rets = @ \/ ss[1].rets]

\* The innermost of these domains.
Nearest(in) == scopes[CHOOSE k \in in : \A j \in in : k <= j]

\* IsVariableDefined and GetVarDefExpByName, through the parents.
VarScopes(n)   == {k \in DOMAIN scopes : n \in DOMAIN scopes[k].vars}
IsVariable(n)  == VarScopes(n) # {}
VarOf(n)       == Nearest(VarScopes(n)).vars[n]

\* IsTypeDefined and GetStructDefineByName, the same way.  A structure is named by
\* its name: no other of that name is in sight as long as it is.
StructScopes(n)  == {k \in DOMAIN scopes : n \in DOMAIN scopes[k].structs}
IsTypeDefined(n) == StructScopes(n) # {} \/ \E k \in DOMAIN scopes : n \in scopes[k].externs
IsType(n)        == n \in Types \/ IsTypeDefined(n)
TypeNamed(n)     == IF n \in Types \/ StructScopes(n) # {} THEN n ELSE "extern"
IsStruct(t)      == StructScopes(t) # {}
Members(t)       == Nearest(StructScopes(t)).structs[t]

Var(type, arr) == [type |-> type, arr |-> arr]
Scalar(t)      == t \in {"int", "bool"}

\* IsTypeCompatible for types, and TypeInfo::IsTypeCompatible.
Converts(to, from)   == IF Scalar(to) THEN Scalar(from) ELSE to = "extern" /\ from = "extern"
Compatible(to, from) ==
    from.arr <= 0 /\ IF IsStruct(to) THEN from.type = to ELSE Converts(to, from.type)

-----------------------------------------------------------------------------
(* CompilingContext::Parse and ParseSingleExpression.                       *)

Init ==
    /\ text \in Openings
    /\ given = 0
    /\ ended = FALSE
    /\ buf = <<>>
    /\ stack = <<Single, Frame("root")>>
    /\ ret = Passed
    /\ scopes = <<NewScope("root")>>
    /\ funcs = [n \in Idents |-> NoFunc]
    /\ curFunc = None
    /\ errs = FALSE
    /\ live = 1
    /\ verdict = "parsing"
    /\ failed = 0

RootLoop == On("root") /\ ret.ok /\ Calls(<<Single, Top>>, 0)

\* Only the cursor is asked whether the text was read; the domain is deleted
\* now, or by KSC_Compile when it has been compiled.
Finish ==
    /\ On("root") /\ ~ret.ok
    /\ verdict' = IF ended /\ ~errs THEN "accepted" ELSE "rejected"
    /\ live' = live - Cur.size
    /\ UNCHANGED <<buf, stack, ret, tables, errs, failed>>

SingleEmpty == On("single") /\ Tok(1) = ";" /\ Returns(Passed, 1)

\* Nothing that may stand here: the caller sees no error.
SingleNone ==
    /\ On("single")
    /\ \/ Tok(1) = "eof"
       \/ /\ ~Inside /\ Tok(1) # ";"
          /\ ~FuncPattern /\ ~VarPattern /\ ~StructPattern /\ ~ExternPattern
    /\ Returns(Failed, 0)

SingleFor ==
    /\ On("single") /\ Inside /\ Tok(1) = "for"
    /\ Calls(<<Frame("for"), Frame("keep")>>, 1)

SingleIf ==
    /\ On("single") /\ Inside /\ IfPattern
    /\ Makes(Complex \o <<[pc |-> "ifCond", size |-> 1], Frame("keep")>>, ret, 2)

\* The statement is checked and given to the domain.
Keep ==
    /\ On("keep")
    /\ \/ ~ret.ok /\ Shirks(0, 0)
       \/ ret.ok /\ ret.type = "bad" /\ Fails(ret.size, 0)
       \/ /\ ret.ok /\ ret.type # "bad"
          /\ scopes' = Added(scopes, ret.size, ret.rets)
          /\ Give(Passed, 0)
          /\ UNCHANGED <<funcs, curFunc, errs, live, outcome>>

SingleFunction ==
    /\ On("single") /\ FuncPattern
    /\ IF IsType(Tok(1))
       THEN Makes(<<[pc |-> "args", size |-> 1, name |-> Tok(2), ret |-> TypeNamed(Tok(1)),
                     args |-> <<>>, names |-> <<>>]>>, ret, 3)
       ELSE Fails(0, 1)

SingleVars ==
    /\ On("single") /\ VarPattern /\ ~FuncPattern
    /\ IF IsType(Tok(1))
       THEN Calls(<<[pc |-> "varName", size |-> 0, type |-> TypeNamed(Tok(1)), cnt |-> 0,
                     vars |-> NoVars]>>, 1)
       ELSE Fails(0, 1)

\* The structure is a domain too, the innermost until its closing brace.
SingleStruct ==
    /\ On("single") /\ StructPattern
    /\ IF Tok(2) \in Names /\ ~IsTypeDefined(Tok(2)) /\ ~IsVariable(Tok(2))
       THEN /\ scopes' = <<NewScope("struct")>> \o scopes
            /\ live' = live + 1
            /\ Go(<<Frame("domain"), [pc |-> "structEnd", size |-> 0, name |-> Tok(2)]>>, 3)
            /\ UNCHANGED <<ret, funcs, curFunc, errs, outcome>>
       ELSE Fails(0, 2)

\* Neither a variable nor a type of that name is in the way.
SingleExtern ==
    /\ On("single") /\ ExternPattern
    /\ IF Tok(2) \in Names
       THEN Calls(<<[pc |-> "externEnd", size |-> 0, name |-> Tok(2)]>>, 2)
       ELSE Fails(0, 2)

ExternEnd ==
    /\ On("externEnd")
    /\ IF Tok(1) = ";"
       THEN /\ scopes' = [scopes EXCEPT ![1].externs = @ \union {Top.name}]
            /\ Give(Passed, 1)
            /\ UNCHANGED <<funcs, curFunc, errs, live, outcome>>
       ELSE Fails(0, 0)

AtValue == On("single") /\ Inside /\ Tok(1) \notin {"eof", ";", "for"}
             /\ ~IfPattern /\ ~VarPattern /\ ~StructPattern /\ ~ExternPattern

SingleReturn ==
    /\ AtValue /\ Tok(1) = "return"
    /\ Claim(curFunc # None, 643)
    /\ Go(<<Frame("return")>>, 1)
    /\ UNCHANGED <<ret, tables, errs, live>>

SingleValue ==
    /\ AtValue /\ Tok(1) # "return"
    /\ Calls(Complex \o <<[pc |-> "value", size |-> 0, isRet |-> FALSE]>>, 0)

\* "return;" leaves the ";" to the next statement.
ReturnVoid ==
    /\ On("return") /\ Tok(1) = ";"
    /\ IF funcs[curFunc].ret = "void"
       THEN /\ scopes' = Added(scopes, 1, TRUE)
            /\ live' = live + 1
            /\ Give(Passed, 0)
            /\ UNCHANGED <<funcs, curFunc, errs, outcome>>
       ELSE Fails(0, 0)

ReturnValue ==
    /\ On("return") /\ Tok(1) # ";"
    /\ Calls(Complex \o <<[pc |-> "value", size |-> 0, isRet |-> TRUE]>>, 0)

\* Without a ";" the expression is dropped, not deleted.
ValueNone    == On("value") /\ ~ret.ok /\ Shirks(0, 0)
ValueUnended == On("value") /\ ret.ok /\ Tok(1) # ";" /\ Fails(0, 1)

ValueEnded ==
    /\ On("value") /\ ret.ok /\ Tok(1) = ";"
    /\ LET own  == IF Top.isRet THEN 1 ELSE 0
           good == ret.type # "bad" /\ (Top.isRet => Compatible(funcs[curFunc].ret, ret))
       IN  IF good
           THEN /\ scopes' = Added(scopes, ret.size + own, Top.isRet)
                /\ live' = live + own
                /\ Give(Passed, 1)
                /\ UNCHANGED <<funcs, curFunc, errs, outcome>>
           ELSE Fails(ret.size, 1)

-----------------------------------------------------------------------------
(* ParseCodeDomain.                                                         *)

\* IsEOF looks at the cursor, whatever is still in the buffer.
DomainEnter ==
    /\ On("domain")
    /\ IF ended THEN Shirks(0, 0) ELSE Calls(<<Frame("open")>>, 0)

DomainBraces ==
    /\ On("open") /\ Tok(1) = "{"
    /\ scopes' = Opened(Added(scopes, 0, FALSE))
    /\ live' = live + 1
    /\ Go(<<Frame("domain"), Frame("close")>>, 1)
    /\ UNCHANGED <<ret, funcs, curFunc, errs, outcome>>

DomainPlain ==
    On("open") /\ Tok(1) # "{" /\ Calls(<<Single, Frame("repeat")>>, 0)

DomainClose ==
    /\ On("close")
    /\ scopes' = Closed(scopes)
    /\ IF ret.ok
       THEN /\ Give(IF Tok(1) = "}" THEN Passed ELSE Failed, 1)
            /\ errs' = (errs \/ Tok(1) # "}")
       ELSE Give(Failed, 0) /\ UNCHANGED errs
    /\ UNCHANGED <<funcs, curFunc, live, outcome>>

\* Mutant of DomainRepeat: mErrorMessages is not looked at.
DomainRepeatForgiving ==
    /\ On("repeat")
    /\ IF ret.ok THEN Calls(<<Single, Top>>, 0) ELSE Returns(Passed, 0)

\* Mutant of DomainRepeat: the loop does not look at the result.
DomainRepeatEndless == On("repeat") /\ Calls(<<Single, Top>>, 0)

\* The first statement that fails ends the domain; without a message that is
\* no failure of the domain.
DomainRepeat ==
    /\ On("repeat")
    /\ IF ret.ok THEN Calls(<<Single, Top>>, 0)
       ELSE Returns(IF errs THEN Failed ELSE Passed, 0)

-----------------------------------------------------------------------------
(* Exp_FunctionDecl::Parse, from the first token after "(".                 *)

ArgType ==
    /\ On("args") /\ Tok(1) # ")"
    /\ IF IsType(Tok(1))
       THEN Calls(<<[pc |-> "argName", size |-> Top.size, decl |-> Top, ref |-> "",
                     type |-> TypeNamed(Tok(1)), name |-> None]>>, 1)
       ELSE Fails(Top.size, 1)

\* With "&" the argument is in the host's layout.
ArgRef ==
    /\ On("argName") /\ Tok(1) \in {"&", "%"} /\ Top.ref = ""
    /\ Calls(<<[Top EXCEPT !.ref = Tok(1)]>>, 1)

\* Any token at all may be the name of an argument.
ArgName ==
    /\ On("argName") /\ ~(Tok(1) \in {"&", "%"} /\ Top.ref = "")
    /\ IF \A j \in DOMAIN Top.decl.names : Top.decl.names[j] # Tok(1)
       THEN Calls(<<[Top EXCEPT !.pc = "argEnd", !.name = Tok(1)]>>, 1)
       ELSE Fails(Top.size, 1)

WithArg(arr) ==
    [Top.decl EXCEPT !.names = Append(@, Top.name),
                     !.args  = Append(@, [type |-> Top.type, ref |-> Top.ref # "", arr |-> arr])]

\* The "," is optional.
ArgEnd ==
    /\ On("argEnd")
    /\ IF Tok(1) = "[" THEN Calls(<<[Top EXCEPT !.pc = "argArray"]>>, 1)
       ELSE Calls(<<WithArg(0)>>, IF Tok(1) = "," THEN 1 ELSE 0)

\* An array must be passed by reference, and in the layout of the compiler.
ArgArray ==
    /\ On("argArray")
    /\ IF Tok(1) = "]" /\ Top.ref = "%" THEN Calls(<<[Top EXCEPT !.pc = "argComma"]>>, 1)
       ELSE Fails(Top.size, 1)

ArgComma == On("argComma") /\ Calls(<<WithArg(-1)>>, IF Tok(1) = "," THEN 1 ELSE 0)

Body(name, again) == [pc |-> "body", size |-> 0, name |-> name, again |-> again]

\* Mutant of DeclareNew: the auto_ptr is read with get(), not release().
DeclareNewKept ==
    /\ On("args") /\ Tok(1) = ")" /\ ~funcs[Top.name].known
    /\ funcs' = [funcs EXCEPT ![Top.name] =
                    [NoFunc EXCEPT !.known = TRUE, !.ret = Top.ret,
                                   !.args = Top.args, !.names = Top.names]]
    /\ scopes' = Added(scopes, Top.size, FALSE)
    /\ Go(<<Body(Top.name, FALSE)>>, 1)
    /\ live' = live - Top.size
    /\ UNCHANGED <<ret, curFunc, errs, outcome>>

DeclareNew ==
    /\ On("args") /\ Tok(1) = ")" /\ ~funcs[Top.name].known
    /\ funcs' = [funcs EXCEPT ![Top.name] =
                    [NoFunc EXCEPT !.known = TRUE, !.ret = Top.ret,
                                   !.args = Top.args, !.names = Top.names]]
    /\ scopes' = Added(scopes, Top.size, FALSE)
    /\ Go(<<Body(Top.name, FALSE)>>, 1)
    /\ UNCHANGED <<ret, curFunc, errs, live, outcome>>

\* HasSamePrototype: whether an argument is an array is not compared, nor whether
\* it is for the host.
SamePrototype(f, g) ==
    /\ f.ret = g.ret
    /\ Len(f.args) = Len(g.args)
    /\ \A j \in DOMAIN f.args : f.args[j].type = g.args[j].type /\ f.args[j].ref = g.args[j].ref

DeclareAgain ==
    /\ On("args") /\ Tok(1) = ")" /\ funcs[Top.name].known
    /\ IF SamePrototype(funcs[Top.name], Top)
       THEN /\ Go(<<Body(Top.name, TRUE)>>, 1)
            /\ live' = live - Top.size
            /\ UNCHANGED <<ret, tables, errs, outcome>>
       ELSE Fails(Top.size, 1)

\* The arguments are those of the first declaration.
FunctionBody ==
    /\ On("body") /\ Tok(1) = "{" /\ ~funcs[Top.name].body
    /\ LET f == funcs[Top.name]
           n == Len(f.args)
       IN  IF Top.again /\ f.begun THEN Fails(0, 0)
           ELSE /\ scopes' =
                     <<[NewScope("function") EXCEPT !.size = n, !.cnt = n, !.vars =
                          [v \in {f.names[j] : j \in 1..n} |->
                             LET j == CHOOSE j \in 1..n : f.names[j] = v
                             IN  Var(f.args[j].type, f.args[j].arr)]]>> \o scopes
                /\ live' = live + n
                /\ Claim(curFunc = None, 1841)
                /\ curFunc' = Top.name
                /\ Go(<<Frame("domain"), [pc |-> "functionEnd", size |-> 0, name |-> Top.name]>>, 0)
                /\ UNCHANGED <<ret, funcs, errs>>

Prototype ==
    /\ On("body") /\ (Tok(1) = "{" => funcs[Top.name].body)
    /\ IF Tok(1) = ";" THEN Returns(Passed, 1) ELSE Fails(0, 0)

\* Mutant of FunctionEnd: "Bad function body" returns before mpCurrentFunc is cleared.
FunctionEndAfterReturn ==
    /\ On("functionEnd")
    /\ LET complete == ret.ok /\ (funcs[Top.name].ret # "void" => Cur.rets)
       IN  /\ funcs' = [funcs EXCEPT ![Top.name].begun = Cur.cnt > 0,
                                     ![Top.name].body = complete]
           /\ Give(IF complete THEN Passed ELSE Failed, 0)
           /\ errs' = (errs \/ (ret.ok /\ ~complete))
    /\ scopes' = Closed(scopes)
    /\ curFunc' = IF ret.ok THEN None ELSE curFunc
    /\ UNCHANGED <<live, outcome>>

FunctionEnd ==
    /\ On("functionEnd")
    /\ LET complete == ret.ok /\ (funcs[Top.name].ret # "void" => Cur.rets)
       IN  /\ funcs' = [funcs EXCEPT ![Top.name].begun = Cur.cnt > 0,
                                     ![Top.name].body = complete]
           /\ Give(IF complete THEN Passed ELSE Failed, 0)
           /\ errs' = (errs \/ (ret.ok /\ ~complete))
    /\ scopes' = Closed(scopes)
    /\ curFunc' = None
    /\ UNCHANGED <<live, outcome>>

-----------------------------------------------------------------------------
(* ParseComplexExpression and Exp_Select::Parse.                            *)

Level(op) == CASE op = "=" -> 50 [] op = "<" -> 80 [] op \in {"+", "&"} -> 100 [] op = "?" -> 300

\* The node and what its CheckSemantic will say: the types of the operands are
\* known now.  A "?" that comes first is taken for a binary operator.
Binary(op, l, r) ==
    LET values == Scalar(l.type) /\ Scalar(r.type)
        ints   == l.type = "int" /\ r.type = "int"
    IN  Exp(l.size + r.size + 1,
            CASE l.arr > 0 \/ r.arr > 0 -> "bad"
              [] op = "=" /\ IsStruct(l.type) /\ l.type = r.type -> l.type
              [] op = "=" /\ l.type = "extern" /\ r.type = "extern" -> "invalid"
              [] op = "=" /\ values /\ l.lval # "no" -> l.type
              [] op = "<" /\ ints -> "bool"
              [] op \in {"+", "&"} /\ ints -> "int"
              [] OTHER -> "bad")

\* Array types are compared by their elements.
Select(c, y, n) ==
    Exp(c.size + y.size + n.size + 1,
        IF c.type = "bool" /\ Scalar(y.type) /\ y.type = n.type THEN y.type ELSE "bad")

Operator ==
    /\ On("operator")
    /\ IF ret.ok /\ Tok(1) \in BinaryOps
       THEN Calls(<<Simple, [pc |-> "right", size |-> ret.size, op |-> Tok(1), left |-> ret]>>, 1)
       ELSE Returns(ret, 0)

RightMissing ==
    /\ On("right") /\ ~ret.ok
    /\ Claim(errs, 1213)
    /\ Give(Failed, 0)
    /\ live' = live - Top.size
    /\ UNCHANGED <<tables, errs>>

Combining(select) ==
    [pc |-> "combine", size |-> Top.size, op |-> Top.op, left |-> Top.left, select |-> select]

\* What comes after the right operand: the end, a "?" that takes that operand
\* alone as its condition, an operator that binds it more, or one that does not.
Right ==
    /\ On("right") /\ ret.ok
    /\ \/ /\ Tok(1) \notin BinaryOps
          /\ Yields(Binary(Top.op, Top.left, ret), 0)
       \/ /\ Tok(1) = "?"
          /\ Calls(Complex \o <<[pc |-> "colon", size |-> ret.size, cond |-> ret],
                                Combining(TRUE)>>, 1)
       \/ /\ Tok(1) \in BinaryOps \ {"?"} /\ Level(Tok(1)) > Level(Top.op)
          /\ Calls(<<Frame("operator"), Combining(FALSE)>>, 0)
       \/ /\ Tok(1) \in BinaryOps \ {"?"} /\ Level(Tok(1)) <= Level(Top.op)
          /\ Makes(<<Frame("operator")>>, Binary(Top.op, Top.left, ret), 0)

Combine ==
    /\ On("combine")
    /\ Claim(Top.select /\ ~ret.ok => errs, 1232)
    /\ Give(IF ret.ok THEN Binary(Top.op, Top.left, ret) ELSE Failed, 0)
    /\ live' = IF ret.ok THEN live + 1 ELSE live - Top.size
    /\ UNCHANGED <<tables, errs>>

\* On the error paths the condition, a raw pointer, is dropped, not deleted.
SelectYes ==
    /\ On("colon")
    /\ \/ ~ret.ok /\ Fails(0, 0)
       \/ ret.ok /\ Tok(1) # ":" /\ Fails(ret.size, 1)
       \/ /\ ret.ok /\ Tok(1) = ":"
          /\ Calls(Complex \o <<[pc |-> "selectEnd", size |-> Top.size + ret.size,
                                 cond |-> Top.cond, yes |-> ret]>>, 1)

\* Mutant of SelectNo: a missing false value is not reported.
SelectNoSilently ==
    /\ On("selectEnd")
    /\ IF ret.ok THEN Yields(Select(Top.cond, Top.yes, ret), 0) ELSE Shirks(Top.yes.size, 0)

SelectNo ==
    /\ On("selectEnd")
    /\ IF ret.ok THEN Yields(Select(Top.cond, Top.yes, ret), 0) ELSE Fails(Top.yes.size, 0)

-----------------------------------------------------------------------------
(* ParseSimpleExpression.                                                   *)

Postfix == Frame("postfix")

\* No token of an expression: nothing is taken and nothing reported.
SimpleNone ==
    /\ On("simple") /\ Tok(1) \notin Idents \union {"!", "num", "("}
    /\ Returns(Failed, 0)

Leaf(t) ==
    IF t = "num" THEN [Exp(1, "int") EXCEPT !.const = TRUE]
    ELSE IF IsVariable(t)
    THEN [Exp(1, VarOf(t).type) EXCEPT
            !.arr = VarOf(t).arr, !.mark = TRUE,
            !.lval = IF VarOf(t).arr = 0 /\ VarOf(t).type # "void" THEN "yes" ELSE "no"]
    ELSE Exp(1, "bool")

SimpleLeaf ==
    /\ On("simple") /\ Tok(1) # "int"
    /\ Tok(1) \in {"num", "true"} \/ (Tok(1) \in Idents /\ IsVariable(Tok(1)))
    /\ Makes(<<Postfix>>, Leaf(Tok(1)), 1)

SimpleOpen ==
    /\ On("simple")
    /\ \/ Tok(1) = "!"   /\ Calls(<<Simple, Frame("not")>>, 1)
       \/ Tok(1) = "("   /\ Calls(Complex \o <<Frame("paren")>>, 1)
       \/ Tok(1) = "int" /\ Calls(<<Frame("init")>>, 1)
       \/ /\ Tok(1) \in Idents \ {"int", "true"}
          /\ ~IsVariable(Tok(1)) /\ funcs[Tok(1)].known
          /\ Calls(<<[pc |-> "call", size |-> 0, name |-> Tok(1)]>>, 1)

SimpleUnknown ==
    /\ On("simple") /\ Tok(1) \in Idents \ {"int", "true"}
    /\ ~IsVariable(Tok(1)) /\ ~funcs[Tok(1)].known
    /\ Fails(0, 1)

SimpleNot ==
    /\ On("not")
    /\ IF ret.ok
       THEN Makes(<<Postfix>>,
                  [Exp(ret.size + 1, IF ret.type = "bool" /\ ret.arr <= 0 THEN "bool" ELSE "bad")
                     EXCEPT !.arr = ret.arr, !.mark = ret.mark], 0)
       ELSE Fails(0, 0)

SimpleParen ==
    /\ On("paren")
    /\ \/ ~ret.ok /\ Fails(0, 0)
       \/ ret.ok /\ Tok(1) # ")" /\ Fails(ret.size, 1)
       \/ ret.ok /\ Tok(1) = ")" /\ Calls(<<Postfix>>, 1)

SimpleInit ==
    /\ On("init")
    /\ IF Tok(1) = "(" THEN Calls(Complex \o <<Frame("initArg")>>, 1) ELSE Fails(0, 1)

\* After its one argument int( takes a "," for a ")".
SimpleInitArg ==
    /\ On("initArg")
    /\ \/ ~ret.ok /\ Shirks(0, 0)
       \/ ret.ok /\ Tok(1) \notin {")", ","} /\ Fails(ret.size, 1)
       \/ /\ ret.ok /\ Tok(1) \in {")", ","}
          /\ Makes(<<Postfix>>, Exp(ret.size + 1, IF ret.type = "int" THEN "int" ELSE "bad"), 1)

\* A call without arguments leaves its ")" behind.
SimpleCall ==
    /\ On("call")
    /\ \/ Tok(1) # "(" /\ Fails(0, 0)
       \/ /\ Tok(1) = "(" /\ funcs[Top.name].args = <<>>
          /\ Makes(<<Postfix>>, Exp(1, funcs[Top.name].ret), 1)
       \/ /\ Tok(1) = "(" /\ funcs[Top.name].args # <<>>
          /\ Calls(Complex \o <<[pc |-> "callArg", size |-> 0, name |-> Top.name,
                                 i |-> 1, good |-> TRUE]>>, 1)

SimpleCallArg ==
    /\ On("callArg")
    /\ LET args == funcs[Top.name].args
           last == Top.i = Len(args)
           arg  == args[Top.i]
           good == /\ Top.good
                   /\ IF arg.ref THEN ret.lval = "yes" /\ ret.type = arg.type /\ ret.arr = 0
                      ELSE Compatible(arg.type, ret)
           size == Top.size + ret.size
       IN  \/ ~ret.ok /\ Fails(Top.size, 0)
           \/ ret.ok /\ Tok(1) # (IF last THEN ")" ELSE ",") /\ Fails(size, 1)
           \/ /\ ret.ok /\ ~last /\ Tok(1) = ","
              /\ Calls(Complex \o <<[Top EXCEPT !.size = size, !.i = @ + 1, !.good = good]>>, 1)
           \/ /\ ret.ok /\ last /\ Tok(1) = ")"
              /\ Makes(<<Postfix>>, Exp(size + 1, IF good THEN funcs[Top.name].ret ELSE "bad"), 1)

SimplePostfix ==
    /\ On("postfix")
    /\ CASE Tok(1) = "[" -> Calls(Complex \o <<[pc |-> "index", size |-> ret.size, base |-> ret]>>, 1)
         [] Tok(1) = "." -> Calls(<<[pc |-> "dot", size |-> ret.size, base |-> ret]>>, 1)
         [] OTHER -> Returns(ret, 0)

\* Without a "]" the index is dropped, not deleted.
SimpleIndex ==
    /\ On("index")
    /\ LET good == ret.type = "int" /\ Top.base.arr # 0 /\ Top.base.type # "bad"
           node == [Exp(Top.size + ret.size + 1, IF good THEN Top.base.type ELSE "bad") EXCEPT
                      !.lval = IF good THEN "yes" ELSE "no", !.mark = good]
       IN  \/ ~ret.ok /\ Fails(Top.size, 0)
           \/ ret.ok /\ Tok(1) # "]" /\ Fails(Top.size, 1)
           \/ ret.ok /\ Tok(1) = "]" /\ Makes(<<Postfix>>, node, 1)

\* A member, or the one element of a value that is no structure.
Dot(e, n) ==
    LET node(type, arr, lval) ==
            [Exp(e.size + 1, type) EXCEPT !.arr = arr, !.mark = e.mark,
                                          !.lval = IF e.mark THEN lval ELSE "no"]
    IN  IF e.arr <= 0 /\ IsStruct(e.type) /\ n \in DOMAIN Members(e.type)
        THEN node(Members(e.type)[n].type, Members(e.type)[n].arr, "yes")
        ELSE IF e.arr <= 0 /\ Scalar(e.type) /\ n \in Swizzles THEN node(e.type, 0, "swizzle")
        ELSE Exp(e.size + 1, "bad")

SimpleDot ==
    /\ On("dot")
    /\ IF Tok(1) \in Idents THEN Makes(<<Postfix>>, Dot(Top.base, Tok(1)), 1)
       ELSE Fails(Top.size, 1)

-----------------------------------------------------------------------------
(* Exp_VarDef::Parse, from the first name, and the end of it in             *)
(* ParseSingleExpression.                                                   *)

\* The definitions before in the same list are not in the domain yet.
VarName ==
    /\ On("varName")
    /\ IF Tok(1) \in Names /\ ~IsTypeDefined(Tok(1)) /\ Tok(1) \notin DOMAIN Cur.vars
       THEN Calls(<<[pc |-> "varRest", size |-> Top.size, type |-> Top.type, cnt |-> Top.cnt,
                     vars |-> Top.vars, name |-> Tok(1), arr |-> 0]>>, 1)
       ELSE Fails(Top.size, 1)

\* The definition is made, with or without an initial value.
Defined(f, size) ==
    [pc |-> "varNext", size |-> f.size + size + 1, type |-> f.type, cnt |-> f.cnt + 1,
     vars |-> f.name :> Var(f.type, f.arr) @@ f.vars]

\* No initial value in a structure, where the "=" is not taken, nor for one.
VarRest ==
    /\ On("varRest")
    /\ LET sized == Top.arr > 0
       IN  \/ Tok(1) = "[" /\ ~sized /\ Calls(Complex \o <<[Top EXCEPT !.pc = "varSize"]>>, 1)
           \/ Tok(1) = "=" /\ Cur.kind = "struct" /\ Fails(Top.size, 0)
           \/ Tok(1) = "=" /\ Cur.kind # "struct" /\ IsStruct(Top.type) /\ Fails(Top.size, 1)
           \/ /\ Tok(1) = "=" /\ Cur.kind # "struct" /\ ~IsStruct(Top.type)
              /\ Calls(Complex \o <<[Top EXCEPT !.pc = "varValue"]>>, 1)
           \/ /\ Tok(1) # "=" /\ (Tok(1) = "[" => sized)
              /\ Makes(<<Defined(Top, 0)>>, ret, 0)

\* Mutant of VarSize: the constant is not deleted once its value is read.
VarSizeKept ==
    /\ On("varSize")
    /\ \/ ~ret.ok /\ Fails(Top.size, 0)
       \/ ret.ok /\ Tok(1) # "]" /\ Fails(Top.size, 1)
       \/ ret.ok /\ Tok(1) = "]" /\ ~ret.const /\ Fails(Top.size + ret.size, 1)
       \/ /\ ret.ok /\ Tok(1) = "]" /\ ret.const
          /\ Go(<<[Top EXCEPT !.pc = "varRest", !.arr = 1]>>, 1)
          /\ UNCHANGED live
          /\ UNCHANGED <<ret, tables, errs, outcome>>

\* Without a "]" the size is dropped, not deleted.
VarSize ==
    /\ On("varSize")
    /\ \/ ~ret.ok /\ Fails(Top.size, 0)
       \/ ret.ok /\ Tok(1) # "]" /\ Fails(Top.size, 1)
       \/ ret.ok /\ Tok(1) = "]" /\ ~ret.const /\ Fails(Top.size + ret.size, 1)
       \/ /\ ret.ok /\ Tok(1) = "]" /\ ret.const
          /\ Go(<<[Top EXCEPT !.pc = "varRest", !.arr = 1]>>, 1)
          /\ live' = live - ret.size
          /\ UNCHANGED <<ret, tables, errs, outcome>>

\* A missing initial value or one that fails its check is not reported here.
VarValue ==
    /\ On("varValue")
    /\ \/ ~ret.ok /\ Shirks(Top.size, 0)
       \/ ret.ok /\ ret.type = "bad" /\ Shirks(Top.size + ret.size, 0)
       \/ ret.ok /\ ret.type # "bad" /\ ~Converts(Top.type, ret.type) /\ Fails(Top.size + ret.size, 0)
       \/ ret.ok /\ Converts(Top.type, ret.type) /\ Makes(<<Defined(Top, ret.size)>>, ret, 0)

\* The ";" is left to the next statement, and nobody misses it.
VarNext ==
    /\ On("varNext")
    /\ IF Tok(1) = "," THEN Calls(<<[Top EXCEPT !.pc = "varName"]>>, 1)
       ELSE /\ scopes' = [scopes EXCEPT
                 ![1].size = @ + Top.size, ![1].cnt = @ + Top.cnt,
                 ![1].vars = Top.vars @@ @]
            /\ Give(Passed, 0)
            /\ UNCHANGED <<funcs, curFunc, errs, live, outcome>>

-----------------------------------------------------------------------------
(* Exp_StructDef::Parse, from its closing brace.                            *)

StructFails(n, reporting) ==
    /\ Quit(Cur.size, n)
    /\ errs' = (errs \/ reporting)
    /\ scopes' = Tail(scopes)
    /\ UNCHANGED <<funcs, curFunc>>

\* What ParseCodeDomain returned is not looked at.  A structure without members is
\* not accepted, but nobody says so.
StructEnd ==
    /\ On("structEnd")
    /\ \/ Tok(1) # "}" /\ StructFails(0, TRUE)
       \/ Tok(1) = "}" /\ (errs \/ Cur.vars = NoVars) /\ StructFails(1, FALSE)
       \/ Tok(1) = "}" /\ ~errs /\ Cur.vars # NoVars /\ Calls(<<[Top EXCEPT !.pc = "structDone"]>>, 1)

StructDone ==
    /\ On("structDone")
    /\ IF Tok(1) = ";"
       THEN /\ scopes' = [Tail(scopes) EXCEPT
                 ![1].size = @ + Cur.size, ![1].cnt = @ + 1,
                 ![1].structs = Top.name :> Cur.vars @@ @]
            /\ Give(Passed, 1)
            /\ UNCHANGED <<funcs, curFunc, errs, live, outcome>>
       ELSE StructFails(1, TRUE)

-----------------------------------------------------------------------------
(* Exp_If::Parse and Exp_For::Parse.                                        *)

\* A part is the then or the else part of an if, or the body of a for.
Part(part, size, cond, rets) ==
    [pc |-> "part", size |-> size, part |-> part, cond |-> cond, rets |-> rets]

IfCond ==
    /\ On("ifCond")
    /\ \/ ~ret.ok /\ Shirks(Top.size, 0)
       \/ ret.ok /\ Tok(1) # ")" /\ Fails(Top.size + ret.size, 1)
       \/ /\ ret.ok /\ Tok(1) = ")"
          /\ Calls(<<Part("then", Top.size + ret.size, ret.type, FALSE)>>, 1)

PartOpen ==
    /\ On("part")
    /\ scopes' = Opened(scopes)
    /\ live' = live + 1
    /\ IF Tok(1) = "{"
       THEN Go(<<Frame("domain"), [Top EXCEPT !.pc = "block"]>>, 1)
       ELSE Go(<<Single, [Top EXCEPT !.pc = "line"]>>, 0)
    /\ UNCHANGED <<ret, funcs, curFunc, errs, outcome>>

\* The domains of the statement: its part and, for a loop, the head around it.
Depth == IF Top.part = "loop" THEN 2 ELSE 1
Owned == Top.size + (IF Top.part = "loop" THEN scopes[1].size + scopes[2].size
                                          ELSE scopes[1].size)
Leaving(ss, n) == SubSeq(ss, n + 1, Len(ss))
Tests(t) == Scalar(t) \/ t = "extern"   \* may be the condition of an if

PartFails(n, reporting) ==
    /\ Quit(Owned, n)
    /\ errs' = (errs \/ reporting)
    /\ scopes' = Leaving(scopes, Depth)

PartDone(n) ==
    /\ scopes' = Leaving(scopes, Depth)
    /\ CASE Top.part = "then" ->
              Go(<<[pc |-> "else", size |-> Owned, cond |-> Top.cond, rets |-> Cur.rets]>>, n)
              /\ UNCHANGED ret
         [] Top.part = "else" ->
              Give(Statement(Owned, Tests(Top.cond), Top.rets /\ Cur.rets), n)
         [] Top.part = "loop" -> Give(Statement(Owned, Top.cond = "bool", FALSE), n)
    /\ UNCHANGED <<errs, live, outcome>>

\* Any token ends the then part; only "}" the others.
PartBlock ==
    /\ On("block")
    /\ \/ ~ret.ok /\ PartFails(0, FALSE)
       \/ ret.ok /\ Top.part # "then" /\ Tok(1) # "}" /\ PartFails(1, TRUE)
       \/ ret.ok /\ (Top.part = "then" \/ Tok(1) = "}") /\ PartDone(1)
    /\ UNCHANGED <<funcs, curFunc>>

\* A statement without braces, which may have taken its own ";", needs another.
PartLine ==
    /\ On("line")
    /\ \/ ~ret.ok /\ PartFails(IF Top.part = "loop" THEN 1 ELSE 0, TRUE)
       \/ ret.ok /\ Tok(1) # ";" /\ PartFails(1, TRUE)
       \/ ret.ok /\ Tok(1) = ";" /\ PartDone(1)
    /\ UNCHANGED <<funcs, curFunc>>

IfElse ==
    /\ On("else")
    /\ IF Tok(1) = "else" THEN Calls(<<Part("else", Top.size, Top.cond, Top.rets)>>, 1)
       ELSE Returns(Statement(Top.size, Tests(Top.cond), FALSE), 0)

ForOpen ==
    /\ On("for")
    /\ IF Tok(1) = "("
       THEN /\ scopes' = Opened(scopes)
            /\ live' = live + 2
            /\ Go(<<Single, [pc |-> "forStart", size |-> 1]>>, 1)
            /\ UNCHANGED <<ret, funcs, curFunc, errs, outcome>>
       ELSE Shirks(0, 1)

\* The head is deleted with what it holds; the node just parsed is not.
HeadFails(n) == Quit(Top.size + Cur.size, n) /\ errs' = TRUE /\ scopes' = Tail(scopes)

\* An expression or, for a missing one, an Exp_Nop goes into the head.
HeadItem ==
    /\ scopes' = Added(scopes, IF ret.ok THEN ret.size ELSE 1, FALSE)
    /\ live' = IF ret.ok THEN live ELSE live + 1

ForStart ==
    /\ On("forStart")
    /\ LET one == ret.ok => Cur.cnt = 1
       IN  \/ ~ret.ok /\ errs /\ HeadFails(0)
           \/ ~one /\ Claim(FALSE, 2258) /\ UNCHANGED <<buf, stack, ret, scopes, errs, live>>
           \/ one /\ (ret.ok \/ ~errs) /\ Tok(1) # ";" /\ HeadFails(1)
           \/ /\ one /\ (ret.ok \/ ~errs) /\ Tok(1) = ";"
              /\ IF ret.ok THEN UNCHANGED <<scopes, live>> ELSE HeadItem
              /\ Go(Complex \o <<[Top EXCEPT !.pc = "forCond"]>>, 1)
              /\ UNCHANGED <<ret, errs, outcome>>
    /\ UNCHANGED <<funcs, curFunc>>

ForCond ==
    /\ On("forCond")
    /\ \/ ~ret.ok /\ HeadFails(0)
       \/ ret.ok /\ Tok(1) # ";" /\ HeadFails(1)
       \/ /\ ret.ok /\ Tok(1) = ";"
          /\ HeadItem
          /\ Claim(Cur.cnt + 1 = 2, 2284)
          /\ Go(Complex \o <<[pc |-> "forStep", size |-> Top.size, cond |-> ret.type]>>, 1)
          /\ UNCHANGED <<ret, errs>>
    /\ UNCHANGED <<funcs, curFunc>>

ForStep ==
    /\ On("forStep")
    /\ \/ ~ret.ok /\ errs /\ HeadFails(0)
       \/ (ret.ok \/ ~errs) /\ Tok(1) # ")" /\ HeadFails(1)
       \/ /\ (ret.ok \/ ~errs) /\ Tok(1) = ")"
          /\ HeadItem
          /\ Claim(Cur.cnt + 1 = 3, 2310)
          /\ Go(<<Part("loop", Top.size, Top.cond, FALSE)>>, 1)
          /\ UNCHANGED <<ret, errs>>
    /\ UNCHANGED <<funcs, curFunc>>

-----------------------------------------------------------------------------

Statements ==
    \/ RootLoop \/ Finish \/ SingleEmpty \/ SingleNone \/ SingleFor \/ SingleIf \/ Keep
    \/ SingleFunction \/ SingleVars \/ SingleStruct \/ SingleExtern \/ ExternEnd
    \/ SingleReturn \/ SingleValue \/ ReturnVoid \/ ReturnValue \/ ValueNone \/ ValueUnended \/ ValueEnded
    \/ DomainEnter \/ DomainBraces \/ DomainPlain \/ DomainClose \/ DomainRepeat

Definitions ==
    \/ ArgType \/ ArgRef \/ ArgName \/ ArgEnd \/ ArgArray \/ ArgComma
    \/ DeclareNew \/ DeclareAgain \/ FunctionBody
    \/ Prototype \/ FunctionEnd \/ VarName \/ VarRest \/ VarSize \/ VarValue \/ VarNext
    \/ StructEnd \/ StructDone

Expressions ==
    \/ Operator \/ RightMissing \/ Right \/ Combine \/ SelectYes \/ SelectNo
    \/ SimpleNone \/ SimpleLeaf \/ SimpleOpen \/ SimpleUnknown \/ SimpleNot
    \/ SimpleParen \/ SimpleInit \/ SimpleInitArg \/ SimpleCall \/ SimpleCallArg
    \/ SimplePostfix \/ SimpleIndex \/ SimpleDot

Compounds ==
    \/ IfCond \/ PartOpen \/ PartBlock \/ PartLine \/ IfElse
    \/ ForOpen \/ ForStart \/ ForCond \/ ForStep

Next == Scan \/ Statements \/ Definitions \/ Expressions \/ Compounds

Spec     == Init /\ [][Next]_vars
FairSpec == Spec /\ WF_vars(Next)

-----------------------------------------------------------------------------

\* The types of the variables; the buffer never holds more than the three tokens
\* that Tokenizer is asked for.
TypeOK ==
    /\ Len(buf) <= 3
    /\ live \in Nat
    /\ scopes # <<>>
    /\ curFunc \in Idents \union {None}
    /\ verdict \in {"parsing", "accepted", "rejected", "aborted"}

\* The AST nodes owned by the calls in progress and by the open domains exist:
\* no path of the parser, however it fails, deletes a node that somebody still
\* owns (the auto_ptr hand-overs of ParseComplexExpression and the others).
Held == Sum([k \in DOMAIN stack |-> stack[k].size])
          + Sum([k \in DOMAIN scopes |-> scopes[k].size])
NothingFreedTwice == verdict = "parsing" => Held <= live

\* When a program is accepted and its domain deleted, s_instances is as it was:
\* every path that loses a node is one that reports an error.
AcceptedLeaksNothing == verdict = "accepted" => live = 0

\* Of the assertions on the way, 643, 1232, 1841, 2284 and 2310 hold.
AssertionsHold == failed \in {0, 1213, 2258}

\* mpCurrentFunc, which "return" takes for the function it leaves and which must be
\* clear before another body begins, is set exactly while the call that reads a
\* function's body waits for it, on whatever path the body fails.
CurrentFunctionIsOpen ==
    verdict = "parsing" =>
        (curFunc # None <=> \E k \in DOMAIN stack : stack[k].pc = "functionEnd")

\* After an error was reported nothing more is given to a domain and no function
\* gets its body: the error travels to Parse.
Items == Sum([k \in DOMAIN scopes |-> scopes[k].cnt])
ErrorsAreFinal ==
    [][errs => /\ Items' <= Items
               /\ \A n \in Idents : funcs'[n].body => funcs[n].body]_vars

\* The parser comes to an end on every text.
ParseEnds == <>(verdict # "parsing")

-----------------------------------------------------------------------------

\* KSC_Initialize fails on bad syntax: what is accepted has been read to its end.
AcceptedIsRead == verdict = "accepted" => buf = <<>>
=============================================================================
