------------------------------ MODULE CodeGen ------------------------------
(***************************************************************************)
(* Code generation for one function (src/src/LLVM_IR_Gen.cpp): the AST of  *)
(* its body is walked once and leaves a control flow graph of basic blocks *)
(* behind; then the graph is verified and, as compiled code, executed.     *)
(*                                                                         *)
(* A statement is a record whose field k is                                *)
(*   "exp"   a value expression, with the visible effect n                 *)
(*   "ret"   return v;                                                     *)
(*   "leave" return;                                                       *)
(*   "dom"   { body }                                                      *)
(*   "if"    if (...) { body } else { other }                              *)
(*   "for"   for (...; ...; ...) { body }                                  *)
(* Values and types do not matter to the graph.  What an expression does   *)
(* is an event; what a condition yields is chosen when it is evaluated.    *)
(***************************************************************************)
EXTENDS Naturals, Sequences, FiniteSets

CONSTANTS Functions,  \* the functions compiled: [void : BOOLEAN, body : statements]
          MaxTests,   \* bound: conditions that may come out true or false
          MaxNesting  \* bound: how deep the statements of a function are nested

VARIABLES func,    \* the function that is compiled
          blocks,  \* the basic blocks: instructions and the incoming PHI edges
          placed,  \* getBasicBlockList(): the blocks that are in the function
          cur,     \* the builder's insert block
          work,    \* the stack of the GenerateCode calls in progress
          phase,   \* emit, verify, run, done or rejected
          at,      \* the block and the instruction that run
          events,  \* what the run did
          tests,   \* how its conditions came out
          retValue \* the content of _retValue

vars == <<func, blocks, placed, cur, work, phase, at, events, tests, retValue>>
emitVars == <<blocks, placed, cur, work>>
runVars  == <<at, events, tests, retValue>>

Undefined == 0    \* what _retValue holds before a store: no statement returns 0

NewBlock == [ins |-> <<>>, phi |-> {}]

Event(e)      == [i |-> "event", e |-> e]
Store(v)      == [i |-> "store", v |-> v]
Br(b)         == [i |-> "br", to |-> {b}]
CondBr(t, e)  == [i |-> "cbr", yes |-> t, no |-> e, to |-> {t, e}]
Ret           == [i |-> "ret", to |-> {}]

\* The lists of statements right inside a list, and all those of a body.
Inner(ss) ==
    {ss[j].body : j \in {i \in DOMAIN ss : ss[i].k \in {"dom", "if", "for"}}}
      \union {ss[j].other : j \in {i \in DOMAIN ss : ss[i].k = "if"}}

Lists(body) ==
    LET nested[n \in 0..MaxNesting] ==
            IF n = 0 THEN {}
            ELSE UNION {Inner(ss) : ss \in {body} \union nested[n - 1]}
    IN  {body} \union nested[MaxNesting]

\* Some statement of the body, at any depth, is of kind k.
Uses(body, k) == \E ss \in Lists(body) : \E j \in DOMAIN ss : ss[j].k = k

\* No function is nested deeper than the bound says.
ASSUME BodiesAreLists ==
    /\ MaxNesting \in Nat
    /\ \A f \in Functions : \A ss \in Lists(f.body) :
          ss \in Seq({ss[j] : j \in DOMAIN ss}) /\ Inner(ss) \subseteq Lists(f.body)

IsTerminator(ins) == ins.i \in {"br", "cbr", "ret"}

EntryBlock == 1
ExitBlock  == 2

\* A frame of the walk: the statements of a domain still to be generated, or
\* what an if, a for or the function does after the domain inside it.
Domain(ss)        == [k |-> "domain", ss |-> ss]
AfterThen(ss, e, m) == [k |-> "afterThen", ss |-> ss, else |-> e, merge |-> m]
AfterElse(t, m)   == [k |-> "afterElse", then |-> t, merge |-> m]
AfterBody(l)      == [k |-> "afterBody", loop |-> l]
AfterFunction     == [k |-> "afterFunction"]

Push(frames) == work' = frames \o Tail(work)

\* The builder appends to the insert block, whatever that block ends with.
Emit(bs, b, instrs) == [bs EXCEPT ![b].ins = @ \o instrs]

Init ==
    /\ func \in Functions
    /\ blocks = <<NewBlock, NewBlock>>
    /\ placed = {EntryBlock}
    /\ cur = EntryBlock
    /\ work = <<Domain(func.body), AfterFunction>>
    /\ phase = "emit"
    /\ at = <<EntryBlock, 1>>
    /\ events = <<>>
    /\ tests = <<>>
    /\ retValue = Undefined

\* The next statement of the innermost domain is of kind k.
AtStatement(k) ==
    /\ phase = "emit"
    /\ Head(work).k = "domain"
    /\ Head(work).ss # <<>>
    /\ Head(Head(work).ss).k = k

Stmt == Head(Head(work).ss)
Rest == Domain(Tail(Head(work).ss))

AtFrame(k) == phase = "emit" /\ Head(work).k = k

GenExpression ==
    /\ AtStatement("exp")
    /\ blocks' = Emit(blocks, cur, <<Event(Stmt.n)>>)
    /\ Push(<<Rest>>)
    /\ UNCHANGED <<func, placed, cur, phase, runVars>>

\* The value goes to _retValue; no branch to the exit block is made.
GenReturnValue ==
    /\ AtStatement("ret")
    /\ blocks' = Emit(blocks, cur, <<Store(Stmt.v)>>)
    /\ Push(<<Rest>>)
    /\ UNCHANGED <<func, placed, cur, phase, runVars>>

\* The branch is made, and the insert block stays the one it ends.
GenReturnVoid ==
    /\ AtStatement("leave")
    /\ blocks' = Emit(blocks, cur, <<Br(ExitBlock)>>)
    /\ Push(<<Rest>>)
    /\ UNCHANGED <<func, placed, cur, phase, runVars>>

GenDomain ==
    /\ AtStatement("dom")
    /\ Push(<<Domain(Stmt.body), Rest>>)
    /\ UNCHANGED <<func, blocks, placed, cur, phase, runVars>>

EndDomain ==
    /\ AtFrame("domain")
    /\ Head(work).ss = <<>>
    /\ Push(<<>>)
    /\ UNCHANGED <<func, blocks, placed, cur, phase, runVars>>

\* Mutant of GenIf: the targets of the branch are swapped.
GenIfSwapped ==
    /\ AtStatement("if")
    /\ LET t == Len(blocks) + 1
           e == t + 1
           m == t + 2
       IN  /\ blocks' = Emit(blocks, cur, <<CondBr(e, t)>>)
                          \o <<NewBlock, NewBlock, NewBlock>>
           /\ placed' = placed \union {t}
           /\ cur' = t
           /\ Push(<<Domain(Stmt.body), AfterThen(Stmt.other, e, m), Rest>>)
    /\ UNCHANGED <<func, phase, runVars>>

GenIf ==
    /\ AtStatement("if")
    /\ LET t == Len(blocks) + 1
           e == Len(blocks) + 2
           m == Len(blocks) + 3
       IN  /\ blocks' = Emit(blocks, cur, <<CondBr(t, e)>>)
                          \o <<NewBlock, NewBlock, NewBlock>>
           /\ placed' = placed \union {t}
           /\ cur' = t
           /\ Push(<<Domain(Stmt.body), AfterThen(Stmt.other, e, m), Rest>>)
    /\ UNCHANGED <<func, phase, runVars>>

\* Mutant of GenElse: the then edge of the PHI is that of the block the then
\* part began in.
GenElseStaleEdge ==
    /\ AtFrame("afterThen")
    /\ LET f == Head(work)
       IN  /\ blocks' = Emit(blocks, cur, <<Br(f.merge)>>)
           /\ placed' = placed \union {f.else}
           /\ cur' = f.else
           /\ Push(<<Domain(f.ss), AfterElse(f.else - 1, f.merge)>>)
    /\ UNCHANGED <<func, phase, runVars>>

\* Mutant of GenElse: the else block is not appended to the function.
GenElseUnplaced ==
    /\ AtFrame("afterThen")
    /\ LET f == Head(work)
       IN  /\ blocks' = Emit(blocks, cur, <<Br(f.merge)>>)
           /\ cur' = f.else
           /\ Push(<<Domain(f.ss), AfterElse(cur, f.merge)>>)
    /\ UNCHANGED <<func, phase, placed, runVars>>

\* The then part may have left the builder in another block than it began in.
GenElse ==
    /\ AtFrame("afterThen")
    /\ LET f == Head(work)
       IN  /\ blocks' = Emit(blocks, cur, <<Br(f.merge)>>)
           /\ placed' = placed \union {f.else}
           /\ cur' = f.else
           /\ Push(<<Domain(f.ss), AfterElse(cur, f.merge)>>)
    /\ UNCHANGED <<func, phase, runVars>>

GenMerge ==
    /\ AtFrame("afterElse")
    /\ LET f == Head(work)
       IN  /\ blocks' = [Emit(blocks, cur, <<Br(f.merge)>>)
                           EXCEPT ![f.merge].phi = {f.then, cur}]
           /\ placed' = placed \union {f.merge}
           /\ cur' = f.merge
           /\ Push(<<>>)
    /\ UNCHANGED <<func, phase, runVars>>

\* The loop block follows the start expression; no test comes before the body.
GenFor ==
    /\ AtStatement("for")
    /\ LET l == Len(blocks) + 1
       IN  /\ blocks' = Append(Emit(blocks, cur, <<Event("start"), Br(l)>>),
                               [NewBlock EXCEPT !.phi = {cur}])
           /\ placed' = placed \union {l}
           /\ cur' = l
           /\ Push(<<Domain(Stmt.body), AfterBody(l), Rest>>)
    /\ UNCHANGED <<func, phase, runVars>>

\* Mutant of GenForEnd: the block after the loop is entered without being
\* appended to the function.
GenForEndUnplaced ==
    /\ AtFrame("afterBody")
    /\ LET l == Head(work).loop
           a == Len(blocks) + 1
       IN  /\ blocks' = Append([Emit(blocks, cur, <<Event("step"), CondBr(l, a)>>)
                                  EXCEPT ![l].phi = @ \union {cur}],
                               NewBlock)
           /\ cur' = a
    /\ Push(<<>>)
    /\ UNCHANGED <<func, placed, phase, runVars>>

\* Mutant of GenForEnd: the condition is not used, and the step not generated.
GenForEndEndless ==
    /\ AtFrame("afterBody")
    /\ LET l == Head(work).loop
           a == Len(blocks) + 1
       IN  /\ blocks' = Append([Emit(blocks, cur, <<Br(l)>>)
                                  EXCEPT ![l].phi = @ \union {cur}],
                               NewBlock)
           /\ placed' = placed \union {a}
           /\ cur' = a
    /\ Push(<<>>)
    /\ UNCHANGED <<func, phase, runVars>>

GenForEnd ==
    /\ AtFrame("afterBody")
    /\ LET l == Head(work).loop
           a == Len(blocks) + 1
       IN  /\ blocks' = Append([Emit(blocks, cur, <<Event("step"), CondBr(l, a)>>)
                                  EXCEPT ![l].phi = @ \union {cur}],
                               NewBlock)
           /\ placed' = placed \union {a}
           /\ cur' = a
    /\ Push(<<>>)
    /\ UNCHANGED <<func, phase, runVars>>

GenExit ==
    /\ AtFrame("afterFunction")
    /\ blocks' = Emit(Emit(blocks, cur, <<Br(ExitBlock)>>), ExitBlock, <<Ret>>)
    /\ placed' = placed \union {ExitBlock}
    /\ cur' = ExitBlock
    /\ Push(<<>>)
    /\ phase' = "verify"
    /\ UNCHANGED <<func, runVars>>

-----------------------------------------------------------------------------
(* Verification and execution: LLVM, as KSC_GetFunctionPtr uses it.          *)

Terminated(b) ==
    LET ins == blocks[b].ins
    IN  /\ ins # <<>>
        /\ IsTerminator(ins[Len(ins)])
        /\ \A j \in 1..(Len(ins) - 1) : ~IsTerminator(ins[j])

Successors(b)   == UNION {blocks[b].ins[j].to : j \in {i \in DOMAIN blocks[b].ins :
                                                 IsTerminator(blocks[b].ins[i])}}
Predecessors(b) == {p \in placed : b \in Successors(p)}

\* What verifyFunction demands of a function.
WellFormed ==
    \A b \in placed : /\ Terminated(b)
                      /\ Successors(b) \subseteq placed
                      /\ blocks[b].phi # {} => blocks[b].phi = Predecessors(b)

Verify ==
    /\ phase = "verify"
    /\ phase' = IF WellFormed THEN "run" ELSE "rejected"
    /\ UNCHANGED <<func, emitVars, runVars>>

Running(kind) == phase = "run" /\ blocks[at[1]].ins[at[2]].i = kind
Instr == blocks[at[1]].ins[at[2]]

RunEvent ==
    /\ Running("event")
    /\ events' = Append(events, Instr.e)
    /\ at' = <<at[1], at[2] + 1>>
    /\ UNCHANGED <<func, emitVars, phase, tests, retValue>>

RunStore ==
    /\ Running("store")
    /\ retValue' = Instr.v
    /\ at' = <<at[1], at[2] + 1>>
    /\ UNCHANGED <<func, emitVars, phase, events, tests>>

RunBr ==
    /\ Running("br")
    /\ \E b \in Instr.to : at' = <<b, 1>>
    /\ UNCHANGED <<func, emitVars, phase, events, tests, retValue>>

RunCondBr ==
    /\ Running("cbr")
    /\ \E out \in IF Len(tests) < MaxTests THEN BOOLEAN ELSE {FALSE} :
          /\ tests' = Append(tests, out)
          /\ events' = Append(events, IF out THEN "yes" ELSE "no")
          /\ at' = <<IF out THEN Instr.yes ELSE Instr.no, 1>>
    /\ UNCHANGED <<func, emitVars, phase, retValue>>

RunRet ==
    /\ Running("ret")
    /\ phase' = "done"
    /\ UNCHANGED <<func, emitVars, runVars>>

GenStatement == GenExpression \/ GenReturnValue \/ GenReturnVoid \/ GenDomain
                  \/ GenIf \/ GenFor
GenFrame == EndDomain \/ GenElse \/ GenMerge \/ GenForEnd \/ GenExit
Execute  == RunEvent \/ RunStore \/ RunBr \/ RunCondBr \/ RunRet

Next == GenStatement \/ GenFrame \/ Verify \/ Execute

Spec     == Init /\ [][Next]_vars
FairSpec == Spec /\ WF_vars(Next)
-----------------------------------------------------------------------------

\* The types of the variables: the run stays in the function, and what is in
\* _retValue was returned by one of its statements.
TypeOK ==
    /\ placed \subseteq DOMAIN blocks
    /\ \A b \in DOMAIN blocks : blocks[b].phi \subseteq DOMAIN blocks
    /\ cur \in placed
    /\ phase \in {"emit", "verify", "run", "done", "rejected"}
    /\ tests \in Seq(BOOLEAN)
    /\ at[1] \in placed
    /\ at[2] \in DOMAIN blocks[at[1]].ins \/ phase \in {"emit", "verify", "rejected"}
    /\ retValue # Undefined =>
          \E ss \in Lists(func.body) :
             \E j \in DOMAIN ss : ss[j].k = "ret" /\ ss[j].v = retValue

\* Every function without an explicit "return;" passes the verifier: each block
\* is ended once, by its last instruction, no branch leaves the function, and
\* every PHI has exactly the predecessors of its block, however ifs and loops
\* are nested (GenerateCode of Exp_If, Exp_For and Exp_FunctionDecl).
VerifierAccepts == phase = "rejected" => Uses(func.body, "leave")

\* No block that was created is forgotten: when the walk ends all are in the
\* function (else, ifcont and _exit are created without one).
NoBlockLost == phase # "emit" => placed = DOMAIN blocks
=============================================================================
