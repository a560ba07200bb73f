----------------------------- MODULE Semantics -----------------------------
(***************************************************************************)
(* The meaning of a function body, given how its conditions come out, and  *)
(* the front end's test that all its paths return a value.  Statements are *)
(* the records of the module CodeGen.                                      *)
(***************************************************************************)
EXTENDS Naturals, Sequences

\* A state of the interpreter: what happened, the returned value, the outcomes
\* that are left, whether the function has ended.
Start(tests) == [events |-> <<>>, ret |-> 0, tests |-> tests, ended |-> FALSE]

Do(s, e) == [s EXCEPT !.events = Append(@, e)]

\* One condition is evaluated: the next outcome, or false when none is left.
Outcome(s) == s.tests # <<>> /\ Head(s.tests)
Test(s)    == [Do(s, IF Outcome(s) THEN "yes" ELSE "no")
                 EXCEPT !.tests = IF @ = <<>> THEN @ ELSE Tail(@)]

RECURSIVE RunBody(_, _, _), RunLoop(_, _, _)

\* lang.returnEnds: a return with a value ends the function.
\* lang.testFirst: a for loop tests its condition before the first iteration.
RunStatement(st, s, lang) ==
    CASE st.k = "exp"   -> Do(s, st.n)
      [] st.k = "ret"   -> [s EXCEPT !.ret = st.v, !.ended = lang.returnEnds]
      [] st.k = "leave" -> [s EXCEPT !.ended = TRUE]
      [] st.k = "dom"   -> RunBody(st.body, s, lang)
      [] st.k = "if"    -> RunBody(IF Outcome(s) THEN st.body ELSE st.other,
                                   Test(s), lang)
      [] st.k = "for"   -> RunLoop(st.body, Do(s, "start"), lang)

RunBody(ss, s, lang) ==
    IF ss = <<>> \/ s.ended THEN s
    ELSE RunBody(Tail(ss), RunStatement(Head(ss), s, lang), lang)

RunLoop(body, s, lang) ==
    IF lang.testFirst
    THEN LET t == Test(s)
             b == RunBody(body, t, lang)
         IN  IF ~Outcome(s) THEN t
             ELSE IF b.ended THEN b
             ELSE RunLoop(body, Do(b, "step"), lang)
    ELSE LET b == RunBody(body, s, lang)
             d == Do(b, "step")
         IN  IF b.ended THEN b
             ELSE IF Outcome(d) THEN RunLoop(body, Test(d), lang)
             ELSE Test(d)

\* What a run shows: its events and the value it returns.
Meaning(body, tests, lang) ==
    LET s == RunBody(body, Start(tests), lang)
    IN  [events |-> s.events, ret |-> s.ret]

\* C, which KSCL is described as a superset of; and KSCL as KSC compiles it: a
\* return with a value only sets the value, a for loop tests after its body.
C    == [returnEnds |-> TRUE,  testFirst |-> TRUE]
KSCL == [returnEnds |-> FALSE, testFirst |-> FALSE]

-----------------------------------------------------------------------------

\* Mutant of HasReturnExpForAllPaths: one part of an if is enough.
RECURSIVE HasReturnExpForSomePath(_)
HasReturnExpForSomePath(ss) ==
    \E j \in DOMAIN ss :
       \/ ss[j].k \in {"ret", "leave"}
       \/ ss[j].k \in {"dom", "if"} /\ HasReturnExpForSomePath(ss[j].body)

RECURSIVE HasReturnExpForAllPaths(_)

\* A return statement of either kind, a domain that has one on all paths, or an
\* if whose two parts have; a for is not looked into.
HasReturnExpForAllPaths(ss) ==
    \E j \in DOMAIN ss :
       \/ ss[j].k \in {"ret", "leave"}
       \/ ss[j].k = "dom" /\ HasReturnExpForAllPaths(ss[j].body)
       \/ /\ ss[j].k = "if"
          /\ HasReturnExpForAllPaths(ss[j].body)
          /\ HasReturnExpForAllPaths(ss[j].other)
=============================================================================
