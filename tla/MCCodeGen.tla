----------------------------- MODULE MCCodeGen -----------------------------
(***************************************************************************)
(* Instance of CodeGen for TLC, and what its runs mean.  The functions are *)
(* all those with a body of at most two statements, nested once, and with  *)
(* one statement, nested twice, that the front end lets through: a         *)
(* function that returns a value has a return on all paths, and "return;"  *)
(* stands in void functions only (ParseSingleExpression checks the type).  *)
(***************************************************************************)
EXTENDS CodeGen, Semantics

UpTo(S, n) == UNION {[1..m -> S] : m \in 0..n}

Exp(n)     == [k |-> "exp", n |-> n]
Return(v)  == [k |-> "ret", v |-> v]
Leave      == [k |-> "leave"]
Dom(b)     == [k |-> "dom", body |-> b]
If(b, o)   == [k |-> "if", body |-> b, other |-> o]
For(b)     == [k |-> "for", body |-> b]

Nest(bodies) == {Dom(b) : b \in bodies} \union {For(b) : b \in bodies}
                  \union {If(b, o) : b \in bodies, o \in bodies}

Bodies(leaves) ==
    LET once  == leaves \union Nest(UpTo(leaves, 1))
        twice == Nest(UpTo(once, 1))
    IN  UpTo(once, 2) \union UpTo(twice, 1)

ValueFunctions == {[void |-> FALSE, body |-> b] :
                     b \in {c \in Bodies({Exp("a"), Return(1), Return(2)}) :
                              HasReturnExpForAllPaths(c)}}
VoidFunctions  == {[void |-> TRUE, body |-> b] : b \in Bodies({Exp("a"), Exp("b")})}
LeaveFunctions == {[void |-> TRUE, body |-> b] : b \in Bodies({Exp("a"), Leave})}

MCFunctions == ValueFunctions \union VoidFunctions \union LeaveFunctions

\* The functions the runs with a counterexample are about.
StraightFunctions == {f \in ValueFunctions : ~Uses(f.body, "for")}

-----------------------------------------------------------------------------

\* The compiled code does what the statements say in KSC's reading of KSCL, for
\* every way its conditions can come out.
CompiledMeaning ==
    phase = "done" => [events |-> events, ret |-> retValue]
                        = Meaning(func.body, tests, KSCL)

\* A function that passed HasReturnExpForAllPaths never returns the
\* uninitialised content of _retValue.
ReturnIsInitialised == phase = "done" /\ ~func.void => retValue # Undefined

\* Generating the code, verifying it and running it comes to an end when the
\* loops of the function do.
RunEnds == <>(phase \in {"done", "rejected"})

\* KSCL is "a superset of C language": a function means what it means in C.
MeansWhatCMeans ==
    phase = "done" => [events |-> events, ret |-> retValue]
                        = Meaning(func.body, tests, C)

\* A function that was compiled can be JIT-ed, so the verifier accepts it.
CompiledFunctionIsJitted == phase # "rejected"
=============================================================================
