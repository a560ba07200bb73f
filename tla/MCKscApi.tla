----------------------------- MODULE MCKscApi -----------------------------
(***************************************************************************)
(* Instance of KscApi for TLC: one intrinsic, two names that the shared    *)
(* code and the modules may both use, two modules.                         *)
(***************************************************************************)
EXTENDS KscApi, TLC

CONSTANTS sin, f, g, m1, m2

MCNames == {sin, f, g}
MCIntrinsics == <<sin>>
MCModules == {m1, m2}

\* The two names and the two modules are alike.
Symmetric == Permutations({f, g}) \union Permutations(MCModules)
=============================================================================
