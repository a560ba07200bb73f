----------------------------- MODULE MCKscHost -----------------------------
(***************************************************************************)
(* Instance of KscHost for TLC: one intrinsic, two names that the shared   *)
(* code and the modules may both use, two modules.                         *)
(***************************************************************************)
EXTENDS KscHost, TLC

CONSTANTS sin, f, g, m1, m2

MCNames == {sin, f, g}
MCIntrinsics == <<sin>>
MCModules == {m1, m2}
MCWrapped == {g}

\* The two modules are alike.
Symmetric == Permutations(MCModules)
=============================================================================
