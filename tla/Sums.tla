-------------------------------- MODULE Sums --------------------------------
(***************************************************************************)
(* The sum of a sequence of integers, from the last to the first: a stack  *)
(* has its top in front.  It is a recursive function, and not a fold, so   *)
(* that its theorems are within the reach of the provers.                  *)
(***************************************************************************)
EXTENDS Integers, Sequences

Sum(s) ==
    LET sum[n \in 0..Len(s)] == IF n = 0 THEN 0 ELSE sum[n - 1] + s[Len(s) + 1 - n]
    IN  sum[Len(s)]
=============================================================================
