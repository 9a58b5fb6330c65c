----------------------------- MODULE MCJobManager -----------------------------
(* JobManager with jobs whose resource keys overlap.                       *)
EXTENDS JobManager, TLC

CONSTANTS j1, j2, j3

MCKeys == j1 :> {1, 2} @@ j2 :> {1, 2} @@ j3 :> {2}
MCSymmetry == Permutations({j1, j2})
MCKeysPair == j1 :> {1, 2} @@ j2 :> {1, 2}
===============================================================================
