------------------------ MODULE MCMutationCoordinator ------------------------
(* MutationCoordinator on two files, one of them with a second spelling.   *)
EXTENDS MutationCoordinator, TLC

CONSTANTS p1, p2, k1, k2, a, b, alias, o1, o2, o3

MCCanon == [s \in {a, b, alias} |-> IF s = alias THEN a ELSE s]
MCBound == k1 :> {a} @@ k2 :> {alias, b}
MCDest == k1 :> a @@ k2 :> b

Symmetry == Permutations(Proc) \cup Permutations(Object)
===============================================================================
