----------------------------- MODULE MCAtomicFile -----------------------------
(* AtomicFile with interchangeable invocations.                            *)
EXTENDS AtomicFile, TLC

Symmetry == Permutations(Inv)
===============================================================================
