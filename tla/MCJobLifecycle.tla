---------------------------- MODULE MCJobLifecycle ----------------------------
(* JobLifecycle with the clients that watch the first job.                 *)
EXTENDS JobLifecycle, TLC

CONSTANT r1

MCWatched == [r \in Reader |-> 1]
===============================================================================
