----------------------------- MODULE MCChatStream -----------------------------
(* ChatStream with the runs of one session, the first of which is watched. *)
EXTENDS ChatStream

CONSTANTS r1, r2, s1, u1

MCOf == [r \in Run |-> s1]
MCWatched == [u \in Reader |-> r1]
===============================================================================
