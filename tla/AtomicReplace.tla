----------------------------- MODULE AtomicReplace -----------------------------
(***************************************************************************)
(* What a journaled single-file replacement promises: its content appears  *)
(* whole and at once, in place of the file it was authorised for, and the  *)
(* recorded result says whether that happened.                             *)
(***************************************************************************)
CONSTANTS
  Inv,     \* replacements, each of which has a content of its own
  Other,   \* contents that do not come from a replacement
  None     \* no file

VARIABLES
  file,    \* what the destination holds
  base,    \* base[i]: the content replacement i was authorised to replace
  phase,   \* phase[i]: how far replacement i is
  touched  \* whether another program has changed any of these files

replaceVars == <<file, base, phase, touched>>

Init ==
  /\ file \in Other \cup {None}
  /\ base = [i \in Inv |-> None]
  /\ phase = [i \in Inv |-> "idle"]
  /\ touched = FALSE

Open(i) ==
  /\ phase[i] = "idle"
  /\ phase' = [phase EXCEPT ![i] = "open"]
  /\ base' = [base EXCEPT ![i] = file]
  /\ UNCHANGED <<file, touched>>

Install(i) ==
  /\ phase[i] = "open"
  /\ file = base[i] \/ touched
  /\ file' = i
  /\ phase' = [phase EXCEPT ![i] = "installed"]
  /\ UNCHANGED <<base, touched>>

Report(i) ==
  /\ \/ phase[i] = "installed" /\ phase' = [phase EXCEPT ![i] = "committed"]
     \/ phase[i] = "open" /\ phase' = [phase EXCEPT ![i] = "aborted"]
  /\ UNCHANGED <<file, base, touched>>

(* Another program changes the destination or a replacement's own files.   *)
(* A replacement so disturbed may report that nothing was installed.       *)
Interfere ==
  /\ touched' = TRUE
  /\ file' \in Other \cup {None, file}
  /\ UNCHANGED <<base, phase>>

ReportDisturbed(i) ==
  /\ touched
  /\ phase[i] = "installed"
  /\ phase' = [phase EXCEPT ![i] = "aborted"]
  /\ UNCHANGED <<file, base, touched>>

Next == Interfere \/ \E i \in Inv : Open(i) \/ Install(i) \/ Report(i) \/ ReportDisturbed(i)

Spec == Init /\ [][Next]_replaceVars
================================================================================
