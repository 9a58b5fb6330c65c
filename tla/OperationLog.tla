----------------------------- MODULE OperationLog -----------------------------
(***************************************************************************)
(* What the mutation journal promises (docs/reference/MUTATION_RECOVERY.md *)
(* and core/mutation.py): an operation reserves its scopes for itself      *)
(* alone from the moment it is recorded, whatever happens to its owner,    *)
(* until it is resolved; a result, once recorded, never changes; and only  *)
(* an operation whose caller did not ask for the result to be retained is  *)
(* ever forgotten.                                                         *)
(***************************************************************************)
CONSTANTS
  Key,       \* idempotency keys, one per intended mutation
  Id,        \* opaque resource identifiers
  Retained   \* keys whose request has retain_outcome set

VARIABLES
  status,    \* status[k]: what the journal knows of the operation of k
  reserved   \* reserved[k]: scopes that only k may mutate

logVars == <<status, reserved>>

Status == {"absent", "open", "committed", "aborted"}

Init ==
  /\ status = [k \in Key |-> "absent"]
  /\ reserved = [k \in Key |-> {}]

(* Scopes that no other operation has reserved.                            *)
Reservable(k, S) == \A j \in Key \ {k} : reserved[j] \cap S = {}

Record(k, S) ==
  /\ status[k] = "absent"
  /\ Reservable(k, S)
  /\ status' = [status EXCEPT ![k] = "open"]
  /\ reserved' = [reserved EXCEPT ![k] = S]

(* Recovery adds the scopes the authorised paths have by then.             *)
Widen(k, S) ==
  /\ status[k] = "open"
  /\ Reservable(k, S)
  /\ reserved' = [reserved EXCEPT ![k] = @ \cup S]
  /\ UNCHANGED status

Resolve(k, result) ==
  /\ status[k] = "open"
  /\ status' = [status EXCEPT ![k] = result]
  /\ reserved' = [reserved EXCEPT ![k] = {}]

Forget(k) ==
  /\ k \notin Retained
  /\ status[k] \in {"committed", "aborted"}
  /\ status' = [status EXCEPT ![k] = "absent"]
  /\ UNCHANGED reserved

Next ==
  \E k \in Key :
    \/ \E S \in SUBSET Id : Record(k, S) \/ Widen(k, S)
    \/ \E result \in {"committed", "aborted"} : Resolve(k, result)
    \/ Forget(k)

Spec == Init /\ [][Next]_logVars
===============================================================================
