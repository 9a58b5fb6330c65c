---------------------------- MODULE SyncPublication ----------------------------
(***************************************************************************)
(* One release root, and the invocations of sync update or rebase that     *)
(* publish a generation into it: DirectoryMutation (the journal) around    *)
(* the live transaction of sync_publication (the exclusive rename, the     *)
(* ownership marker, the rollback), as sync_operations calls them.         *)
(*                                                                         *)
(* Every step that becomes durable is a step here and the process can die  *)
(* between any two.  MutationCoordinator is reduced to the lock of the     *)
(* root and a reservation that lasts while a row has no result.  A check   *)
(* of the root and the rename or read it protects are one step.  POSIX:    *)
(* the renames go through descriptors and reach a root that was moved.     *)
(***************************************************************************)
EXTENDS Naturals, FiniteSets

CONSTANTS
  Inv,       \* invocations; each publishes at most one generation
  Name,      \* Name[i]: release name that i generates (number and second)
  Members,   \* files of a generation, besides the marker
  None,      \* no record, no holder
  Cancelled, \* invocations that may be cancelled once they have reconciled
  Interferes \* whether another program moves the root or adds a file to a stage

VARIABLES
  dir,       \* dir[i]: the directory of i: where it is and what is in it
  away,      \* the selected root has been moved from its path
  row,       \* row[i]: state of the operation of i in the journal
  rec,       \* rec[i]: the durable publication record of i, or None
  holder,    \* invocation that holds the lock of the root
  pc,        \* control state of an invocation
  work,      \* work[i]: operation that i is working on, its own or another's
  mem,       \* mem[i]: i's copy of the record of work[i]
  told,      \* told[i]: how the invocation ended for its user
  meddled,   \* history: the other program has acted
  misjudged  \* history: operations taken to be inert that had a record by then

disk == <<dir, away, meddled>>
journal == <<row, rec>>
local == <<work, mem>>
vars == <<dir, away, row, rec, holder, pc, work, mem, told, meddled, misjudged>>

Open == {"PREPARED", "COMMITTING", "RECOVERY_REQUIRED"}
Staging == {"planned", "made", "writing", "opened", "tracked", "filled"}
Working == Staging \cup {"found", "ready", "acquired", "prepared", "committing",
  "renamed", "finalizing", "unlinked", "rescue", "failing", "finish", "cleanup",
  "marking", "closing"}

NoDir == [at |-> "none", files |-> 0, torn |-> FALSE, marker |-> FALSE, alien |-> FALSE]
Fresh == [identity |-> FALSE, tracked |-> 0, sealed |-> 0, complete |-> FALSE, cleanup |-> FALSE]

Init ==
  /\ dir = [i \in Inv |-> NoDir]
  /\ away = FALSE
  /\ row = [i \in Inv |-> "absent"]
  /\ rec = [i \in Inv |-> None]
  /\ holder = None
  /\ pc = [i \in Inv |-> "new"]
  /\ work = [i \in Inv |-> i]
  /\ mem = [i \in Inv |-> None]
  /\ told = [i \in Inv |-> "nothing"]
  /\ meddled = FALSE
  /\ misjudged = {}

To(i, next) == pc' = [pc EXCEPT ![i] = next]

At(i, here, next) == pc[i] = here /\ To(i, next)

(* The generated name exists in the root.                                  *)
Taken(i) == \E j \in Inv : Name[j] = Name[i] /\ dir[j].at = "final"

(* The error that ends an invocation: the first one decides.               *)
Tell(i, what) == told' = [told EXCEPT ![i] = IF @ = "nothing" THEN what ELSE @]

Forget(i) ==
  /\ work' = [work EXCEPT ![i] = i]
  /\ mem' = [mem EXCEPT ![i] = None]

(* reconcile_root: an interrupted operation of the root is found and its   *)
(* record is read before the lock is taken.                                *)
Find(i) ==
  /\ \E w \in Inv : row[w] \in Open /\ work' = [work EXCEPT ![i] = w]
                                    /\ mem' = [mem EXCEPT ![i] = rec[w]]
  /\ At(i, "new", "found")
  /\ UNCHANGED <<disk, journal, holder, told, misjudged>>

FindNothing(i) ==
  /\ \A w \in Inv : row[w] \notin Open
  /\ At(i, "new", "ready")
  /\ UNCHANGED <<disk, journal, holder, local, told, misjudged>>

Recover(i) ==
  /\ holder = None
  /\ row[work[i]] \in Open
  /\ At(i, "found", "finish")
  /\ holder' = i
  /\ row' = [row EXCEPT ![work[i]] = "RECOVERY_REQUIRED"]
  /\ UNCHANGED <<disk, rec, local, told, misjudged>>

RecoverRefused(i) ==
  /\ holder # None \/ row[work[i]] \notin Open
  /\ At(i, "found", "done")
  /\ Tell(i, "conflict")
  /\ Forget(i)
  /\ UNCHANGED <<disk, journal, holder, misjudged>>

(* acquire checks for a cancellation after it has reconciled.               *)
Cancel(i) ==
  /\ i \in Cancelled
  /\ At(i, "ready", "done")
  /\ Tell(i, "failed")
  /\ UNCHANGED <<disk, journal, holder, local, misjudged>>

(* acquire: the root is reserved before anything is staged.  A generated   *)
(* name that exists by now ends the operation at once.                     *)
Acquire(i) ==
  /\ holder = None
  /\ \A w \in Inv : row[w] \notin Open
  /\ ~ Taken(i)
  /\ At(i, "ready", "acquired")
  /\ holder' = i
  /\ row' = [row EXCEPT ![i] = "PREPARED"]
  /\ UNCHANGED <<disk, rec, local, told, misjudged>>

AcquireRefused(i) ==
  /\ holder # None \/ (\E w \in Inv : row[w] \in Open) \/ Taken(i)
  /\ At(i, "ready", "done")
  /\ row' = [row EXCEPT ![i] = IF holder = None /\ \A w \in Inv : row[w] \notin Open
                                 THEN "ABORTED" ELSE @]
  /\ Tell(i, "conflict")
  /\ UNCHANGED <<disk, rec, holder, local, misjudged>>

(* _persist writes the record the invocation has in memory.                *)
Persist(i, r) ==
  /\ mem' = [mem EXCEPT ![i] = r]
  /\ rec' = [rec EXCEPT ![work[i]] = r]
  /\ UNCHANGED <<disk, row, holder, work, told, misjudged>>

Change(i, d) ==
  /\ dir' = [dir EXCEPT ![work[i]] = d]
  /\ UNCHANGED <<away, meddled, journal, holder, local, misjudged>>

(* plan_staging: the name of the stage is durable before the stage is made.*)
Plan(i) ==
  /\ ~ away
  /\ At(i, "acquired", "planned")
  /\ Persist(i, Fresh)

(* _create_staging_directory: the directory and its ownership marker.      *)
MakeStage(i) ==
  /\ ~ away
  /\ At(i, "planned", "made")
  /\ Change(i, [NoDir EXCEPT !.at = "stage", !.marker = TRUE])
  /\ UNCHANGED told

(* track_staging: the identity of the directory and of its marker.         *)
TrackStaging(i) ==
  /\ ~ away
  /\ At(i, "made", "writing")
  /\ Persist(i, [mem[i] EXCEPT !.identity = TRUE])

(* _write_bytes: an exclusive creation, ...                                *)
OpenMember(i) ==
  /\ dir[i].files < Members /\ ~ away
  /\ At(i, "writing", "opened")
  /\ Change(i, [dir[i] EXCEPT !.files = @ + 1, !.torn = TRUE])
  /\ UNCHANGED told

(* ... track_member, before the first byte is written, ...                 *)
TrackMember(i) ==
  /\ ~ away
  /\ At(i, "opened", "tracked")
  /\ Persist(i, [mem[i] EXCEPT !.tracked = @ + 1])

FillMember(i) ==
  /\ At(i, "tracked", "filled")
  /\ Change(i, [dir[i] EXCEPT !.torn = FALSE])
  /\ UNCHANGED told

(* ... and finish_member, which seals the fingerprint of the file.         *)
FinishMember(i) ==
  /\ ~ away
  /\ At(i, "filled", "writing")
  /\ Persist(i, [mem[i] EXCEPT !.sealed = @ + 1])

(* prepare: every entry of the stage is a sealed member, or the marker.    *)
Prepare(i) ==
  /\ At(i, "writing", "prepared")
  /\ dir[i].files = Members /\ mem[i].sealed = Members /\ ~ dir[i].alien /\ ~ away
  /\ Persist(i, [mem[i] EXCEPT !.complete = TRUE])

(* The directory is what the record of its operation says.                 *)
AsRecorded(w, r) ==
  /\ r.identity /\ ~ dir[w].alien
  /\ dir[w].files = r.sealed /\ ~ dir[w].torn

Committing(i) ==
  /\ At(i, "prepared", "committing")
  /\ ~ away /\ AsRecorded(i, mem[i]) /\ dir[i].marker
  /\ row' = [row EXCEPT ![i] = "COMMITTING"]
  /\ UNCHANGED <<disk, rec, holder, local, told, misjudged>>

(* _publish_directory_no_clobber: the exclusive rename, ...                *)
Rename(i) ==
  /\ ~ away /\ ~ Taken(i)
  /\ At(i, "committing", "renamed")
  /\ Change(i, [dir[i] EXCEPT !.at = "final"])
  /\ UNCHANGED told

(* ... a second look at the root, and the way back when it was moved.      *)
RootIsSelected(i) ==
  /\ ~ away
  /\ At(i, "renamed", "finalizing")
  /\ UNCHANGED <<disk, journal, holder, local, told, misjudged>>

RenameBack(i) ==
  /\ away
  /\ At(i, "renamed", "rescue")
  /\ \/ Change(i, [dir[i] EXCEPT !.at = "stage"])
     \/ UNCHANGED <<disk, journal, holder, local, misjudged>>
  /\ UNCHANGED told

(* _remove_published_staging_marker: the commit.                           *)
UnlinkMarker(i) ==
  /\ ~ away
  /\ At(i, "finalizing", "unlinked")
  /\ Change(i, [dir[i] EXCEPT !.marker = FALSE])
  /\ UNCHANGED told

MarkCommitted(i) ==
  /\ ~ away
  /\ At(i, "unlinked", "finish")
  /\ Tell(i, "committed")
  /\ UNCHANGED <<disk, journal, holder, local, misjudged>>

(* A cancellation, an expired lease, an I/O error or a root that was moved,*)
(* before the transaction: nothing was committed.  A stage that was not    *)
(* tracked yet loses its marker.                                           *)
Fail(i) ==
  /\ pc[i] \in Staging \cup {"acquired", "prepared"}
  /\ To(i, "failing")
  /\ Tell(i, "failed")
  /\ Change(i, [dir[i] EXCEPT !.marker = @ /\ pc[i] # "made"])

(* The same after committing: the transaction is recovered first.          *)
FailPublishing(i) ==
  /\ pc[i] \in {"committing", "renamed", "finalizing", "unlinked"}
  /\ To(i, "rescue")
  /\ UNCHANGED <<disk, journal, holder, local, told, misjudged>>

(* _prove_committed_unlinked_marker: interrupted after the commit.         *)
RescueCommitted(i) ==
  /\ dir[i].at = "final" /\ ~ dir[i].marker /\ ~ away
  /\ At(i, "rescue", "finish")
  /\ Tell(i, "committed")
  /\ UNCHANGED <<disk, journal, holder, local, misjudged>>

(* _recover_interrupted_publication: the directory goes back to its stage. *)
RescueRollback(i) ==
  /\ ~ (dir[i].at = "final" /\ ~ dir[i].marker /\ ~ away)
  /\ At(i, "rescue", "failing")
  /\ Change(i, [dir[i] EXCEPT !.at = "stage"])
  /\ Tell(i, "failed")

(* It could not be moved back: the commit is completed, ...                *)
RescueRemovesMarker(i) ==
  /\ dir[i].at = "final" /\ dir[i].marker /\ ~ away
  /\ At(i, "rescue", "finish")
  /\ Change(i, [dir[i] EXCEPT !.marker = FALSE])
  /\ Tell(i, "committed")

(* ... or the state of the publication is reported as unknown.             *)
RescueGivesUp(i) ==
  /\ dir[i].at = "final" /\ (dir[i].marker \/ away)
  /\ At(i, "rescue", "failing")
  /\ Tell(i, "incomplete")
  /\ UNCHANGED <<disk, journal, holder, local, misjudged>>

(* The caller's handler: finish, unless the generation may be published.   *)
Handle(i) ==
  /\ pc[i] = "failing"
  /\ To(i, IF Taken(i) /\ ~ away THEN "closing" ELSE "finish")
  /\ UNCHANGED <<disk, journal, holder, local, told, misjudged>>

(* finish: a directory under the final name decides.                       *)
FinishPublished(i) ==
  LET w == work[i] IN
    /\ ~ away /\ Taken(w) /\ mem[i] # None
    /\ mem[i].complete /\ dir[w].at = "final" /\ AsRecorded(w, mem[i])
    /\ At(i, "finish", "marking")
    /\ Change(i, [dir[w] EXCEPT !.marker = FALSE])
    /\ UNCHANGED told

(* Entries of a stage that the record proves to be the operation's own.    *)
Proven(w, r) ==
  /\ r.identity /\ ~ dir[w].alien
  /\ IF r.complete /\ ~ r.cleanup
       THEN AsRecorded(w, r)
       ELSE dir[w].files <= r.tracked /\ (dir[w].torn => r.sealed < r.tracked)

(* _cleanup: the intention to remove it is durable before the first file   *)
(* is removed.                                                             *)
FinishStaged(i) ==
  LET w == work[i] IN
    /\ ~ away /\ ~ Taken(w) /\ mem[i] # None /\ dir[w].at = "stage"
    /\ Proven(w, mem[i])
    /\ At(i, "finish", "cleanup")
    /\ Persist(i, [mem[i] EXCEPT !.cleanup = TRUE])

RemoveEntry(i) ==
  LET d == dir[work[i]] IN
    /\ pc[i] = "cleanup"
    /\ \/ d.files > 0 /\ \E t \in {FALSE, d.torn /\ d.files > 1} :
                              Change(i, [d EXCEPT !.files = @ - 1, !.torn = t])
       \/ d.marker /\ Change(i, [d EXCEPT !.marker = FALSE])
    /\ UNCHANGED <<pc, told>>

RemoveStage(i) ==
  LET d == dir[work[i]] IN
    /\ d.files = 0 /\ ~ d.marker /\ ~ d.alien
    /\ At(i, "cleanup", "marking")
    /\ Change(i, NoDir)
    /\ UNCHANGED told

FinishNothing(i) ==
  LET w == work[i] IN
    /\ ~ away /\ ~ Taken(w)
    /\ mem[i] = None \/ dir[w].at = "none"
    /\ At(i, "finish", "marking")
    /\ misjudged' = IF mem[i] = None /\ rec[w] # None THEN misjudged \cup {w} ELSE misjudged
    /\ UNCHANGED <<disk, journal, holder, local, told>>

(* Anything finish cannot prove, or an I/O error, leaves the reservation;  *)
(* the caller of a committed transaction gets an error as well.            *)
FinishFails(i) ==
  /\ pc[i] \in {"finish", "cleanup", "marking"}
  /\ To(i, "closing")
  /\ told' = [told EXCEPT ![i] = IF @ \in {"nothing", "committed"} THEN "unknown" ELSE @]
  /\ UNCHANGED <<disk, journal, holder, local, misjudged>>

(* Mutant: the result is what the record says it was going to be.          *)
RecordByIntention(i) ==
  LET w == work[i]
      result == IF mem[i] # None /\ mem[i].complete THEN "COMMITTED" ELSE "ABORTED" IN
    /\ pc[i] = "marking"
    /\ row' = [row EXCEPT ![w] = result]
    /\ holder' = None
    /\ To(i, IF w # i /\ result = "ABORTED" THEN "ready" ELSE "done")
    /\ IF w # i /\ result = "COMMITTED" THEN Tell(i, "recovered") ELSE UNCHANGED told
    /\ Forget(i)
    /\ UNCHANGED <<disk, rec, misjudged>>

(* The transition to a result frees the root.  An invocation that has      *)
(* recovered a committed generation stops there, one that has cleared away *)
(* an aborted one goes on to its own.                                      *)
Record(i) ==
  LET w == work[i]
      result == IF dir[w].at = "final" THEN "COMMITTED" ELSE "ABORTED" IN
    /\ pc[i] = "marking"
    /\ row' = [row EXCEPT ![w] = result]
    /\ holder' = None
    /\ To(i, IF w # i /\ result = "ABORTED" THEN "ready" ELSE "done")
    /\ IF w # i /\ result = "COMMITTED" THEN Tell(i, "recovered") ELSE UNCHANGED told
    /\ Forget(i)
    /\ UNCHANGED <<disk, rec, misjudged>>

(* The coordinator's close: the reservation stays.                         *)
Close(i) ==
  /\ At(i, "closing", "done")
  /\ row' = [row EXCEPT ![work[i]] = "RECOVERY_REQUIRED"]
  /\ holder' = None
  /\ Forget(i)
  /\ UNCHANGED <<disk, rec, told, misjudged>>

Crash(i) ==
  /\ pc[i] \in Working
  /\ To(i, "done")
  /\ holder' = IF holder = i THEN None ELSE holder
  /\ Forget(i)
  /\ UNCHANGED <<disk, journal, told, misjudged>>

(* Another program moves the root away and back while a publication is     *)
(* under way, ...                                                          *)
MoveRoot ==
  /\ Interferes
  /\ away \/ (~ meddled /\ \E i \in Inv : row[i] \in Open)
  /\ away' = ~ away
  /\ meddled' = TRUE
  /\ UNCHANGED <<dir, journal, holder, pc, local, told, misjudged>>

(* ... or puts a file of its own into a stage.                             *)
AddFile(i) ==
  /\ Interferes /\ ~ meddled
  /\ dir[i].at = "stage"
  /\ dir' = [dir EXCEPT ![i].alien = TRUE]
  /\ meddled' = TRUE
  /\ UNCHANGED <<away, journal, holder, pc, local, told, misjudged>>

Step(i) ==
  \/ Find(i) \/ FindNothing(i) \/ Recover(i) \/ RecoverRefused(i)
  \/ Cancel(i) \/ Acquire(i) \/ AcquireRefused(i)
  \/ Plan(i) \/ MakeStage(i) \/ TrackStaging(i)
  \/ OpenMember(i) \/ TrackMember(i) \/ FillMember(i) \/ FinishMember(i)
  \/ Prepare(i) \/ Committing(i) \/ Rename(i) \/ RootIsSelected(i) \/ RenameBack(i)
  \/ UnlinkMarker(i) \/ MarkCommitted(i) \/ Fail(i) \/ FailPublishing(i)
  \/ RescueCommitted(i) \/ RescueRollback(i) \/ RescueRemovesMarker(i) \/ RescueGivesUp(i)
  \/ Handle(i) \/ FinishPublished(i) \/ FinishStaged(i) \/ FinishNothing(i)
  \/ RemoveEntry(i) \/ RemoveStage(i) \/ FinishFails(i) \/ Record(i)
  \/ Close(i) \/ Crash(i)

Next == MoveRoot \/ \E i \in Inv : Step(i) \/ AddFile(i)

Spec == Init /\ [][Next]_vars

-------------------------------------------------------------------------------
(* Types of the variables.                                                 *)
Records == [identity : BOOLEAN, tracked : 0..Members, sealed : 0..Members,
            complete : BOOLEAN, cleanup : BOOLEAN] \cup {None}

(* What the constants must be: None is nobody's name and no record.        *)
Blank == [identity : BOOLEAN, tracked : Nat, sealed : Nat,
          complete : BOOLEAN, cleanup : BOOLEAN]

SyncAssumption == Members \in Nat /\ None \notin Inv /\ None \notin Blank

TypeOK ==
  /\ dir \in [Inv -> [at : {"none", "stage", "final"}, files : 0..Members,
                      torn : BOOLEAN, marker : BOOLEAN, alien : BOOLEAN]]
  /\ away \in BOOLEAN /\ meddled \in BOOLEAN
  /\ row \in [Inv -> {"absent", "COMMITTED", "ABORTED"} \cup Open]
  /\ rec \in [Inv -> Records]
  /\ holder \in Inv \cup {None}
  /\ pc \in [Inv -> {"new", "done"} \cup Working]
  /\ work \in [Inv -> Inv]
  /\ mem \in [Inv -> Records]
  /\ told \in [Inv -> {"nothing", "conflict", "failed", "incomplete", "unknown",
                       "committed", "recovered"}]
  /\ misjudged \subseteq Inv

Whole(d) == d.files = Members /\ ~ d.torn

(* A generation under its final name is whole at every moment, crashes and *)
(* rollbacks included, and the journal tells the truth: committed means    *)
(* published without the marker, aborted means that nothing of it remains. *)
GenerationsAreWhole ==
  \A i \in Inv :
    /\ dir[i].at = "final" => Whole(dir[i])
    /\ row[i] = "COMMITTED" => dir[i].at = "final" /\ ~ dir[i].marker /\ ~ dir[i].alien
    /\ row[i] = "ABORTED" /\ i \notin misjudged => dir[i].at = "none"

(* "No release was committed": a user who was told so never finds the      *)
(* generation published, not by a later recovery either; one who was told  *)
(* that it is committed has it, whatever happens afterwards.               *)
ReportsHold ==
  \A i \in Inv :
    /\ told[i] = "failed" => dir[i].at # "final" /\ row[i] # "COMMITTED"
    /\ told[i] = "committed" => dir[i].at = "final" /\ ~ dir[i].marker

(* Whatever the interruption, the next invocation can finish the operation:*)
(* from the record and the directory as they are.  Not so where the code   *)
(* fails closed on purpose, between the creation of an object and the      *)
(* record of its identity (MUTATION_RECOVERY.md).                          *)
Unrecorded(w) ==
  \/ dir[w].at = "stage" /\ ~ rec[w].identity
  \/ dir[w].files > rec[w].tracked

RecoveryIsPossible ==
  ~ meddled /\ holder = None =>
    \A w \in Inv : row[w] \in Open /\ rec[w] # None /\ ~ Unrecorded(w) =>
      \/ dir[w].at = "none"
      \/ dir[w].at = "stage" /\ Proven(w, rec[w])
      \/ dir[w].at = "final" /\ rec[w].complete /\ AsRecorded(w, rec[w])
===============================================================================
