------------------------------ MODULE AtomicFile ------------------------------
(***************************************************************************)
(* AtomicFileMutation (core/atomic_file.py): one destination, replaced by  *)
(* invocations that first reconcile what an earlier one left and then      *)
(* stage, seal, announce and rename a file of their own.  Every step that  *)
(* becomes durable (a journal transaction or a change of the directory) is *)
(* a step here, and the process can die between any two of them.           *)
(*                                                                         *)
(* MutationCoordinator is reduced to what one destination sees of it: one  *)
(* lock, and a reservation that lasts while a row has no result.  A        *)
(* fingerprint is the object it was taken of: two contents are the same    *)
(* here when the code's fingerprints are equal.                            *)
(***************************************************************************)
EXTENDS Naturals, FiniteSets

CONSTANTS
  Inv,       \* invocations; each makes one replacement and ends
  Old,       \* the content the destination may start with
  Alien,     \* a content that another program writes
  None,      \* no file, no record, no holder
  Interferes \* whether other programs change the destination or a stage

ASSUME AtomicFileAssumption ==
  /\ Interferes \in BOOLEAN
  /\ Inv \cap {Old, Alien, None} = {}
  /\ None \notin [previous : Inv \cup {Old, Alien, None}, identity : BOOLEAN, staged : BOOLEAN]

VARIABLES
  target,    \* object under the destination's name
  stage,     \* stage[i]: object under the staging name of i
  row,       \* row[i]: state of the operation of i in the journal
  rec,       \* rec[i]: the durable replacement record of i, or None
  holder,    \* invocation that holds the lock of the destination
  pc,        \* control state of an invocation
  work,      \* work[i]: operation that i is working on, its own or another's
  mem,       \* mem[i]: i's copy of the record of work[i]
  seen,      \* seen[i]: revision that i's request was bound to
  verdict,   \* verdict[i]: result that i is about to record
  installed, \* history: invocations whose content was put in place
  touched,   \* history: another program changed the destination or a stage
  misjudged  \* history: operations taken to be inert that had a record by then

disk == <<target, stage, installed, touched, misjudged>>
journal == <<row, rec>>
vars == <<target, stage, row, rec, holder, pc, work, mem, seen, verdict,
          installed, touched, misjudged>>

Open == {"PREPARED", "COMMITTING", "RECOVERY_REQUIRED"}
Working == {"found", "inert", "ready", "acquired", "prepared", "created",
            "writing", "written", "staged", "committing", "verified",
            "resolve", "cleanup", "finish", "closing"}

Init ==
  /\ target \in {Old, None}
  /\ stage = [i \in Inv |-> "none"]
  /\ row = [i \in Inv |-> "absent"]
  /\ rec = [i \in Inv |-> None]
  /\ holder = None
  /\ pc = [i \in Inv |-> "new"]
  /\ work = [i \in Inv |-> i]
  /\ mem = [i \in Inv |-> None]
  /\ seen = [i \in Inv |-> None]
  /\ verdict = [i \in Inv |-> "none"]
  /\ installed = {}
  /\ touched = FALSE
  /\ misjudged = {}

To(i, next) == pc' = [pc EXCEPT ![i] = next]

At(i, here, next) == pc[i] = here /\ To(i, next)

(* reconcile, first half: the interrupted operation of this destination    *)
(* and its record are read, without its lock.                              *)
Find(i) ==
  /\ \E w \in Inv : row[w] \in Open /\ work' = [work EXCEPT ![i] = w]
                                    /\ mem' = [mem EXCEPT ![i] = rec[w]]
  /\ At(i, "new", "found")
  /\ UNCHANGED <<disk, journal, holder, seen, verdict>>

FindNothing(i) ==
  /\ \A w \in Inv : row[w] \notin Open
  /\ At(i, "new", "ready")
  /\ UNCHANGED <<disk, journal, holder, work, mem, seen, verdict>>

(* reconcile, second half: recover takes the lock, if its owner is gone.   *)
Recover(i) ==
  /\ holder = None
  /\ row[work[i]] \in Open
  /\ At(i, "found", IF mem[i] = None THEN "inert" ELSE "resolve")
  /\ holder' = i
  /\ row' = [row EXCEPT ![work[i]] = "RECOVERY_REQUIRED"]
  /\ UNCHANGED <<disk, rec, work, mem, seen, verdict>>

(* The operation is held, or resolved by now: an error for the caller.     *)
RecoverRefused(i) ==
  /\ holder # None \/ row[work[i]] \notin Open
  /\ At(i, "found", "done")
  /\ UNCHANGED <<disk, journal, holder, work, mem, seen, verdict>>

(* transition to a terminal state, which frees reservation and lock.  An   *)
(* invocation that has resolved another's operation goes on to its own.    *)
Resolved(i, result) ==
  /\ row' = [row EXCEPT ![work[i]] = result]
  /\ holder' = None
  /\ To(i, IF work[i] = i THEN "done" ELSE "ready")
  /\ work' = [work EXCEPT ![i] = i]
  /\ mem' = [mem EXCEPT ![i] = None]
  /\ UNCHANGED <<target, stage, installed, touched, rec, seen>>

(* Without a record the operation is taken to have done nothing.           *)
AbortInert(i) ==
  /\ pc[i] = "inert"
  /\ Resolved(i, "ABORTED")
  /\ misjudged' = IF rec[work[i]] = None THEN misjudged ELSE misjudged \cup {work[i]}
  /\ UNCHANGED verdict

(* bind and acquire: nobody holds the lock or has the name reserved.       *)
Acquire(i) ==
  /\ holder = None
  /\ \A w \in Inv : row[w] \notin Open
  /\ At(i, "ready", "acquired")
  /\ holder' = i
  /\ row' = [row EXCEPT ![i] = "PREPARED"]
  /\ seen' = [seen EXCEPT ![i] = target]
  /\ UNCHANGED <<disk, rec, work, mem, verdict>>

AcquireRefused(i) ==
  /\ holder # None \/ \E w \in Inv : row[w] \in Open
  /\ At(i, "ready", "done")
  /\ UNCHANGED <<disk, journal, holder, work, mem, seen, verdict>>

(* Mutant: the record is not written before the step it describes.         *)
PersistInMemory(i, r) ==
  /\ mem' = [mem EXCEPT ![i] = r]
  /\ UNCHANGED <<disk, journal, holder, work, seen, verdict>>

(* _persist writes the record the invocation has in memory.                *)
Persist(i, r) ==
  /\ mem' = [mem EXCEPT ![i] = r]
  /\ rec' = [rec EXCEPT ![i] = r]
  /\ UNCHANGED <<disk, row, holder, work, seen, verdict>>

PersistPrevious(i) ==
  /\ At(i, "acquired", "prepared")
  /\ Persist(i, [previous |-> target, identity |-> FALSE, staged |-> FALSE])

(* publish: the exclusive creation of the stage, ...                       *)
CreateStage(i) ==
  /\ At(i, "prepared", "created")
  /\ stage' = [stage EXCEPT ![i] = "part"]
  /\ mem' = [mem EXCEPT ![i].identity = TRUE]
  /\ UNCHANGED <<target, installed, touched, misjudged, journal, holder, work, seen, verdict>>

PersistIdentity(i) ==
  /\ At(i, "created", "writing")
  /\ Persist(i, mem[i])

WriteStage(i) ==
  /\ At(i, "writing", "written")
  /\ stage' = [stage EXCEPT ![i] = "full"]
  /\ UNCHANGED <<target, installed, touched, misjudged, journal, holder, work, mem, seen, verdict>>

(* Mutant: the seal is kept in memory until the result is recorded.        *)
KeepStaged(i) ==
  /\ At(i, "written", "staged")
  /\ mem' = [mem EXCEPT ![i].staged = TRUE]
  /\ UNCHANGED <<disk, journal, holder, work, seen, verdict>>

(* ... its seal, ...                                                       *)
PersistStaged(i) ==
  /\ At(i, "written", "staged")
  /\ Persist(i, [mem[i] EXCEPT !.staged = TRUE])

(* ... the announcement, which re-checks the revision bound at first, ...  *)
Commit(i) ==
  /\ At(i, "staged", "committing")
  /\ target = seen[i]
  /\ row' = [row EXCEPT ![i] = "COMMITTING"]
  /\ UNCHANGED <<disk, rec, holder, work, mem, seen, verdict>>

(* ... the last comparison of both names, ...                              *)
Verify(i) ==
  /\ At(i, "committing", "verified")
  /\ target = mem[i].previous
  /\ UNCHANGED <<disk, journal, holder, work, mem, seen, verdict>>

(* ... and the rename.                                                     *)
Rename(i) ==
  /\ At(i, "verified", "resolve")
  /\ target' = i
  /\ stage' = [stage EXCEPT ![i] = "none"]
  /\ installed' = installed \cup {i}
  /\ UNCHANGED <<touched, misjudged, journal, holder, work, mem, seen, verdict>>

(* A cancellation, a stale revision, an expired lease or an I/O error: the *)
(* context manager resolves what there is.                                 *)
Fail(i) ==
  /\ pc[i] \in {"prepared", "created", "writing", "written", "staged",
                "committing", "verified"}
  /\ To(i, "resolve")
  /\ UNCHANGED <<disk, journal, holder, work, mem, seen, verdict>>

(* __enter__ fails before there is a record: nothing is resolved.          *)
FailEntering(i) ==
  /\ At(i, "acquired", "closing")
  /\ UNCHANGED <<disk, journal, holder, work, mem, seen, verdict>>

(* _resolve compares the destination with both fingerprints.               *)
Published(i) == mem[i].staged /\ target = work[i]
Untouched(i) == target = mem[i].previous

(* Mutant: everything that is not the old file counts as the new one.      *)
DecideByDifference(i) ==
  /\ At(i, "resolve", "cleanup")
  /\ verdict' = [verdict EXCEPT ![i] = IF Untouched(i) THEN "ABORTED" ELSE "COMMITTED"]
  /\ UNCHANGED <<disk, journal, holder, work, mem, seen>>

Decide(i) ==
  /\ At(i, "resolve", "cleanup")
  /\ Published(i) \/ Untouched(i)
  /\ verdict' = [verdict EXCEPT ![i] = IF Published(i) THEN "COMMITTED" ELSE "ABORTED"]
  /\ UNCHANGED <<disk, journal, holder, work, mem, seen>>

DecideFails(i) ==
  /\ At(i, "resolve", "closing")
  /\ ~ (Published(i) \/ Untouched(i))
  /\ UNCHANGED <<disk, journal, holder, work, mem, seen, verdict>>

(* A stage is removed only if the record proves whose it is.               *)
Proven(i) ==
  /\ mem[i].identity
  /\ stage[work[i]] \in (IF mem[i].staged THEN {"full"} ELSE {"part", "full"})

Cleanup(i) ==
  /\ At(i, "cleanup", "finish")
  /\ stage[work[i]] = "none" \/ Proven(i)
  /\ stage' = [stage EXCEPT ![work[i]] = "none"]
  /\ UNCHANGED <<target, installed, touched, misjudged, journal, holder, work, mem, seen, verdict>>

CleanupFails(i) ==
  /\ At(i, "cleanup", "closing")
  /\ stage[work[i]] # "none" /\ ~ Proven(i)
  /\ UNCHANGED <<disk, journal, holder, work, mem, seen, verdict>>

Finish(i) ==
  /\ pc[i] = "finish"
  /\ Resolved(i, verdict[i])
  /\ verdict' = [verdict EXCEPT ![i] = "none"]
  /\ UNCHANGED misjudged

(* The coordinator's close: the reservation stays.                         *)
Close(i) ==
  /\ At(i, "closing", "done")
  /\ row' = [row EXCEPT ![work[i]] = "RECOVERY_REQUIRED"]
  /\ holder' = None
  /\ UNCHANGED <<disk, rec, work, mem, seen, verdict>>

Crash(i) ==
  /\ pc[i] \in Working
  /\ To(i, "done")
  /\ holder' = IF holder = i THEN None ELSE holder
  /\ UNCHANGED <<disk, journal, work, mem, seen, verdict>>

(* Another program writes or deletes the destination.                      *)
Overwrite ==
  /\ Interferes
  /\ ~ touched
  /\ target' \in {Alien, None} \ {target}
  /\ touched' = TRUE
  /\ UNCHANGED <<stage, journal, holder, pc, work, mem, seen, verdict, installed, misjudged>>

(* Another program puts a file of its own under an abandoned stage's name. *)
ReplaceStage(i) ==
  /\ Interferes
  /\ ~ touched
  /\ pc[i] = "done" /\ row[i] \in Open /\ holder = None
  /\ stage' = [stage EXCEPT ![i] = "alien"]
  /\ touched' = TRUE
  /\ UNCHANGED <<target, journal, holder, pc, work, mem, seen, verdict, installed, misjudged>>

Step(i) ==
  \/ Find(i) \/ FindNothing(i) \/ Recover(i) \/ RecoverRefused(i) \/ AbortInert(i)
  \/ Acquire(i) \/ AcquireRefused(i)
  \/ PersistPrevious(i) \/ CreateStage(i) \/ PersistIdentity(i) \/ WriteStage(i)
  \/ PersistStaged(i) \/ Commit(i) \/ Verify(i) \/ Rename(i)
  \/ Fail(i) \/ FailEntering(i)
  \/ Decide(i) \/ DecideFails(i) \/ Cleanup(i) \/ CleanupFails(i) \/ Finish(i)
  \/ Close(i) \/ Crash(i)

Next == Overwrite \/ \E i \in Inv : Step(i) \/ ReplaceStage(i)

Spec == Init /\ [][Next]_vars

-------------------------------------------------------------------------------
(* Types of the variables.                                                 *)
Object == Inv \cup {Old, Alien, None}
Record == [previous : Object, identity : BOOLEAN, staged : BOOLEAN] \cup {None}

TypeOK ==
  /\ target \in Object
  /\ stage \in [Inv -> {"none", "part", "full", "alien"}]
  /\ row \in [Inv -> {"absent", "COMMITTED", "ABORTED"} \cup Open]
  /\ rec \in [Inv -> Record]
  /\ holder \in Inv \cup {None}
  /\ pc \in [Inv -> {"new", "done"} \cup Working]
  /\ work \in [Inv -> Inv]
  /\ mem \in [Inv -> Record]
  /\ seen \in [Inv -> Object]
  /\ verdict \in [Inv -> {"none", "COMMITTED", "ABORTED"}]
  /\ installed \subseteq Inv
  /\ touched \in BOOLEAN
  /\ misjudged \subseteq Inv

(* "No staging or replacement is allowed until this publisher's first      *)
(* record is durable.  An interrupted acquisition is inert."  A            *)
(* replacement recorded as aborted therefore left the destination alone    *)
(* (unless another program wrote to it).                                   *)
InterruptedIsInert ==
  ~ touched => \A i \in Inv : row[i] = "ABORTED" => i \notin installed

(* A replacement that is recorded as committed was put in place: neither   *)
(* a recovery nor an interference makes an incomplete one a success.  And  *)
(* one that is recorded as aborted was not, unless it was taken to be inert*)
(* from a read that was out of date when its lock was taken.               *)
ResultIsTrue ==
  /\ \A i \in Inv : row[i] = "COMMITTED" => i \in installed
  /\ ~ touched => \A i \in Inv \ misjudged : row[i] = "ABORTED" => i \notin installed

(* A result, of either kind, is recorded after the operation's stage is    *)
(* gone: no partial or superseded content stays in the user's directory.   *)
NothingLeftBehind ==
  \A i \in Inv \ misjudged :
    row[i] \in {"COMMITTED", "ABORTED"} => stage[i] \in {"none", "alien"}

(* Both: a result is true, and nothing is left of how it came about.       *)
ResultsHold == ResultIsTrue /\ NothingLeftBehind

(* An interrupted replacement can always be told from its record, and so   *)
(* be resolved by the next invocation, except in the two windows between   *)
(* creating a stage and recording its identity, where the code fails       *)
(* closed on purpose (MUTATION_RECOVERY.md).                               *)
Resolvable(w) ==
  \/ rec[w] = None
  \/ /\ target = rec[w].previous \/ (target = w /\ rec[w].staged)
     /\ stage[w] # "none" => rec[w].identity /\ (rec[w].staged => stage[w] = "full")

InterruptionsResolve ==
  ~ touched /\ holder = None =>
    \A w \in Inv :
      /\ row[w] \in Open
      /\ rec[w] # None => stage[w] # "part" \/ rec[w].identity
      => Resolvable(w)

(* Both: what is recorded is true, and what is not can be found out.       *)
ReplacementsHold == ResultsHold /\ InterruptionsResolve

(* Cleaning up never removes a file that is not the operation's own.       *)
SparesAliens == [][\A i \in Inv : stage[i] = "alien" => stage'[i] = "alien"]_stage

(* What the invocations do, as AtomicReplace describes it (a misjudged one *)
(* has not told what it did).                                              *)
Phase(i) ==
  CASE row[i] = "absent" -> "idle"
    [] row[i] = "COMMITTED" -> "committed"
    [] row[i] = "ABORTED" /\ i \notin misjudged -> "aborted"
    [] OTHER -> IF i \in installed THEN "installed" ELSE "open"

Replace == INSTANCE AtomicReplace WITH
  Other <- {Old, Alien},
  file <- target,
  base <- seen,
  phase <- [i \in Inv |-> Phase(i)]

ReplaceSpec == Replace!Spec
===============================================================================
