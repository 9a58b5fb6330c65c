--------------------------- MODULE BundlePublication ---------------------------
(***************************************************************************)
(* publish_staged_bundle (core/publication.py) under its journal           *)
(* BundleMutation: several files with names of their own, replaced as one  *)
(* set by invocations that first recover what an earlier one left.         *)
(*                                                                         *)
(* A copy into a private file is one step with the record of its seal: an  *)
(* unsealed copy is recorded when it is created (partial_files) and only   *)
(* ever deleted.  MutationCoordinator is reduced to one lock and one       *)
(* reservation of the whole set.  A file is its content and the operation  *)
(* that created it, which is what the code's identities tell apart.        *)
(***************************************************************************)
EXTENDS Naturals, FiniteSets

CONSTANTS
  Inv,         \* invocations; each publishes one bundle and ends
  Targets,     \* the names of the set
  Links,       \* targets whose original is a symbolic link
  Old, Alien,  \* contents: of the first files, of another program
  None,        \* no file, no record, no holder
  Interferes,  \* whether another program writes to a target
  JournalFails \* whether the journal can refuse the record of the validation

VARIABLES
  target,    \* target[t]: the file under its name
  priv,      \* priv[w][t]: private files of operation w beside target t
  row,       \* row[w]: state of the operation in the journal
  rec,       \* rec[w]: the durable publication record, or None
  holder,    \* invocation that holds the lock of the set
  pc,        \* control state of an invocation
  work,      \* work[i]: operation that i is working on
  mem,       \* mem[i]: i's copy of the record of work[i]
  cur,       \* cur[i]: target that i is working on, or None
  touched,   \* history: the other program has written to a target
  refused,   \* history: operations whose recovery could not be proved safe
  misjudged  \* history: operations recovered from a record that had changed
             \* between its reading and the lock

disk == <<target, priv, touched>>
journal == <<row, rec>>
local == <<work, mem, cur>>
history == <<refused, misjudged>>
vars == <<target, priv, row, rec, holder, pc, work, mem, cur, touched, refused, misjudged>>

Open == {"PREPARED", "COMMITTING", "RECOVERY_REQUIRED"}
Publishing == {"tracked", "committing", "candidate", "displacing", "displaced",
               "installing", "installed", "complete"}
Working == Publishing \cup {"found", "ready", "acquired", "validated", "unpublish",
  "restore", "restoring", "restored", "sweep", "finish", "recording", "closing"}

File(c, w) == [content |-> c, by |-> w]
New(w) == File(w, w)
First == File(Old, None)
Foreign == File(Alien, None)

NoPriv == [source |-> FALSE, backup |-> FALSE, moved |-> None, cand |-> FALSE,
           copy |-> FALSE, stray |-> FALSE]
Untouched(f) == [orig |-> f, backup |-> FALSE, attempted |-> FALSE, cand |-> FALSE,
                 rest |-> FALSE]

Init ==
  /\ target \in [Targets -> {First, None}]
  /\ \A t \in Links : target[t] = First
  /\ priv = [w \in Inv |-> [t \in Targets |-> NoPriv]]
  /\ row = [w \in Inv |-> "absent"]
  /\ rec = [w \in Inv |-> None]
  /\ holder = None
  /\ pc = [i \in Inv |-> "new"]
  /\ work = [i \in Inv |-> i]
  /\ mem = [i \in Inv |-> None]
  /\ cur = [i \in Inv |-> None]
  /\ touched = FALSE
  /\ refused = {}
  /\ misjudged = {}

To(i, next) == pc' = [pc EXCEPT ![i] = next]

At(i, here, next) == pc[i] = here /\ To(i, next)

Forget(i) ==
  /\ work' = [work EXCEPT ![i] = i]
  /\ mem' = [mem EXCEPT ![i] = None]
  /\ cur' = [cur EXCEPT ![i] = None]

(* _persist writes the record the invocation has in memory.                *)
Persist(i, r) ==
  /\ mem' = [mem EXCEPT ![i] = r]
  /\ rec' = [rec EXCEPT ![work[i]] = r]
  /\ UNCHANGED row

Entry(i, t, e) == Persist(i, [mem[i] EXCEPT !.entry[t] = e])

Private(i, t, p) == priv' = [priv EXCEPT ![work[i]][t] = p]

(* reconcile reads the record of an interrupted operation before its lock  *)
(* is taken.                                                               *)
Find(i) ==
  /\ \E w \in Inv : row[w] \in Open /\ work' = [work EXCEPT ![i] = w]
                                    /\ mem' = [mem EXCEPT ![i] = rec[w]]
  /\ At(i, "new", "found")
  /\ UNCHANGED <<disk, journal, holder, cur, history>>

FindNothing(i) ==
  /\ \A w \in Inv : row[w] \notin Open
  /\ At(i, "new", "ready")
  /\ UNCHANGED <<disk, journal, holder, local, history>>

RecoverRefused(i) ==
  /\ holder # None \/ row[work[i]] \notin Open
  /\ At(i, "found", "done")
  /\ Forget(i)
  /\ UNCHANGED <<disk, journal, holder, history>>

(* What a target holds is one of the files the record knows.               *)
Known(w, r, t) ==
  \/ target[t] \in {None, r.entry[t].orig}
  \/ target[t] = New(w) /\ r.entry[t].cand
  \/ r.entry[t].rest /\ target[t] = File(r.entry[t].orig.content, w)

(* _recover_artifacts classifies every target before anything is changed.  *)
Recoverable(w, r) ==
  /\ \A t \in Targets : Known(w, r, t)
  /\ r.validated => \A t \in Targets : target[t] = New(w)

Recover(i) ==
  LET w == work[i] IN
    /\ holder = None /\ row[w] \in Open
    /\ pc[i] = "found"
    /\ mem[i] # None => Recoverable(w, mem[i])
    /\ To(i, CASE mem[i] = None -> "recording"
               [] mem[i] # None /\ mem[i].validated -> "validated"
               [] OTHER -> "unpublish")
    /\ holder' = i
    /\ row' = [row EXCEPT ![w] = "RECOVERY_REQUIRED"]
    /\ misjudged' = IF mem[i] # rec[w] THEN misjudged \cup {w} ELSE misjudged
    /\ UNCHANGED <<disk, rec, local, refused>>

RecoverFails(i) ==
  LET w == work[i] IN
    /\ holder = None /\ row[w] \in Open
    /\ At(i, "found", "closing")
    /\ mem[i] # None /\ ~ Recoverable(w, mem[i])
    /\ holder' = i
    /\ refused' = IF mem[i] = rec[w] THEN refused \cup {w} ELSE refused
    /\ UNCHANGED <<disk, journal, local, misjudged>>

Acquire(i) ==
  /\ holder = None
  /\ \A w \in Inv : row[w] \notin Open
  /\ At(i, "ready", "acquired")
  /\ holder' = i
  /\ row' = [row EXCEPT ![i] = "PREPARED"]
  /\ UNCHANGED <<disk, rec, local, history>>

AcquireRefused(i) ==
  /\ holder # None \/ \E w \in Inv : row[w] \in Open
  /\ At(i, "ready", "done")
  /\ UNCHANGED <<disk, journal, holder, local, history>>

(* track: the originals and the claimed sources, before the first change.  *)
Track(i) ==
  /\ At(i, "acquired", "tracked")
  /\ priv' = [priv EXCEPT ![i] = [t \in Targets |-> [NoPriv EXCEPT !.source = TRUE]]]
  /\ Persist(i, [entry |-> [t \in Targets |-> Untouched(target[t])], validated |-> FALSE])
  /\ UNCHANGED <<target, touched, holder, work, cur, history>>

NeedsBackup(i, t) ==
  /\ t \notin Links
  /\ mem[i].entry[t].orig # None
  /\ ~ mem[i].entry[t].backup

BackupTarget(i, t) ==
  /\ pc[i] = "tracked"
  /\ NeedsBackup(i, t)
  /\ target[t] = mem[i].entry[t].orig
  /\ Private(i, t, [priv[i][t] EXCEPT !.backup = TRUE])
  /\ Entry(i, t, [mem[i].entry[t] EXCEPT !.backup = TRUE])
  /\ UNCHANGED <<target, touched, holder, pc, work, cur, history>>

(* committing: no destination has changed since it was bound.              *)
Committing(i) ==
  /\ At(i, "tracked", "committing")
  /\ \A t \in Targets : ~ NeedsBackup(i, t) /\ target[t] = mem[i].entry[t].orig
  /\ row' = [row EXCEPT ![i] = "COMMITTING"]
  /\ UNCHANGED <<disk, rec, holder, local, history>>

(* _publish_artifact, one target after the other: a sealed candidate, ...  *)
Candidate(i, t) ==
  /\ At(i, "committing", "candidate")
  /\ ~ mem[i].entry[t].cand
  /\ cur' = [cur EXCEPT ![i] = t]
  /\ Private(i, t, [priv[i][t] EXCEPT !.cand = TRUE])
  /\ Entry(i, t, [mem[i].entry[t] EXCEPT !.cand = TRUE])
  /\ UNCHANGED <<target, touched, holder, work, history>>

(* ... nothing to displace under the name, ...                             *)
NothingToDisplace(i) ==
  /\ At(i, "candidate", "installing")
  /\ mem[i].entry[cur[i]].orig = None /\ target[cur[i]] = None
  /\ UNCHANGED <<disk, journal, holder, local, history>>

(* Mutant: the move is not recorded before it happens.                     *)
DisplacingUnrecorded(i) ==
  LET t == cur[i] IN
    /\ At(i, "candidate", "displacing")
    /\ mem[i].entry[t].orig # None /\ target[t] = mem[i].entry[t].orig
    /\ UNCHANGED <<disk, journal, holder, local, history>>

(* ... or a reservation of the place it is moved to, ...                   *)
Displacing(i) ==
  LET t == cur[i] IN
    /\ At(i, "candidate", "displacing")
    /\ mem[i].entry[t].orig # None /\ target[t] = mem[i].entry[t].orig
    /\ Entry(i, t, [mem[i].entry[t] EXCEPT !.attempted = TRUE])
    /\ UNCHANGED <<disk, holder, work, cur, history>>

(* ... the move of whatever has the name by now, ...                       *)
Displace(i) ==
  LET t == cur[i] IN
    /\ At(i, "displacing", "displaced")
    /\ target[t] # None
    /\ Private(i, t, [priv[i][t] EXCEPT !.moved = target[t]])
    /\ target' = [target EXCEPT ![t] = None]
    /\ UNCHANGED <<touched, journal, holder, local, history>>

(* ... which is compared with the original ...                             *)
Displaced(i) ==
  LET t == cur[i] IN
    /\ At(i, "displaced", "installing")
    /\ priv[i][t].moved = mem[i].entry[t].orig
    /\ Entry(i, t, mem[i].entry[t])
    /\ UNCHANGED <<disk, holder, work, cur, history>>

(* ... and put back if it is another program's.                            *)
PutBack(i) ==
  LET t == cur[i] IN
    /\ At(i, "displaced", "unpublish")
    /\ priv[i][t].moved # mem[i].entry[t].orig
    /\ target[t] = None
    /\ target' = [target EXCEPT ![t] = priv[i][t].moved]
    /\ Private(i, t, [priv[i][t] EXCEPT !.moved = None])
    /\ UNCHANGED <<touched, journal, holder, local, history>>

(* _commit_prepared_install: the rename replaces nothing.                  *)
Install(i) ==
  LET t == cur[i] IN
    /\ At(i, "installing", "installed")
    /\ target[t] = None
    /\ target' = [target EXCEPT ![t] = New(i)]
    /\ Private(i, t, [priv[i][t] EXCEPT !.cand = FALSE])
    /\ UNCHANGED <<touched, journal, holder, local, history>>

(* The record of the installation; a journal that refuses it is ignored.   *)
Installed(i) ==
  /\ At(i, "installed", IF \A t \in Targets : mem[i].entry[t].cand
                          THEN "complete" ELSE "committing")
  /\ target[cur[i]] = New(i)
  /\ cur' = [cur EXCEPT ![i] = None]
  /\ UNCHANGED <<disk, journal, holder, work, mem, history>>

(* validated: the set was checked as a whole and is there.                 *)
Validated(i) ==
  /\ At(i, "complete", "validated")
  /\ \A t \in Targets : target[t] = New(i)
  /\ Persist(i, [mem[i] EXCEPT !.validated = TRUE])
  /\ UNCHANGED <<disk, holder, work, cur, history>>

(* The record has changed in memory when the journal refuses it.           *)
ValidatedFails(i) ==
  /\ JournalFails
  /\ At(i, "complete", "unpublish")
  /\ \A t \in Targets : target[t] = New(i)
  /\ mem' = [mem EXCEPT ![i].validated = TRUE]
  /\ UNCHANGED <<disk, journal, holder, work, cur, history>>

(* An expired lease, an I/O error, a changed file, a failed validation.    *)
(* What the interrupted step left of its candidate is removed.             *)
Fail(i) ==
  /\ pc[i] \in Publishing
  /\ To(i, "unpublish")
  /\ priv' = [priv EXCEPT ![i] = [t \in Targets |-> [priv[i][t] EXCEPT !.cand = FALSE]]]
  /\ cur' = [cur EXCEPT ![i] = None]
  /\ UNCHANGED <<target, touched, journal, holder, work, mem, history>>

FailEntering(i) ==
  /\ At(i, "acquired", "closing")
  /\ UNCHANGED <<disk, journal, holder, local, history>>

(* _rollback_bundle, first sweep: the new files go.                        *)
Unpublish(i, t) ==
  /\ pc[i] = "unpublish"
  /\ target[t] = New(work[i])
  /\ target' = [target EXCEPT ![t] = None]
  /\ UNCHANGED <<priv, touched, journal, holder, pc, local, history>>

Unpublished(i) ==
  /\ At(i, "unpublish", "restore")
  /\ \A t \in Targets : target[t] # New(work[i])
  /\ UNCHANGED <<disk, journal, holder, local, history>>

(* Second sweep, _restore_original: a target that is missing comes back    *)
(* from its backup, or from where the original was moved to.               *)
Missing(i, t) == target[t] = None /\ mem[i].entry[t].orig # None

Restoring(i, t) ==
  LET p == priv[work[i]][t] IN
    /\ At(i, "restore", "restoring")
    /\ Missing(i, t) /\ mem[i].entry[t].attempted
    /\ p.backup \/ p.moved = mem[i].entry[t].orig
    /\ cur' = [cur EXCEPT ![i] = t]
    /\ IF t \in Links THEN UNCHANGED priv
       ELSE Private(i, t, [p EXCEPT !.copy = TRUE, !.stray = @ \/ p.copy])
    /\ Entry(i, t, [mem[i].entry[t] EXCEPT !.rest = TRUE])
    /\ UNCHANGED <<target, touched, holder, work, history>>

InstallCopy(i) ==
  LET t == cur[i]
      p == priv[work[i]][t]
      original == mem[i].entry[t].orig IN
    /\ At(i, "restoring", "restored")
    /\ target[t] = None
    /\ target' = [target EXCEPT ![t] = IF t \in Links THEN original
                                       ELSE File(original.content, work[i])]
    /\ Private(i, t, IF t \in Links THEN [p EXCEPT !.moved = None]
                     ELSE [p EXCEPT !.copy = FALSE])
    /\ UNCHANGED <<touched, journal, holder, local, history>>

(* The file it was restored from is not needed any more.                   *)
Restored(i) ==
  LET t == cur[i]
      p == priv[work[i]][t] IN
    /\ At(i, "restored", "restore")
    /\ Private(i, t, IF p.backup THEN [p EXCEPT !.backup = FALSE] ELSE [p EXCEPT !.moved = None])
    /\ cur' = [cur EXCEPT ![i] = None]
    /\ UNCHANGED <<target, touched, journal, holder, work, mem, history>>

(* A target has its original again, or the copy of it that was restored.   *)
IsOld(i, t) ==
  \/ target[t] = mem[i].entry[t].orig
  \/ /\ mem[i].entry[t].rest
     /\ target[t] = File(mem[i].entry[t].orig.content, work[i])

(* The other sweeps: sources, backups and displaced originals.             *)
RolledBack(i) ==
  /\ At(i, "restore", "sweep")
  /\ \A t \in Targets : IsOld(i, t)
  /\ UNCHANGED <<disk, journal, holder, local, history>>

RollbackFails(i) ==
  /\ At(i, "restore", "closing")
  /\ \E t \in Targets :
       \/ target[t] # None /\ ~ IsOld(i, t)
       \/ Missing(i, t) /\ ~ mem[i].entry[t].attempted
       \/ Missing(i, t) /\ ~ priv[work[i]][t].backup
                        /\ priv[work[i]][t].moved # mem[i].entry[t].orig
  /\ refused' = IF work[i] = i THEN refused ELSE refused \cup {work[i]}
  /\ UNCHANGED <<disk, journal, holder, local, misjudged>>

Swept(p, r, t) ==
  [p EXCEPT !.source = FALSE, !.backup = FALSE,
            !.moved = IF @ = r.entry[t].orig THEN None ELSE @]

Sweep(i) ==
  /\ At(i, "sweep", "finish")
  /\ priv' = [priv EXCEPT ![work[i]] =
                [t \in Targets |-> Swept(priv[work[i]][t], mem[i], t)]]
  /\ UNCHANGED <<target, touched, journal, holder, local, history>>

(* _cleanup_committed_bundle; the committed set stays what it is.          *)
CleanupCommitted(i) ==
  /\ At(i, "validated", "finish")
  /\ priv' = [priv EXCEPT ![work[i]] =
                [t \in Targets |-> Swept(priv[work[i]][t], mem[i], t)]]
  /\ UNCHANGED <<target, touched, journal, holder, local, history>>

(* finish: the complete set is verified, ...                               *)
Verified(i) ==
  \A t \in Targets :
    IF mem[i].validated THEN target[t] = New(work[i])
    ELSE IsOld(i, t)

(* ... and a recovery removes every private file it has a record of; a     *)
(* directory with another one in it, or another program's file, stops it.  *)
Cleanable(i) ==
  \A t \in Targets : ~ priv[work[i]][t].stray
                     /\ priv[work[i]][t].moved \in {None, mem[i].entry[t].orig}

(* Mutant: the set is not verified before its result is recorded.          *)
FinishUnverified(i) ==
  /\ At(i, "finish", "recording")
  /\ work[i] # i => Cleanable(i)
  /\ IF work[i] = i THEN UNCHANGED priv
     ELSE priv' = [priv EXCEPT ![work[i]] = [t \in Targets |-> NoPriv]]
  /\ UNCHANGED <<target, touched, journal, holder, local, history>>

Finish(i) ==
  /\ At(i, "finish", "recording")
  /\ Verified(i)
  /\ work[i] # i => Cleanable(i)
  /\ IF work[i] = i THEN UNCHANGED priv
     ELSE priv' = [priv EXCEPT ![work[i]] = [t \in Targets |-> NoPriv]]
  /\ UNCHANGED <<target, touched, journal, holder, local, history>>

FinishFails(i) ==
  /\ At(i, "finish", "closing")
  /\ ~ (Verified(i) /\ (work[i] # i => Cleanable(i)))
  /\ refused' = IF work[i] = i THEN refused ELSE refused \cup {work[i]}
  /\ UNCHANGED <<disk, journal, holder, local, misjudged>>

(* The result frees the set; a recovery goes on to its own publication.    *)
Record(i) ==
  LET w == work[i] IN
    /\ At(i, "recording", IF w = i THEN "done" ELSE "ready")
    /\ row' = [row EXCEPT ![w] = IF mem[i] # None /\ mem[i].validated
                                   THEN "COMMITTED" ELSE "ABORTED"]
    /\ holder' = None
    /\ Forget(i)
    /\ UNCHANGED <<disk, rec, history>>

Close(i) ==
  /\ At(i, "closing", "done")
  /\ row' = [row EXCEPT ![work[i]] = "RECOVERY_REQUIRED"]
  /\ holder' = None
  /\ Forget(i)
  /\ UNCHANGED <<disk, rec, history>>

Crash(i) ==
  /\ pc[i] \in Working
  /\ To(i, "done")
  /\ holder' = IF holder = i THEN None ELSE holder
  /\ Forget(i)
  /\ UNCHANGED <<disk, journal, history>>

(* Another program replaces a target.                                      *)
Overwrite(t) ==
  /\ Interferes /\ ~ touched
  /\ target' = [target EXCEPT ![t] = Foreign]
  /\ touched' = TRUE
  /\ UNCHANGED <<priv, journal, holder, pc, local, history>>

Step(i) ==
  \/ Find(i) \/ FindNothing(i) \/ Recover(i) \/ RecoverRefused(i) \/ RecoverFails(i)
  \/ Acquire(i) \/ AcquireRefused(i) \/ Track(i)
  \/ (\E t \in Targets : BackupTarget(i, t) \/ Candidate(i, t) \/ Unpublish(i, t)
                         \/ Restoring(i, t))
  \/ Committing(i) \/ NothingToDisplace(i) \/ Displacing(i) \/ Displace(i) \/ Displaced(i)
  \/ PutBack(i) \/ Install(i) \/ Installed(i) \/ Validated(i) \/ ValidatedFails(i)
  \/ Fail(i) \/ FailEntering(i) \/ Unpublished(i) \/ InstallCopy(i) \/ Restored(i)
  \/ RolledBack(i) \/ RollbackFails(i) \/ Sweep(i) \/ CleanupCommitted(i)
  \/ Finish(i) \/ FinishFails(i) \/ Record(i) \/ Close(i) \/ Crash(i)

Next == (\E i \in Inv : Step(i)) \/ \E t \in Targets : Overwrite(t)

Spec == Init /\ [][Next]_vars

-------------------------------------------------------------------------------
(* Types of the variables.                                                 *)
Files == {First, Foreign} \cup [content : Inv \cup {Old, Alien}, by : Inv]
Record_ == [entry : [Targets -> [orig : Files \cup {None}, backup : BOOLEAN,
                                 attempted : BOOLEAN, cand : BOOLEAN, rest : BOOLEAN]],
            validated : BOOLEAN]

IsRecord(r) == r = None \/ r \in Record_

(* What the constants must be: None is no file, no record and nobody's     *)
(* name; no invocation writes what the first files or those of the other   *)
(* program contain.                                                        *)
BundleAssumption ==
  /\ None \notin Inv \cup Targets \cup Files \cup Record_ /\ Alien # None
  /\ Old \notin Inv /\ Alien \notin Inv

TypeOK ==
  /\ target \in [Targets -> Files \cup {None}]
  /\ priv \in [Inv -> [Targets -> [source : BOOLEAN, backup : BOOLEAN,
                  moved : Files \cup {None}, cand : BOOLEAN, copy : BOOLEAN, stray : BOOLEAN]]]
  /\ row \in [Inv -> {"absent", "COMMITTED", "ABORTED"} \cup Open]
  /\ \A w \in Inv : IsRecord(rec[w]) /\ IsRecord(mem[w])
  /\ holder \in Inv \cup {None}
  /\ pc \in [Inv -> {"new", "done"} \cup Working]
  /\ work \in [Inv -> Inv]
  /\ cur \in [Inv -> Targets \cup {None}]
  /\ touched \in BOOLEAN
  /\ refused \subseteq Inv /\ misjudged \subseteq Inv

ContentOf(f) == IF f = None THEN None ELSE f.content

(* "No incomplete set is recorded committed."  When a result is recorded,  *)
(* the targets are the complete new set or the complete old one, as the    *)
(* result says, and nothing private is left beside them.                   *)
WholeSet(w) ==
  IF row'[w] = "COMMITTED"
    THEN \A t \in Targets : target[t] = New(w)
    ELSE rec[w] # None => \A t \in Targets : ContentOf(target[t]) = ContentOf(rec[w].entry[t].orig)

RecordsWholeSets ==
  \A w \in Inv \ misjudged :
    row[w] # row'[w] /\ row'[w] \in {"COMMITTED", "ABORTED"} /\ ~ touched
      => WholeSet(w) /\ \A t \in Targets : priv[w][t] = NoPriv

(* A file that another program put under a name is not lost, unless the    *)
(* publication was bound to it: it stays there, or beside it in the place  *)
(* it was moved to.                                                        *)
ForeignFilesSurvive ==
  touched => \/ \E t \in Targets : ContentOf(target[t]) = Alien
             \/ \E w \in Inv, t \in Targets : ContentOf(priv[w][t].moved) = Alien
             \/ \E w \in Inv, t \in Targets :
                  rec[w] # None /\ ContentOf(rec[w].entry[t].orig) = Alien

(* "Recovery restores the old complete set or finishes the verified new    *)
(* set": when nobody else writes to the files, no recovery is ever refused.*)
RecoveryNeverStuck ==
  ~ touched => refused \subseteq misjudged

(* The same but for the two cases where it does not hold: a restoration    *)
(* interrupted between its record and its rename and done again (stray),   *)
(* and a set recorded as validated that was rolled back, because the       *)
(* journal refused the record of the validation and took a later one.      *)
RecoveryResolves ==
  ~ touched =>
    \A w \in refused \ misjudged :
      \/ \E t \in Targets : priv[w][t].stray
      \/ rec[w].validated /\ \E t \in Targets : target[t] # New(w)
===============================================================================
