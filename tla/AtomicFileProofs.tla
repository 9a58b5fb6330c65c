--------------------------- MODULE AtomicFileProofs ---------------------------
(***************************************************************************)
(* Proofs about AtomicFile, for any number of invocations and with other   *)
(* programs writing to the destination.  The argument: one invocation has  *)
(* the lock (LockInv), the durable record is always ahead of the disk      *)
(* (RecordInv, StagingInv), and so the destination together with the       *)
(* record tells what became of the open operation (TargetInv).  What an    *)
(* invocation decides from its copy of the record is then true             *)
(* (CopyInv, VerdictInv), and remains so until it is recorded.             *)
(***************************************************************************)
EXTENDS AtomicFile, TLAPS

(* Control states of the owner of the lock, and those in which it works on *)
(* an operation of its own.                                                *)
Held == Working \ {"found", "ready"}
Staging == {"acquired", "prepared", "created", "writing", "written", "staged",
            "committing", "verified"}
Ended == {"COMMITTED", "ABORTED"}

(* One invocation has the lock, and what it works on is reserved.          *)
LockInv ==
  /\ \A i \in Inv : pc[i] \in Held <=> holder = i
  /\ \A i \in Inv : pc[i] \in Held => row[work[i]] \in Open
  /\ \A v, w \in Inv : row[v] \in Open /\ row[w] \in Open => v = w

(* Before its own operation an invocation has left no trace of it.         *)
FreshInv ==
  /\ \A i \in Inv : pc[i] \in {"new", "ready"} \cup Staging => work[i] = i
  /\ \A i \in Inv : pc[i] \in {"found", "inert"} => work[i] # i
  /\ \A i \in Inv : pc[i] \in {"new", "ready"} \/ (pc[i] # "done" /\ work[i] # i) => row[i] = "absent"
  /\ \A w \in Inv : row[w] = "absent" => rec[w] = None /\ stage[w] = "none"

(* The durable record is ahead of the disk.                                *)
RecordInv ==
  \A w \in Inv :
    /\ rec[w] = None => stage[w] \in {"none", "alien"} /\ w \notin installed
    /\ rec[w] # None => rec[w].previous # w
    /\ stage[w] = "full" => rec[w].identity
    /\ stage[w] = "part" => ~ rec[w].staged
    /\ w \in installed => rec[w].staged
    /\ stage[w] = "alien" => touched

(* A copy of a record may be out of date, but it is of the same operation. *)
CopyInv ==
  \A i \in Inv :
    /\ mem[i] # None =>
         /\ rec[work[i]] # None
         /\ mem[i].previous = rec[work[i]].previous
         /\ mem[i].staged => rec[work[i]].staged
    /\ pc[i] \in {"resolve", "cleanup", "finish"} => mem[i] # None

(* How far the record and the stage of an invocation at work are.          *)
StagingInv ==
  \A i \in Inv :
    /\ pc[i] = "acquired" => rec[i] = None /\ mem[i] = None /\ stage[i] = "none"
    /\ pc[i] \in Staging \ {"acquired"} => rec[i] # None /\ mem[i] # None
    /\ pc[i] \in Staging => i \notin installed
    /\ pc[i] = "prepared" => stage[i] = "none"
    /\ pc[i] \in {"prepared", "created", "writing", "written"} => ~ mem[i].staged /\ ~ rec[i].staged
    /\ pc[i] \in {"created", "writing"} => stage[i] = "part"
    /\ pc[i] \in Staging \ {"acquired", "prepared"} => mem[i].identity
    /\ pc[i] \in {"writing", "written", "staged", "committing", "verified"} => mem[i] = rec[i]
    /\ pc[i] \in {"written", "staged", "committing", "verified"} => stage[i] = "full"
    /\ pc[i] \in {"staged", "committing", "verified"} => rec[i].staged

(* What is in the destination tells what became of the open operation.     *)
TargetInv ==
  /\ target \in Inv => target \in installed
  /\ ~ touched =>
       \A w \in Inv : row[w] \in Open =>
         /\ w \in installed => target = w
         /\ w \notin installed => target = seen[w] /\ (rec[w] # None => target = rec[w].previous)

(* A verdict that is about to be recorded is true.                         *)
VerdictInv ==
  \A i \in Inv :
    /\ pc[i] \in {"cleanup", "finish"} => verdict[i] \in Ended
    /\ pc[i] \in {"cleanup", "finish"} /\ verdict[i] = "COMMITTED" => work[i] \in installed
    /\ pc[i] \in {"cleanup", "finish"} /\ verdict[i] = "ABORTED" /\ ~ touched => work[i] \notin installed
    /\ pc[i] = "finish" => stage[work[i]] = "none"

MisjudgedInv == \A w \in misjudged : row[w] = "ABORTED"

IInv ==
  /\ TypeOK /\ LockInv /\ FreshInv /\ RecordInv /\ CopyInv /\ StagingInv
  /\ TargetInv /\ VerdictInv /\ MisjudgedInv /\ ResultsHold

USE DEF Open, Working, Held, Staging, Ended
(* Every step keeps the inductive invariant.                               *)
LEMMA StepIInv == IInv /\ [Next]_vars => IInv'
<1> SUFFICES ASSUME TypeOK, LockInv, FreshInv, RecordInv, CopyInv, StagingInv,
                   TargetInv, VerdictInv, MisjudgedInv, ResultsHold,
                  [Next]_vars
             PROVE IInv'
  BY DEF IInv
<1> USE AtomicFileAssumption DEF To, At, disk, journal
<1>1. ASSUME NEW i \in Inv, Find(i) PROVE IInv'
  <2>1. RecordInv' /\ TargetInv' /\ MisjudgedInv' /\ ResultsHold'
    BY <1>1 DEF Find, RecordInv, TargetInv, MisjudgedInv, ResultsHold,
       ResultIsTrue, NothingLeftBehind
  <2>2. TypeOK'
    BY <1>1 DEF Find, TypeOK, Object, Record
  <2>3. LockInv'
    BY <1>1 DEF Find, TypeOK, Object, Record, LockInv
  <2>4. FreshInv'
    BY <1>1 DEF Find, TypeOK, Object, Record, FreshInv
  <2>5. CopyInv'
    BY <1>1 DEF Find, TypeOK, Object, Record, CopyInv
  <2>6. StagingInv'
    BY <1>1 DEF Find, TypeOK, Object, Record, StagingInv
  <2>7. VerdictInv'
    BY <1>1 DEF Find, TypeOK, Object, Record, VerdictInv
  <2> QED
    BY <2>1, <2>2, <2>3, <2>4, <2>5, <2>6, <2>7 DEF IInv
<1>2. ASSUME NEW i \in Inv, FindNothing(i) PROVE IInv'
  <2>1. RecordInv' /\ TargetInv' /\ MisjudgedInv' /\ ResultsHold'
    BY <1>2 DEF FindNothing, RecordInv, TargetInv, MisjudgedInv, ResultsHold,
       ResultIsTrue, NothingLeftBehind
  <2>2. TypeOK'
    BY <1>2 DEF FindNothing, TypeOK, Object, Record
  <2>3. LockInv'
    BY <1>2 DEF FindNothing, TypeOK, Object, Record, LockInv
  <2>4. FreshInv'
    BY <1>2 DEF FindNothing, TypeOK, Object, Record, FreshInv
  <2>5. CopyInv'
    BY <1>2 DEF FindNothing, TypeOK, Object, Record, CopyInv
  <2>6. StagingInv'
    BY <1>2 DEF FindNothing, TypeOK, Object, Record, StagingInv
  <2>7. VerdictInv'
    BY <1>2 DEF FindNothing, TypeOK, Object, Record, VerdictInv
  <2> QED
    BY <2>1, <2>2, <2>3, <2>4, <2>5, <2>6, <2>7 DEF IInv
<1>3. ASSUME NEW i \in Inv, Recover(i) PROVE IInv'
  <2>1. RecordInv'
    BY <1>3 DEF Recover, RecordInv
  <2>2. TypeOK'
    BY <1>3 DEF Recover, TypeOK, Object, Record
  <2>3. LockInv'
    BY <1>3 DEF Recover, TypeOK, Object, Record, LockInv
  <2>4. FreshInv'
    BY <1>3 DEF Recover, TypeOK, Object, Record, FreshInv
  <2>5. CopyInv'
    BY <1>3 DEF Recover, TypeOK, Object, Record, CopyInv
  <2>6. StagingInv'
    BY <1>3 DEF Recover, TypeOK, Object, Record, StagingInv
  <2>7. TargetInv'
    BY <1>3 DEF Recover, TypeOK, Object, Record, TargetInv
  <2>8. VerdictInv'
    BY <1>3 DEF Recover, TypeOK, Object, Record, VerdictInv
  <2>9. MisjudgedInv'
    BY <1>3 DEF Recover, TypeOK, Object, Record, MisjudgedInv
  <2>10. ResultsHold'
    BY <1>3 DEF Recover, TypeOK, Object, Record, ResultsHold, ResultIsTrue,
       NothingLeftBehind
  <2> QED
    BY <2>1, <2>2, <2>3, <2>4, <2>5, <2>6, <2>7, <2>8, <2>9, <2>10 DEF IInv
<1>4. ASSUME NEW i \in Inv, RecoverRefused(i) PROVE IInv'
  <2>1. RecordInv' /\ TargetInv' /\ MisjudgedInv' /\ ResultsHold'
    BY <1>4 DEF RecoverRefused, RecordInv, TargetInv, MisjudgedInv,
       ResultsHold, ResultIsTrue, NothingLeftBehind
  <2>2. TypeOK'
    BY <1>4 DEF RecoverRefused, TypeOK, Object, Record
  <2>3. LockInv'
    BY <1>4 DEF RecoverRefused, TypeOK, Object, Record, LockInv
  <2>4. FreshInv'
    BY <1>4 DEF RecoverRefused, TypeOK, Object, Record, FreshInv
  <2>5. CopyInv'
    BY <1>4 DEF RecoverRefused, TypeOK, Object, Record, CopyInv
  <2>6. StagingInv'
    BY <1>4 DEF RecoverRefused, TypeOK, Object, Record, StagingInv
  <2>7. VerdictInv'
    BY <1>4 DEF RecoverRefused, TypeOK, Object, Record, VerdictInv
  <2> QED
    BY <2>1, <2>2, <2>3, <2>4, <2>5, <2>6, <2>7 DEF IInv
<1>5. ASSUME NEW i \in Inv, AbortInert(i) PROVE IInv'
  <2>1. RecordInv'
    BY <1>5 DEF AbortInert, Resolved, RecordInv
  <2>2. TypeOK'
    BY <1>5 DEF AbortInert, Resolved, TypeOK, Object, Record
  <2>3. LockInv'
    BY <1>5 DEF AbortInert, Resolved, TypeOK, Object, Record, LockInv
  <2>4. FreshInv'
    BY <1>5 DEF AbortInert, Resolved, TypeOK, Object, Record, FreshInv, LockInv
  <2>5. CopyInv'
    BY <1>5 DEF AbortInert, Resolved, TypeOK, Object, Record, CopyInv
  <2>6. StagingInv'
    BY <1>5 DEF AbortInert, Resolved, TypeOK, Object, Record, StagingInv
  <2>7. TargetInv'
    BY <1>5 DEF AbortInert, Resolved, TypeOK, Object, Record, TargetInv
  <2>8. VerdictInv'
    BY <1>5 DEF AbortInert, Resolved, TypeOK, Object, Record, VerdictInv
  <2>9. MisjudgedInv'
    BY <1>5 DEF AbortInert, Resolved, TypeOK, Object, Record, MisjudgedInv
  <2>10. ResultsHold'
    BY <1>5 DEF AbortInert, Resolved, ResultsHold, ResultIsTrue,
       NothingLeftBehind, RecordInv
  <2> QED
    BY <2>1, <2>2, <2>3, <2>4, <2>5, <2>6, <2>7, <2>8, <2>9, <2>10 DEF IInv
<1>6. ASSUME NEW i \in Inv, Acquire(i) PROVE IInv'
  <2>1. RecordInv'
    BY <1>6 DEF Acquire, RecordInv
  <2>2. TypeOK'
    BY <1>6 DEF Acquire, TypeOK, Object, Record
  <2>3. LockInv'
    BY <1>6 DEF Acquire, TypeOK, Object, Record, LockInv, FreshInv
  <2>4. FreshInv'
    BY <1>6 DEF Acquire, TypeOK, Object, Record, FreshInv
  <2>5. CopyInv'
    BY <1>6 DEF Acquire, TypeOK, Object, Record, CopyInv
  <2>6. StagingInv'
    BY <1>6 DEF Acquire, StagingInv, FreshInv, RecordInv, CopyInv
  <2>7. TargetInv'
    BY <1>6 DEF Acquire, TypeOK, Object, Record, TargetInv, FreshInv, RecordInv
  <2>8. VerdictInv'
    BY <1>6 DEF Acquire, TypeOK, Object, Record, VerdictInv
  <2>9. MisjudgedInv'
    BY <1>6 DEF Acquire, MisjudgedInv, FreshInv
  <2>10. ResultsHold'
    BY <1>6 DEF Acquire, TypeOK, Object, Record, ResultsHold, ResultIsTrue,
       NothingLeftBehind
  <2> QED
    BY <2>1, <2>2, <2>3, <2>4, <2>5, <2>6, <2>7, <2>8, <2>9, <2>10 DEF IInv
<1>7. ASSUME NEW i \in Inv, AcquireRefused(i) PROVE IInv'
  <2>1. RecordInv' /\ TargetInv' /\ MisjudgedInv' /\ ResultsHold'
    BY <1>7 DEF AcquireRefused, RecordInv, TargetInv, MisjudgedInv,
       ResultsHold, ResultIsTrue, NothingLeftBehind
  <2>2. TypeOK'
    BY <1>7 DEF AcquireRefused, TypeOK, Object, Record
  <2>3. LockInv'
    BY <1>7 DEF AcquireRefused, TypeOK, Object, Record, LockInv
  <2>4. FreshInv'
    BY <1>7 DEF AcquireRefused, TypeOK, Object, Record, FreshInv
  <2>5. CopyInv'
    BY <1>7 DEF AcquireRefused, TypeOK, Object, Record, CopyInv
  <2>6. StagingInv'
    BY <1>7 DEF AcquireRefused, TypeOK, Object, Record, StagingInv
  <2>7. VerdictInv'
    BY <1>7 DEF AcquireRefused, TypeOK, Object, Record, VerdictInv
  <2> QED
    BY <2>1, <2>2, <2>3, <2>4, <2>5, <2>6, <2>7 DEF IInv
<1>8. ASSUME NEW i \in Inv, PersistPrevious(i) PROVE IInv'
  <2>1. MisjudgedInv' /\ ResultsHold'
    BY <1>8 DEF PersistPrevious, Persist, MisjudgedInv, ResultsHold,
       ResultIsTrue, NothingLeftBehind
  <2>2. TypeOK'
    BY <1>8 DEF PersistPrevious, Persist, TypeOK, Object, Record
  <2>3. LockInv'
    BY <1>8 DEF PersistPrevious, Persist, TypeOK, Object, Record, LockInv
  <2>4. FreshInv'
    BY <1>8 DEF PersistPrevious, Persist, FreshInv, LockInv
  <2>5. RecordInv'
    BY <1>8 DEF PersistPrevious, Persist, RecordInv, StagingInv, TargetInv
  <2>6. CopyInv'
    BY <1>8 DEF PersistPrevious, Persist, TypeOK, Object, Record, CopyInv,
       FreshInv, StagingInv
  <2>7. StagingInv'
    <3> DEFINE r == [previous |-> target, identity |-> FALSE, staged |-> FALSE]
    <3>1. r \in [previous : Inv \cup {Old, Alien, None}, identity : BOOLEAN, staged : BOOLEAN]
      BY DEF TypeOK, Object
    <3>2. r # None
      BY <3>1, AtomicFileAssumption
    <3>3. r.staged = FALSE /\ At(i, "acquired", "prepared") /\ Persist(i, r)
      BY <1>8 DEF PersistPrevious
    <3> HIDE DEF r
    <3> QED
      BY <3>2, <3>3, <1>8 DEF Persist, TypeOK, StagingInv, FreshInv, LockInv
  <2>8. TargetInv'
    BY <1>8 DEF PersistPrevious, Persist, TypeOK, Object, Record, TargetInv
  <2>9. VerdictInv'
    BY <1>8 DEF PersistPrevious, Persist, TypeOK, Object, Record, VerdictInv
  <2> QED
    BY <2>1, <2>2, <2>3, <2>4, <2>5, <2>6, <2>7, <2>8, <2>9 DEF IInv
<1>9. ASSUME NEW i \in Inv, CreateStage(i) PROVE IInv'
  <2>1. TargetInv' /\ MisjudgedInv'
    BY <1>9 DEF CreateStage, TargetInv, MisjudgedInv
  <2>2. TypeOK'
    <3>1. mem[i] \in Record /\ mem[i] # None
      BY <1>9 DEF CreateStage, TypeOK, StagingInv
    <3>2. [mem[i] EXCEPT !.identity = TRUE] \in Record
      BY <3>1 DEF Record
    <3> QED
      BY <3>2, <1>9 DEF CreateStage, TypeOK
  <2>3. LockInv'
    BY <1>9 DEF CreateStage, TypeOK, Object, Record, LockInv
  <2>4. FreshInv'
    BY <1>9 DEF CreateStage, FreshInv, StagingInv
  <2>5. RecordInv'
    BY <1>9 DEF CreateStage, RecordInv, StagingInv
  <2>6. CopyInv'
    BY <1>9 DEF CreateStage, CopyInv, StagingInv
  <2>7. StagingInv'
    <3>1. mem[i] \in Record /\ mem[i] # None
      BY <1>9 DEF CreateStage, TypeOK, StagingInv
    <3>2. [mem[i] EXCEPT !.identity = TRUE] \in Record /\ [mem[i] EXCEPT !.identity = TRUE] # None
      BY <3>1, AtomicFileAssumption DEF Record, Object
    <3>3. /\ [mem[i] EXCEPT !.identity = TRUE].previous = mem[i].previous
          /\ [mem[i] EXCEPT !.identity = TRUE].identity = TRUE
          /\ [mem[i] EXCEPT !.identity = TRUE].staged = mem[i].staged
      BY <3>1 DEF Record
    <3> QED
      BY <3>1, <3>2, <3>3, <1>9 DEF CreateStage, Persist, TypeOK, Object,
         StagingInv, RecordInv, CopyInv, StagingInv, FreshInv, LockInv
  <2>8. VerdictInv'
    BY <1>9 DEF CreateStage, VerdictInv, LockInv
  <2>9. ResultsHold'
    BY <1>9 DEF CreateStage, ResultsHold, ResultIsTrue, NothingLeftBehind,
       LockInv, FreshInv
  <2> QED
    BY <2>1, <2>2, <2>3, <2>4, <2>5, <2>6, <2>7, <2>8, <2>9 DEF IInv
<1>10. ASSUME NEW i \in Inv, PersistIdentity(i) PROVE IInv'
  <2>1. MisjudgedInv' /\ ResultsHold'
    BY <1>10 DEF PersistIdentity, Persist, MisjudgedInv, ResultsHold,
       ResultIsTrue, NothingLeftBehind
  <2>2. TypeOK'
    BY <1>10 DEF PersistIdentity, Persist, TypeOK, Object, Record
  <2>3. LockInv'
    BY <1>10 DEF PersistIdentity, Persist, TypeOK, Object, Record, LockInv
  <2>4. FreshInv'
    BY <1>10 DEF PersistIdentity, Persist, FreshInv, StagingInv
  <2>5. RecordInv'
    BY <1>10 DEF PersistIdentity, Persist, RecordInv, FreshInv, CopyInv,
       StagingInv
  <2>6. CopyInv'
    BY <1>10 DEF PersistIdentity, Persist, CopyInv, FreshInv, StagingInv
  <2>7. StagingInv'
    BY <1>10 DEF PersistIdentity, Persist, TypeOK, Object, Record, StagingInv
  <2>8. TargetInv'
    BY <1>10 DEF PersistIdentity, Persist, TargetInv, FreshInv, CopyInv
  <2>9. VerdictInv'
    BY <1>10 DEF PersistIdentity, Persist, TypeOK, Object, Record, VerdictInv
  <2> QED
    BY <2>1, <2>2, <2>3, <2>4, <2>5, <2>6, <2>7, <2>8, <2>9 DEF IInv
<1>11. ASSUME NEW i \in Inv, WriteStage(i) PROVE IInv'
  <2>1. TargetInv' /\ MisjudgedInv'
    BY <1>11 DEF WriteStage, TargetInv, MisjudgedInv
  <2>2. TypeOK'
    BY <1>11 DEF WriteStage, TypeOK, Object, Record
  <2>3. LockInv'
    BY <1>11 DEF WriteStage, TypeOK, Object, Record, LockInv
  <2>4. FreshInv'
    BY <1>11 DEF WriteStage, FreshInv, StagingInv
  <2>5. RecordInv'
    BY <1>11 DEF WriteStage, RecordInv, StagingInv
  <2>6. CopyInv'
    BY <1>11 DEF WriteStage, TypeOK, Object, Record, CopyInv
  <2>7. StagingInv'
    BY <1>11 DEF WriteStage, TypeOK, Object, Record, StagingInv
  <2>8. VerdictInv'
    BY <1>11 DEF WriteStage, VerdictInv, StagingInv
  <2>9. ResultsHold'
    BY <1>11 DEF WriteStage, ResultsHold, ResultIsTrue, NothingLeftBehind,
       StagingInv
  <2> QED
    BY <2>1, <2>2, <2>3, <2>4, <2>5, <2>6, <2>7, <2>8, <2>9 DEF IInv
<1>12. ASSUME NEW i \in Inv, PersistStaged(i) PROVE IInv'
  <2>1. MisjudgedInv' /\ ResultsHold'
    BY <1>12 DEF PersistStaged, Persist, MisjudgedInv, ResultsHold,
       ResultIsTrue, NothingLeftBehind
  <2>2. TypeOK'
    <3>1. mem[i] \in Record /\ mem[i] # None
      BY <1>12 DEF PersistStaged, TypeOK, StagingInv
    <3>2. [mem[i] EXCEPT !.staged = TRUE] \in Record
      BY <3>1 DEF Record
    <3> QED
      BY <3>2, <1>12 DEF PersistStaged, Persist, TypeOK
  <2>3. LockInv'
    BY <1>12 DEF PersistStaged, Persist, TypeOK, Object, Record, LockInv
  <2>4. FreshInv'
    BY <1>12 DEF PersistStaged, Persist, FreshInv, StagingInv
  <2>5. RecordInv'
    <3>1. mem[i] \in Record /\ mem[i] # None
      BY <1>12 DEF PersistStaged, TypeOK, StagingInv
    <3>2. [mem[i] EXCEPT !.staged = TRUE] \in Record /\ [mem[i] EXCEPT !.staged = TRUE] # None
      BY <3>1, AtomicFileAssumption DEF Record, Object
    <3>3. /\ [mem[i] EXCEPT !.staged = TRUE].previous = mem[i].previous
          /\ [mem[i] EXCEPT !.staged = TRUE].identity = mem[i].identity
          /\ [mem[i] EXCEPT !.staged = TRUE].staged = TRUE
      BY <3>1 DEF Record
    <3> QED
      BY <3>1, <3>2, <3>3, <1>12 DEF PersistStaged, Persist, TypeOK, Object,
         RecordInv, RecordInv, CopyInv, StagingInv, FreshInv, LockInv
  <2>6. CopyInv'
    <3>1. mem[i] \in Record /\ mem[i] # None
      BY <1>12 DEF PersistStaged, TypeOK, StagingInv
    <3>2. [mem[i] EXCEPT !.staged = TRUE] \in Record /\ [mem[i] EXCEPT !.staged = TRUE] # None
      BY <3>1, AtomicFileAssumption DEF Record, Object
    <3>3. /\ [mem[i] EXCEPT !.staged = TRUE].previous = mem[i].previous
          /\ [mem[i] EXCEPT !.staged = TRUE].identity = mem[i].identity
          /\ [mem[i] EXCEPT !.staged = TRUE].staged = TRUE
      BY <3>1 DEF Record
    <3> QED
      BY <3>1, <3>2, <3>3, <1>12 DEF PersistStaged, Persist, TypeOK, Object,
         CopyInv, RecordInv, CopyInv, StagingInv, FreshInv, LockInv
  <2>7. StagingInv'
    <3>1. mem[i] \in Record /\ mem[i] # None
      BY <1>12 DEF PersistStaged, TypeOK, StagingInv
    <3>2. [mem[i] EXCEPT !.staged = TRUE] \in Record /\ [mem[i] EXCEPT !.staged = TRUE] # None
      BY <3>1, AtomicFileAssumption DEF Record, Object
    <3>3. /\ [mem[i] EXCEPT !.staged = TRUE].previous = mem[i].previous
          /\ [mem[i] EXCEPT !.staged = TRUE].identity = mem[i].identity
          /\ [mem[i] EXCEPT !.staged = TRUE].staged = TRUE
      BY <3>1 DEF Record
    <3> QED
      BY <3>1, <3>2, <3>3, <1>12 DEF PersistStaged, Persist, TypeOK, Object,
         StagingInv, RecordInv, CopyInv, StagingInv, FreshInv, LockInv
  <2>8. TargetInv'
    BY <1>12 DEF PersistStaged, Persist, TargetInv, StagingInv
  <2>9. VerdictInv'
    BY <1>12 DEF PersistStaged, Persist, TypeOK, Object, Record, VerdictInv
  <2> QED
    BY <2>1, <2>2, <2>3, <2>4, <2>5, <2>6, <2>7, <2>8, <2>9 DEF IInv
<1>13. ASSUME NEW i \in Inv, Commit(i) PROVE IInv'
  <2>1. RecordInv'
    BY <1>13 DEF Commit, RecordInv
  <2>2. TypeOK'
    BY <1>13 DEF Commit, TypeOK, Object, Record
  <2>3. LockInv'
    BY <1>13 DEF Commit, LockInv, FreshInv
  <2>4. FreshInv'
    BY <1>13 DEF Commit, TypeOK, Object, Record, FreshInv
  <2>5. CopyInv'
    BY <1>13 DEF Commit, TypeOK, Object, Record, CopyInv
  <2>6. StagingInv'
    BY <1>13 DEF Commit, TypeOK, Object, Record, StagingInv
  <2>7. TargetInv'
    BY <1>13 DEF Commit, TargetInv, LockInv, FreshInv
  <2>8. VerdictInv'
    BY <1>13 DEF Commit, TypeOK, Object, Record, VerdictInv
  <2>9. MisjudgedInv'
    BY <1>13 DEF Commit, MisjudgedInv, LockInv, FreshInv
  <2>10. ResultsHold'
    BY <1>13 DEF Commit, TypeOK, Object, Record, ResultsHold, ResultIsTrue,
       NothingLeftBehind
  <2> QED
    BY <2>1, <2>2, <2>3, <2>4, <2>5, <2>6, <2>7, <2>8, <2>9, <2>10 DEF IInv
<1>14. ASSUME NEW i \in Inv, Verify(i) PROVE IInv'
  <2>1. RecordInv' /\ TargetInv' /\ MisjudgedInv' /\ ResultsHold'
    BY <1>14 DEF Verify, RecordInv, TargetInv, MisjudgedInv, ResultsHold,
       ResultIsTrue, NothingLeftBehind
  <2>2. TypeOK'
    BY <1>14 DEF Verify, TypeOK, Object, Record
  <2>3. LockInv'
    BY <1>14 DEF Verify, TypeOK, Object, Record, LockInv
  <2>4. FreshInv'
    BY <1>14 DEF Verify, TypeOK, Object, Record, FreshInv
  <2>5. CopyInv'
    BY <1>14 DEF Verify, TypeOK, Object, Record, CopyInv
  <2>6. StagingInv'
    BY <1>14 DEF Verify, TypeOK, Object, Record, StagingInv
  <2>7. VerdictInv'
    BY <1>14 DEF Verify, TypeOK, Object, Record, VerdictInv
  <2> QED
    BY <2>1, <2>2, <2>3, <2>4, <2>5, <2>6, <2>7 DEF IInv
<1>15. ASSUME NEW i \in Inv, Rename(i) PROVE IInv'
  <2>1. MisjudgedInv'
    BY <1>15 DEF Rename, MisjudgedInv
  <2>2. TypeOK'
    BY <1>15 DEF Rename, TypeOK, Object, Record
  <2>3. LockInv'
    BY <1>15 DEF Rename, TypeOK, Object, Record, LockInv
  <2>4. FreshInv'
    BY <1>15 DEF Rename, TypeOK, Object, Record, FreshInv
  <2>5. RecordInv'
    BY <1>15 DEF Rename, RecordInv, StagingInv
  <2>6. CopyInv'
    BY <1>15 DEF Rename, CopyInv, StagingInv
  <2>7. StagingInv'
    BY <1>15 DEF Rename, TypeOK, Object, Record, StagingInv
  <2>8. TargetInv'
    BY <1>15 DEF Rename, TargetInv, LockInv, FreshInv
  <2>9. VerdictInv'
    BY <1>15 DEF Rename, VerdictInv, LockInv
  <2>10. ResultsHold'
    BY <1>15 DEF Rename, ResultsHold, ResultIsTrue, NothingLeftBehind,
       StagingInv
  <2> QED
    BY <2>1, <2>2, <2>3, <2>4, <2>5, <2>6, <2>7, <2>8, <2>9, <2>10 DEF IInv
<1>16. ASSUME NEW i \in Inv, Fail(i) PROVE IInv'
  <2>1. RecordInv' /\ TargetInv' /\ MisjudgedInv' /\ ResultsHold'
    BY <1>16 DEF Fail, RecordInv, TargetInv, MisjudgedInv, ResultsHold,
       ResultIsTrue, NothingLeftBehind
  <2>2. TypeOK'
    BY <1>16 DEF Fail, TypeOK, Object, Record
  <2>3. LockInv'
    BY <1>16 DEF Fail, TypeOK, Object, Record, LockInv
  <2>4. FreshInv'
    BY <1>16 DEF Fail, TypeOK, Object, Record, FreshInv
  <2>5. CopyInv'
    BY <1>16 DEF Fail, CopyInv, StagingInv
  <2>6. StagingInv'
    BY <1>16 DEF Fail, TypeOK, Object, Record, StagingInv
  <2>7. VerdictInv'
    BY <1>16 DEF Fail, TypeOK, Object, Record, VerdictInv
  <2> QED
    BY <2>1, <2>2, <2>3, <2>4, <2>5, <2>6, <2>7 DEF IInv
<1>17. ASSUME NEW i \in Inv, FailEntering(i) PROVE IInv'
  <2>1. RecordInv' /\ TargetInv' /\ MisjudgedInv' /\ ResultsHold'
    BY <1>17 DEF FailEntering, RecordInv, TargetInv, MisjudgedInv, ResultsHold,
       ResultIsTrue, NothingLeftBehind
  <2>2. TypeOK'
    BY <1>17 DEF FailEntering, TypeOK, Object, Record
  <2>3. LockInv'
    BY <1>17 DEF FailEntering, TypeOK, Object, Record, LockInv
  <2>4. FreshInv'
    BY <1>17 DEF FailEntering, TypeOK, Object, Record, FreshInv
  <2>5. CopyInv'
    BY <1>17 DEF FailEntering, TypeOK, Object, Record, CopyInv
  <2>6. StagingInv'
    BY <1>17 DEF FailEntering, TypeOK, Object, Record, StagingInv
  <2>7. VerdictInv'
    BY <1>17 DEF FailEntering, TypeOK, Object, Record, VerdictInv
  <2> QED
    BY <2>1, <2>2, <2>3, <2>4, <2>5, <2>6, <2>7 DEF IInv
<1>18. ASSUME NEW i \in Inv, Decide(i) PROVE IInv'
  <2>1. RecordInv' /\ TargetInv' /\ MisjudgedInv' /\ ResultsHold'
    BY <1>18 DEF Decide, Published, Untouched, RecordInv, TargetInv,
       MisjudgedInv, ResultsHold, ResultIsTrue, NothingLeftBehind
  <2>2. TypeOK'
    BY <1>18 DEF Decide, Published, Untouched, TypeOK, Object, Record
  <2>3. LockInv'
    BY <1>18 DEF Decide, Published, Untouched, TypeOK, Object, Record, LockInv
  <2>4. FreshInv'
    BY <1>18 DEF Decide, Published, Untouched, TypeOK, Object, Record, FreshInv
  <2>5. CopyInv'
    BY <1>18 DEF Decide, Published, Untouched, TypeOK, Object, Record, CopyInv
  <2>6. StagingInv'
    BY <1>18 DEF Decide, Published, Untouched, TypeOK, Object, Record,
       StagingInv
  <2>7. VerdictInv'
    BY <1>18 DEF Decide, Published, Untouched, TypeOK, Object, Record,
       VerdictInv, LockInv, RecordInv, CopyInv, TargetInv
  <2> QED
    BY <2>1, <2>2, <2>3, <2>4, <2>5, <2>6, <2>7 DEF IInv
<1>19. ASSUME NEW i \in Inv, DecideFails(i) PROVE IInv'
  <2>1. RecordInv' /\ TargetInv' /\ MisjudgedInv' /\ ResultsHold'
    BY <1>19 DEF DecideFails, RecordInv, TargetInv, MisjudgedInv, ResultsHold,
       ResultIsTrue, NothingLeftBehind
  <2>2. TypeOK'
    BY <1>19 DEF DecideFails, TypeOK, Object, Record
  <2>3. LockInv'
    BY <1>19 DEF DecideFails, TypeOK, Object, Record, LockInv
  <2>4. FreshInv'
    BY <1>19 DEF DecideFails, TypeOK, Object, Record, FreshInv
  <2>5. CopyInv'
    BY <1>19 DEF DecideFails, TypeOK, Object, Record, CopyInv
  <2>6. StagingInv'
    BY <1>19 DEF DecideFails, TypeOK, Object, Record, StagingInv
  <2>7. VerdictInv'
    BY <1>19 DEF DecideFails, TypeOK, Object, Record, VerdictInv
  <2> QED
    BY <2>1, <2>2, <2>3, <2>4, <2>5, <2>6, <2>7 DEF IInv
<1>20. ASSUME NEW i \in Inv, Cleanup(i) PROVE IInv'
  <2>1. TargetInv' /\ MisjudgedInv'
    BY <1>20 DEF Cleanup, Proven, TargetInv, MisjudgedInv
  <2>2. TypeOK'
    BY <1>20 DEF Cleanup, Proven, TypeOK, Object, Record
  <2>3. LockInv'
    BY <1>20 DEF Cleanup, Proven, TypeOK, Object, Record, LockInv
  <2>4. FreshInv'
    BY <1>20 DEF Cleanup, Proven, TypeOK, Object, Record, FreshInv
  <2>5. RecordInv'
    BY <1>20 DEF Cleanup, Proven, TypeOK, Object, Record, RecordInv
  <2>6. CopyInv'
    BY <1>20 DEF Cleanup, Proven, TypeOK, Object, Record, CopyInv
  <2>7. StagingInv'
    BY <1>20 DEF Cleanup, Proven, StagingInv, LockInv
  <2>8. VerdictInv'
    BY <1>20 DEF Cleanup, Proven, TypeOK, Object, Record, VerdictInv
  <2>9. ResultsHold'
    BY <1>20 DEF Cleanup, Proven, TypeOK, Object, Record, ResultsHold,
       ResultIsTrue, NothingLeftBehind
  <2> QED
    BY <2>1, <2>2, <2>3, <2>4, <2>5, <2>6, <2>7, <2>8, <2>9 DEF IInv
<1>21. ASSUME NEW i \in Inv, CleanupFails(i) PROVE IInv'
  <2>1. RecordInv' /\ TargetInv' /\ MisjudgedInv' /\ ResultsHold'
    BY <1>21 DEF CleanupFails, RecordInv, TargetInv, MisjudgedInv, ResultsHold,
       ResultIsTrue, NothingLeftBehind
  <2>2. TypeOK'
    BY <1>21 DEF CleanupFails, TypeOK, Object, Record
  <2>3. LockInv'
    BY <1>21 DEF CleanupFails, TypeOK, Object, Record, LockInv
  <2>4. FreshInv'
    BY <1>21 DEF CleanupFails, TypeOK, Object, Record, FreshInv
  <2>5. CopyInv'
    BY <1>21 DEF CleanupFails, TypeOK, Object, Record, CopyInv
  <2>6. StagingInv'
    BY <1>21 DEF CleanupFails, TypeOK, Object, Record, StagingInv
  <2>7. VerdictInv'
    BY <1>21 DEF CleanupFails, TypeOK, Object, Record, VerdictInv
  <2> QED
    BY <2>1, <2>2, <2>3, <2>4, <2>5, <2>6, <2>7 DEF IInv
<1>22. ASSUME NEW i \in Inv, Finish(i) PROVE IInv'
  <2>1. RecordInv'
    BY <1>22 DEF Finish, Resolved, RecordInv
  <2>2. TypeOK'
    BY <1>22 DEF Finish, Resolved, TypeOK, Object, Record, VerdictInv
  <2>3. LockInv'
    BY <1>22 DEF Finish, Resolved, TypeOK, Object, Record, LockInv
  <2>4. FreshInv'
    BY <1>22 DEF Finish, Resolved, TypeOK, Object, Record, FreshInv, CopyInv
  <2>5. CopyInv'
    BY <1>22 DEF Finish, Resolved, TypeOK, Object, Record, CopyInv
  <2>6. StagingInv'
    BY <1>22 DEF Finish, Resolved, TypeOK, Object, Record, StagingInv
  <2>7. TargetInv'
    BY <1>22 DEF Finish, Resolved, TypeOK, Object, Record, TargetInv
  <2>8. VerdictInv'
    BY <1>22 DEF Finish, Resolved, TypeOK, Object, Record, VerdictInv
  <2>9. MisjudgedInv'
    BY <1>22 DEF Finish, Resolved, MisjudgedInv, LockInv
  <2>10. ResultsHold'
    BY <1>22 DEF Finish, Resolved, ResultsHold, ResultIsTrue,
       NothingLeftBehind, VerdictInv
  <2> QED
    BY <2>1, <2>2, <2>3, <2>4, <2>5, <2>6, <2>7, <2>8, <2>9, <2>10 DEF IInv
<1>23. ASSUME NEW i \in Inv, Close(i) PROVE IInv'
  <2>1. RecordInv'
    BY <1>23 DEF Close, RecordInv
  <2>2. TypeOK'
    BY <1>23 DEF Close, TypeOK, Object, Record
  <2>3. LockInv'
    BY <1>23 DEF Close, TypeOK, Object, Record, LockInv
  <2>4. FreshInv'
    BY <1>23 DEF Close, FreshInv, LockInv
  <2>5. CopyInv'
    BY <1>23 DEF Close, TypeOK, Object, Record, CopyInv
  <2>6. StagingInv'
    BY <1>23 DEF Close, TypeOK, Object, Record, StagingInv
  <2>7. TargetInv'
    BY <1>23 DEF Close, TargetInv, LockInv
  <2>8. VerdictInv'
    BY <1>23 DEF Close, TypeOK, Object, Record, VerdictInv
  <2>9. MisjudgedInv'
    BY <1>23 DEF Close, MisjudgedInv, LockInv
  <2>10. ResultsHold'
    BY <1>23 DEF Close, TypeOK, Object, Record, ResultsHold, ResultIsTrue,
       NothingLeftBehind
  <2> QED
    BY <2>1, <2>2, <2>3, <2>4, <2>5, <2>6, <2>7, <2>8, <2>9, <2>10 DEF IInv
<1>24. ASSUME NEW i \in Inv, Crash(i) PROVE IInv'
  <2>1. RecordInv' /\ TargetInv' /\ MisjudgedInv' /\ ResultsHold'
    BY <1>24 DEF Crash, RecordInv, TargetInv, MisjudgedInv, ResultsHold,
       ResultIsTrue, NothingLeftBehind
  <2>2. TypeOK'
    BY <1>24 DEF Crash, TypeOK, Object, Record
  <2>3. LockInv'
    BY <1>24 DEF Crash, TypeOK, Object, Record, LockInv
  <2>4. FreshInv'
    BY <1>24 DEF Crash, TypeOK, Object, Record, FreshInv
  <2>5. CopyInv'
    BY <1>24 DEF Crash, TypeOK, Object, Record, CopyInv
  <2>6. StagingInv'
    BY <1>24 DEF Crash, TypeOK, Object, Record, StagingInv
  <2>7. VerdictInv'
    BY <1>24 DEF Crash, TypeOK, Object, Record, VerdictInv
  <2> QED
    BY <2>1, <2>2, <2>3, <2>4, <2>5, <2>6, <2>7 DEF IInv
<1>25. ASSUME Overwrite PROVE IInv'
  <2>1. LockInv' /\ FreshInv' /\ CopyInv' /\ StagingInv' /\ MisjudgedInv'
    BY <1>25 DEF Overwrite, LockInv, FreshInv, CopyInv, StagingInv,
       MisjudgedInv
  <2>2. TypeOK'
    BY <1>25 DEF Overwrite, TypeOK, Object, Record
  <2>3. RecordInv'
    BY <1>25 DEF Overwrite, TypeOK, Object, Record, RecordInv
  <2>4. TargetInv'
    BY <1>25 DEF Overwrite, TypeOK, Object, Record, TargetInv
  <2>5. VerdictInv'
    BY <1>25 DEF Overwrite, TypeOK, Object, Record, VerdictInv
  <2>6. ResultsHold'
    BY <1>25 DEF Overwrite, TypeOK, Object, Record, ResultsHold, ResultIsTrue,
       NothingLeftBehind
  <2> QED
    BY <2>1, <2>2, <2>3, <2>4, <2>5, <2>6 DEF IInv
<1>26. ASSUME NEW i \in Inv, ReplaceStage(i) PROVE IInv'
  <2>1. LockInv' /\ CopyInv' /\ MisjudgedInv'
    BY <1>26 DEF ReplaceStage, LockInv, CopyInv, MisjudgedInv
  <2>2. TypeOK'
    BY <1>26 DEF ReplaceStage, TypeOK, Object, Record
  <2>3. FreshInv'
    BY <1>26 DEF ReplaceStage, TypeOK, Object, Record, FreshInv
  <2>4. RecordInv'
    BY <1>26 DEF ReplaceStage, TypeOK, Object, Record, RecordInv
  <2>5. StagingInv'
    BY <1>26 DEF ReplaceStage, TypeOK, Object, Record, StagingInv
  <2>6. TargetInv'
    BY <1>26 DEF ReplaceStage, TypeOK, Object, Record, TargetInv
  <2>7. VerdictInv'
    BY <1>26 DEF ReplaceStage, VerdictInv, LockInv
  <2>8. ResultsHold'
    BY <1>26 DEF ReplaceStage, TypeOK, Object, Record, ResultsHold,
       ResultIsTrue, NothingLeftBehind
  <2> QED
    BY <2>1, <2>2, <2>3, <2>4, <2>5, <2>6, <2>7, <2>8 DEF IInv
<1>27. CASE UNCHANGED vars
  BY <1>27 DEF vars, IInv, TypeOK, Object, Record, LockInv, FreshInv,
     RecordInv, CopyInv, StagingInv, TargetInv, VerdictInv, MisjudgedInv,
     ResultsHold, ResultIsTrue, NothingLeftBehind
<1> QED
  BY <1>1, <1>2, <1>3, <1>4, <1>5, <1>6, <1>7, <1>8, <1>9, <1>10, <1>11, <1>12,
     <1>13, <1>14, <1>15, <1>16, <1>17, <1>18, <1>19, <1>20, <1>21, <1>22,
     <1>23, <1>24, <1>25, <1>26, <1>27 DEF Next, Step
(* Nothing has happened yet in an initial state.                           *)
LEMMA InitIInv == Init => IInv
<1> SUFFICES ASSUME Init PROVE IInv
  OBVIOUS
<1> USE AtomicFileAssumption DEF Init
<1>1. TypeOK
  BY DEF TypeOK, Object, Record
<1>2. LockInv /\ FreshInv /\ RecordInv
  BY DEF LockInv, FreshInv, RecordInv
<1>3. CopyInv /\ StagingInv /\ TargetInv
  BY DEF CopyInv, StagingInv, TargetInv
<1>4. VerdictInv /\ MisjudgedInv /\ ResultsHold
  BY DEF VerdictInv, MisjudgedInv, ResultsHold, ResultIsTrue, NothingLeftBehind
<1> QED
  BY <1>1, <1>2, <1>3, <1>4 DEF IInv

(* The inductive invariant holds of every behaviour.                       *)
LEMMA AlwaysIInv == Spec => []IInv
  BY InitIInv, StepIInv, PTL DEF Spec

(* An interrupted replacement that nobody disturbed can be resolved.       *)
LEMMA IInvResolves == IInv => InterruptionsResolve
<1> SUFFICES ASSUME TypeOK, LockInv, FreshInv, RecordInv, TargetInv,
                    ~ touched, holder = None, NEW w \in Inv, row[w] \in Open,
                    rec[w] # None => stage[w] # "part" \/ rec[w].identity
             PROVE Resolvable(w)
  BY DEF IInv, InterruptionsResolve
<1>1. CASE rec[w] = None
  BY <1>1 DEF Resolvable
<1>2. CASE rec[w] # None
  <2>1. target = rec[w].previous \/ (target = w /\ rec[w].staged)
    BY <1>2 DEF TargetInv, RecordInv
  <2>2. stage[w] # "none" => rec[w].identity /\ (rec[w].staged => stage[w] = "full")
    BY <1>2 DEF RecordInv, TypeOK
  <2> QED
    BY <2>1, <2>2 DEF Resolvable
<1> QED
  BY <1>1, <1>2

(* Every variable has values of its type, whatever invocations, crashes    *)
(* and other programs do to the destination (core/atomic_file.py).         *)
THEOREM TypeCorrect == Spec => []TypeOK
<1>1. IInv => TypeOK
  BY DEF IInv
<1> QED
  BY <1>1, AlwaysIInv, PTL

(* What is recorded of a replacement is true and nothing of it is left, and*)
(* what was interrupted can be resolved (AtomicFileMutation._resolve, for  *)
(* any number of invocations and crashes).                                 *)
THEOREM ReplacementsCorrect == Spec => []ReplacementsHold
<1>1. IInv => ReplacementsHold
  BY IInvResolves DEF IInv, ReplacementsHold
<1> QED
  BY <1>1, AlwaysIInv, PTL

(* Cleaning up, of an operation of one's own or another's, never removes a *)
(* file that another program put under a staging name (_cleanup).          *)
THEOREM AliensSpared == Spec => SparesAliens
<1>1. IInv /\ [Next]_vars => [\A i \in Inv : stage[i] = "alien" => stage'[i] = "alien"]_stage
  <2> SUFFICES ASSUME TypeOK, StagingInv, [Next]_vars, NEW j \in Inv, stage[j] = "alien"
               PROVE stage'[j] = "alien"
    BY DEF IInv
  <2> USE DEF At, To, disk, journal
  <2>1. ASSUME NEW i \in Inv, CreateStage(i) \/ WriteStage(i) \/ Rename(i)
        PROVE stage'[j] = "alien"
    BY <2>1 DEF CreateStage, WriteStage, Rename, StagingInv, TypeOK
  <2>2. ASSUME NEW i \in Inv, Cleanup(i) PROVE stage'[j] = "alien"
    BY <2>2 DEF Cleanup, Proven, TypeOK
  <2>3. ASSUME NEW i \in Inv, ReplaceStage(i) PROVE stage'[j] = "alien"
    BY <2>3 DEF ReplaceStage, TypeOK
  <2>4. ASSUME UNCHANGED stage PROVE stage'[j] = "alien"
    BY <2>4
  <2>5. ASSUME NEW i \in Inv,
               Find(i) \/ FindNothing(i) \/ Recover(i) \/ RecoverRefused(i) \/ AbortInert(i)
                 \/ Acquire(i) \/ AcquireRefused(i) \/ PersistPrevious(i) \/ PersistIdentity(i)
                 \/ PersistStaged(i) \/ Commit(i) \/ Verify(i)
        PROVE UNCHANGED stage
    BY <2>5 DEF Find, FindNothing, Recover, RecoverRefused, AbortInert,
       Resolved, Acquire,
       AcquireRefused, PersistPrevious, PersistIdentity, PersistStaged, Persist, Commit, Verify
  <2>6. ASSUME NEW i \in Inv,
               Fail(i) \/ FailEntering(i) \/ Decide(i) \/ DecideFails(i)
                 \/ CleanupFails(i) \/ Finish(i) \/ Close(i) \/ Crash(i)
        PROVE UNCHANGED stage
    BY <2>6 DEF Fail, FailEntering, Decide, DecideFails, CleanupFails, Finish,
       Resolved, Close, Crash
  <2> QED
    BY <2>1, <2>2, <2>3, <2>4, <2>5, <2>6 DEF Next, Step, Overwrite, vars
<1> QED
  BY <1>1, AlwaysIInv, PTL DEF Spec, SparesAliens

-------------------------------------------------------------------------------
(* The steps of AtomicReplace.                                             *)
phases == [i \in Inv |-> Phase(i)]
AbstractStep == [Replace!Next]_(Replace!replaceVars)

(* A step that leaves the phases, the destination and the bases alone is   *)
(* none of AtomicReplace.                                                  *)
LEMMA Stutters ==
  ASSUME \A j \in Inv : Phase(j)' = Phase(j), UNCHANGED <<target, seen, touched>>
  PROVE  AbstractStep
<1>1. phases' = phases
  BY DEF phases
<1> QED
  BY <1>1 DEF AbstractStep, Replace!replaceVars, phases

(* A step that changes one phase.                                          *)
LEMMA OnePhase ==
  ASSUME NEW w \in Inv, NEW p, Phase(w)' = p, \A j \in Inv \ {w} : Phase(j)' = Phase(j)
  PROVE  phases' = [phases EXCEPT ![w] = p]
  BY DEF phases

(* A step that ends an open operation is a report of it, or none.          *)
LEMMA ReportStep ==
  ASSUME TypeOK, TypeOK', RecordInv, MisjudgedInv,
         NEW w \in Inv, row[w] \in Open, NEW result \in Ended,
         row' = [row EXCEPT ![w] = result],
         misjudged' \subseteq misjudged \cup {w}, misjudged \subseteq misjudged',
         w \in misjudged' => result = "ABORTED",
         result = "COMMITTED" => w \in installed,
         result = "ABORTED" /\ w \notin misjudged' /\ ~ touched => w \notin installed,
         UNCHANGED <<target, seen, installed, touched>>
  PROVE  AbstractStep
<1>1. w \notin misjudged
  BY DEF MisjudgedInv
<1>2. \A j \in Inv \ {w} : Phase(j)' = Phase(j)
  BY DEF Phase, TypeOK
<1>3. Phase(w) = (IF w \in installed THEN "installed" ELSE "open") /\ phases[w] = Phase(w)
  BY DEF Phase, phases
<1>4. CASE result = "COMMITTED"
  <2>1. Phase(w)' = "committed"
    BY <1>4 DEF Phase, TypeOK
  <2>2. phases' = [phases EXCEPT ![w] = "committed"]
    BY <1>2, <2>1, OnePhase
  <2> QED
    BY <1>3, <1>4, <2>2 DEF AbstractStep, Replace!Next, Replace!Report, phases
<1>5. CASE result = "ABORTED" /\ w \notin misjudged'
  <2>1. Phase(w)' = "aborted"
    BY <1>5 DEF Phase, TypeOK
  <2>2. phases' = [phases EXCEPT ![w] = "aborted"]
    BY <1>2, <2>1, OnePhase
  <2> QED
    BY <1>3, <1>5, <2>2 DEF AbstractStep, Replace!Next, Replace!Report,
       Replace!ReportDisturbed, phases
<1>6. CASE result = "ABORTED" /\ w \in misjudged'
  <2>1. Phase(w)' = Phase(w)
    BY <1>1, <1>3, <1>6 DEF Phase, TypeOK
  <2> QED
    BY <1>2, <2>1, Stutters
<1> QED
  BY <1>4, <1>5, <1>6

(* Every step is one of AtomicReplace, or none.                            *)
LEMMA StepImplements == IInv /\ IInv' /\ [Next]_vars => AbstractStep
<1> SUFFICES ASSUME TypeOK, TypeOK', LockInv, FreshInv, RecordInv, StagingInv, TargetInv,
                    VerdictInv, MisjudgedInv, [Next]_vars
             PROVE AbstractStep
  BY DEF IInv
<1> USE DEF To, At, disk, journal
<1>1. ASSUME NEW i \in Inv, Acquire(i) PROVE AbstractStep
  <2>1. row[i] = "absent" /\ i \notin installed
    BY <1>1 DEF Acquire, FreshInv, RecordInv
  <2>2. Phase(i) = "idle" /\ Phase(i)' = "open"
    BY <1>1, <2>1 DEF Acquire, Phase, TypeOK
  <2>3. \A j \in Inv \ {i} : Phase(j)' = Phase(j)
    BY <1>1 DEF Acquire, Phase, TypeOK
  <2>4. phases' = [phases EXCEPT ![i] = "open"]
    BY <2>2, <2>3, OnePhase
  <2>5. phases[i] = "idle"
    BY <2>2 DEF phases
  <2> QED
    BY <1>1, <2>4, <2>5 DEF Acquire, AbstractStep, Replace!Next, Replace!Open,
       phases
<1>2. ASSUME NEW i \in Inv, Rename(i) PROVE AbstractStep
  <2>1. row[i] \in Open /\ i \notin installed
    BY <1>2 DEF Rename, LockInv, FreshInv, StagingInv
  <2>2. Phase(i) = "open" /\ Phase(i)' = "installed"
    BY <1>2, <2>1 DEF Rename, Phase, TypeOK
  <2>3. \A j \in Inv \ {i} : Phase(j)' = Phase(j)
    BY <1>2 DEF Rename, Phase, TypeOK
  <2>4. phases' = [phases EXCEPT ![i] = "installed"]
    BY <2>2, <2>3, OnePhase
  <2>5. phases[i] = "open"
    BY <2>2 DEF phases
  <2>6. target = seen[i] \/ touched
    BY <2>1 DEF TargetInv
  <2> QED
    BY <1>2, <2>4, <2>5, <2>6 DEF Rename, AbstractStep, Replace!Next,
       Replace!Install, phases
<1>3. ASSUME NEW i \in Inv, Finish(i) PROVE AbstractStep
  <2>1. row[work[i]] \in Open /\ work[i] \in Inv
    BY <1>3 DEF Finish, LockInv, TypeOK
  <2>2. verdict[i] \in Ended
    BY <1>3 DEF Finish, VerdictInv
  <2> QED
    BY <1>3, <2>1, <2>2, ReportStep DEF Finish, Resolved, VerdictInv,
       MisjudgedInv
<1>4. ASSUME NEW i \in Inv, AbortInert(i) PROVE AbstractStep
  <2>1. row[work[i]] \in Open /\ work[i] \in Inv
    BY <1>4 DEF AbortInert, LockInv, TypeOK
  <2>2. work[i] \notin misjudged' => work[i] \notin installed
    BY <1>4, <2>1 DEF AbortInert, RecordInv
  <2> QED
    BY <1>4, <2>1, <2>2, ReportStep DEF AbortInert, Resolved, MisjudgedInv
<1>5. ASSUME NEW i \in Inv, Recover(i) \/ Commit(i) \/ Close(i) PROVE AbstractStep
  <2>1. work[i] \in Inv /\ row[work[i]] \in Open
    BY <1>5 DEF Recover, Commit, Close, LockInv, TypeOK
  <2>2. Commit(i) => work[i] = i
    BY DEF Commit, FreshInv
  <2>3. \A j \in Inv : Phase(j)' = Phase(j)
    BY <1>5, <2>1, <2>2 DEF Recover, Commit, Close, Phase, TypeOK
  <2> QED
    BY <1>5, <2>3, Stutters DEF Recover, Commit, Close
<1>6. CASE Overwrite
  <2>1. phases' = phases
    BY <1>6 DEF Overwrite, Phase, phases
  <2> QED
    BY <1>6, <2>1 DEF Overwrite, AbstractStep, Replace!Next, Replace!Interfere,
       phases
<1>7. ASSUME NEW i \in Inv, ReplaceStage(i) PROVE AbstractStep
  <2>1. phases' = phases
    BY <1>7 DEF ReplaceStage, Phase, phases
  <2> QED
    BY <1>7, <2>1 DEF ReplaceStage, AbstractStep, Replace!Next,
       Replace!Interfere, phases
<1>8. ASSUME UNCHANGED <<target, seen, touched, row, installed, misjudged>>
      PROVE AbstractStep
  <2>1. \A j \in Inv : Phase(j)' = Phase(j)
    BY <1>8 DEF Phase
  <2> QED
    BY <1>8, <2>1, Stutters
<1>9. ASSUME NEW i \in Inv,
             Find(i) \/ FindNothing(i) \/ RecoverRefused(i) \/ AcquireRefused(i)
               \/ PersistPrevious(i) \/ CreateStage(i) \/ PersistIdentity(i)
               \/ WriteStage(i) \/ PersistStaged(i) \/ Verify(i)
      PROVE AbstractStep
  BY <1>8, <1>9 DEF Find, FindNothing, RecoverRefused, AcquireRefused,
     PersistPrevious,
     CreateStage, PersistIdentity, WriteStage, PersistStaged, Persist, Verify
<1>10. ASSUME NEW i \in Inv,
              Fail(i) \/ FailEntering(i) \/ Decide(i) \/ DecideFails(i) \/ Cleanup(i)
                \/ CleanupFails(i) \/ Crash(i)
       PROVE AbstractStep
  BY <1>8, <1>10 DEF Fail, FailEntering, Decide, DecideFails, Cleanup,
     CleanupFails, Crash
<1>11. CASE UNCHANGED vars
  BY <1>8, <1>11 DEF vars
<1> QED
  BY <1>1, <1>2, <1>3, <1>4, <1>5, <1>6, <1>7, <1>9, <1>10, <1>11 DEF Next,
     Step

(* The journaled replacement does what AtomicReplace promises: a content   *)
(* appears whole, in place of the file it was authorised for, and the      *)
(* result tells whether it did.                                            *)
THEOREM Implements == Spec => ReplaceSpec
<1>1. Init => Replace!Init
  BY DEF Init, Replace!Init, Phase
<1>2. IInv /\ IInv' /\ [Next]_vars => [Replace!Next]_(Replace!replaceVars)
  BY StepImplements DEF AbstractStep
<1> QED
  BY <1>1, <1>2, AlwaysIInv, PTL DEF Spec, ReplaceSpec, Replace!Spec
===============================================================================
