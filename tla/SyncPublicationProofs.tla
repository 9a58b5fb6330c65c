------------------------- MODULE SyncPublicationProofs -------------------------
(***************************************************************************)
(* GenerationsAreWhole, ReportsHold and RecoveryIsPossible, for any number *)
(* of invocations, any release names and any size of a generation.  An     *)
(* invocation that recovers read its copy of the record before it had the  *)
(* lock, so nothing is known of the copy but that it was a record once     *)
(* (MemInv); what is known of the directory has to follow from the durable *)
(* record (RecInv), the control state of the owner while it is alive       *)
(* (OwnerInv), and the order in which finish looks at both (MarkInv).      *)
(***************************************************************************)
EXTENDS SyncPublication, TLAPS

Resolving == {"finish", "cleanup", "marking", "closing"}
Locked == Working \ {"found", "ready"}
Early == {"new", "found", "ready", "acquired", "prepared", "committing", "renamed",
          "finalizing", "unlinked", "rescue"} \cup Staging

(* The lock is that of the invocation that works under it, on an operation *)
(* that has no result; there is one such operation at most.                *)
LockInv ==
  /\ \A i \in Inv : pc[i] \in Locked <=> holder = i
  /\ \A i \in Inv : pc[i] \in Locked => row[work[i]] \in Open
  /\ \A v, w \in Inv : row[v] \in Open /\ row[w] \in Open => v = w

(* An invocation recovers before its own operation begins.                 *)
WorkInv ==
  \A i \in Inv :
    /\ work[i] # i => pc[i] \in {"found"} \cup Resolving
    /\ work[i] # i \/ pc[i] \in {"new", "found", "ready"} => row[i] = "absent"
    /\ row[i] = "absent" => rec[i] = None
    /\ pc[i] \in {"new", "ready"} => mem[i] = None

(* Until its own operation can have failed, it has told its user nothing.  *)
ToldInv ==
  \A i \in Inv :
    pc[i] \in Early \/ (work[i] # i /\ pc[i] # "closing") => told[i] = "nothing"

(* A record that has been read says of no member that it is sealed before  *)
(* it is tracked.                                                          *)
MemInv ==
  \A i \in Inv : /\ mem[i] # None => mem[i].sealed <= mem[i].tracked
                 /\ rec[i] # None => rec[i].sealed <= rec[i].tracked

(* A directory whose record grows, ...                                     *)
Written(d, r) ==
  /\ d.at = "none" => ~ r.identity
  /\ ~ r.identity => d.at # "final" /\ d.files = 0 /\ ~ d.torn
                     /\ r.tracked = 0 /\ r.sealed = 0 /\ ~ r.complete
  /\ r.identity => r.tracked <= d.files /\ d.files <= r.sealed + 1
                   /\ (d.torn => r.sealed < d.files)
  /\ d.at = "final" => r.complete
  /\ r.complete => r.sealed = Members /\ d.files = Members /\ ~ d.torn

(* ... and one that is being removed.                                      *)
Removed(d, r) ==
  /\ r.identity /\ d.at # "final"
  /\ d.files <= r.tracked /\ (d.torn => r.sealed < r.tracked)

Empty(d) == d.at = "none" /\ d.files = 0 /\ ~ d.torn

RecAt(w) ==
  /\ rec[w] = None => Empty(dir[w])
  /\ rec[w] # None => IF rec[w].cleanup THEN Removed(dir[w], rec[w])
                      ELSE Written(dir[w], rec[w])

RecInv == \A w \in Inv : RecAt(w)

(* What the owner of an operation has done by its control state.           *)
OwnerAt(i, d, r) ==
  /\ pc[i] = "acquired" => r = None
  /\ pc[i] \in Staging \cup {"prepared", "committing", "renamed", "finalizing", "unlinked",
                            "rescue"} => r # None /\ ~ r.cleanup
  /\ pc[i] \in {"planned", "made"} => ~ r.identity
  /\ pc[i] = "planned" => d.at = "none"
  /\ pc[i] \in {"made", "writing", "opened", "tracked", "filled", "prepared", "committing"}
     => d.at = "stage"
  /\ pc[i] \in {"writing", "opened", "tracked", "filled"} => r.identity /\ ~ r.complete
  /\ pc[i] = "writing" => d.files = r.sealed /\ r.tracked = r.sealed /\ ~ d.torn
  /\ pc[i] = "opened" => d.files = r.sealed + 1 /\ r.tracked = r.sealed
  /\ pc[i] \in {"tracked", "filled"} => d.files = r.sealed + 1 /\ r.tracked = d.files
  /\ pc[i] = "filled" => ~ d.torn
  /\ pc[i] \in {"prepared", "committing", "renamed", "finalizing", "unlinked", "rescue"}
     => r.identity /\ r.complete
  /\ pc[i] \in {"renamed", "finalizing", "unlinked"} => d.at = "final"
  /\ pc[i] = "unlinked" => ~ d.marker
  /\ pc[i] = "rescue" => d.at # "none"
  /\ pc[i] = "failing" /\ r = None => d.at = "none"

OwnerInv ==
  \A i \in Inv : pc[i] \in Locked /\ work[i] = i =>
    mem[i] = rec[i] /\ OwnerAt(i, dir[i], rec[i])

(* What finish has established of the operation it works on.               *)
MarkAt(i, d, r, inert) ==
  /\ pc[i] = "cleanup" => d.at = "stage" /\ r # None /\ r.cleanup
  /\ pc[i] = "marking" => /\ d.at = "final" => ~ d.marker /\ ~ d.alien
                          /\ d.at = "stage" => inert

MarkInv == \A i \in Inv : MarkAt(i, dir[work[i]], rec[work[i]], work[i] \in misjudged)

(* The results that are recorded, and what was told.                       *)
ResultAt(w) ==
  /\ row[w] = "COMMITTED" => dir[w].at = "final" /\ ~ dir[w].marker /\ ~ dir[w].alien
  /\ row[w] = "ABORTED" /\ w \notin misjudged => dir[w].at = "none"
  /\ told[w] = "failed" => dir[w].at # "final"
  /\ told[w] = "committed" => dir[w].at = "final" /\ ~ dir[w].marker

ResultInv == \A w \in Inv : ResultAt(w)

AlienInv == ~ meddled => \A w \in Inv : ~ dir[w].alien

SyncInv ==
  /\ TypeOK /\ LockInv /\ WorkInv /\ ToldInv /\ MemInv /\ RecInv
  /\ OwnerInv /\ MarkInv /\ ResultInv /\ AlienInv

-------------------------------------------------------------------------------
Directory == [at : {"none", "stage", "final"}, files : 0..Members,
              torn : BOOLEAN, marker : BOOLEAN, alien : BOOLEAN]

(* The directories that steps write which change two things at once.       *)
LEMMA Grown ==
  ASSUME NEW d \in Directory, NEW n \in 0..Members, NEW t \in BOOLEAN
  PROVE  LET e == [d EXCEPT !.files = n, !.torn = t]
         IN  /\ e \in Directory /\ e.files = n /\ e.torn = t
             /\ e.at = d.at /\ e.marker = d.marker /\ e.alien = d.alien
BY DEF Directory

(* A directory that is moved or marked.                                    *)
LEMMA Made ==
  ASSUME NEW d \in Directory, NEW a \in {"none", "stage", "final"}, NEW m \in BOOLEAN
  PROVE  LET e == [d EXCEPT !.at = a, !.marker = m]
         IN  /\ e \in Directory /\ e.at = a /\ e.marker = m
             /\ e.files = d.files /\ e.torn = d.torn /\ e.alien = d.alien
BY DEF Directory

Card == [identity : BOOLEAN, tracked : 0..Members, sealed : 0..Members,
         complete : BOOLEAN, cleanup : BOOLEAN]

(* The records proper, and None, which is none of them.                    *)
LEMMA RecordsAre ==
  ASSUME SyncAssumption
  PROVE  Records = Card \cup {None} /\ None \notin Card
<1>1. Card \subseteq Blank
  BY DEF Card, Blank
<1> QED
  BY <1>1 DEF SyncAssumption, Records, Card

(* A step of the invocation that has the lock changes nothing but what is  *)
(* its own and what belongs to the operation w that it works on.           *)
Outcome == {"nothing", "conflict", "failed", "incomplete", "unknown", "committed", "recovered"}
State == {"absent", "COMMITTED", "ABORTED"} \cup Open

Frame(i, w) ==
  /\ UNCHANGED <<away, meddled, holder, work>>
  /\ dir' \in [Inv -> Directory] /\ rec' \in [Inv -> Records] /\ mem' \in [Inv -> Records]
  /\ told' \in [Inv -> Outcome] /\ row' \in [Inv -> State]
  /\ \A v \in Inv : v # w => dir'[v] = dir[v] /\ rec'[v] = rec[v] /\ row'[v] = row[v]
  /\ \A j \in Inv : j # i => mem'[j] = mem[j] /\ told'[j] = told[j]
  /\ row'[w] \in Open
  /\ misjudged \subseteq misjudged' /\ misjudged' \subseteq misjudged \cup {w}

Sealed(r) == r # None => r.sealed <= r.tracked

(* Such a step keeps the invariant if it keeps what the invariant says of  *)
(* the two.                                                                *)
LEMMA LockedStep ==
  ASSUME SyncAssumption, SyncInv, NEW i \in Inv, NEW w \in Inv, w = work[i],
         pc[i] \in Locked, NEW next \in Locked, To(i, next), Frame(i, w),
         w # i => next \in Resolving,
         next \in Early \/ (w # i /\ next # "closing") => told'[i] = "nothing",
         Sealed(mem'[i]), Sealed(rec'[w]), dir'[w].alien => dir[w].alien,
         RecAt(w)', ResultAt(w)', ResultAt(i)',
         MarkAt(i, dir[w], rec[w], w \in misjudged)',
         w = i => mem'[i] = rec'[i] /\ OwnerAt(i, dir[i], rec[i])'
  PROVE  SyncInv'
<1> USE SyncAssumption DEF SyncInv, SyncAssumption
<1>1. /\ holder = i /\ \A j \in Inv : pc[j] \in Locked => j = i
      /\ \A j \in Inv : j # i => pc'[j] = pc[j]
      /\ pc'[i] = next /\ pc' \in [Inv -> {"new", "done"} \cup Working]
      /\ row[w] \in Open
  BY DEF LockInv, TypeOK, To, Locked
<1>2. TypeOK'
  BY <1>1 DEF TypeOK, Frame, Directory, Outcome
<1>3. LockInv'
  BY <1>1 DEF LockInv, Frame
<1>4. WorkInv'
  <2>1. row'[w] # "absent" /\ row[w] # "absent" /\ next \notin {"new", "found", "ready"}
    BY <1>1 DEF Frame, Open, Locked, Working, Staging
  <2>2. \A v \in Inv : row'[v] = "absent" => row[v] = "absent" /\ rec'[v] = rec[v]
    BY <2>1 DEF Frame
  <2>3. \A v \in Inv : row[v] = "absent" => row'[v] = "absent"
    BY <2>1 DEF Frame
  <2> QED
    BY <1>1, <2>1, <2>2, <2>3 DEF WorkInv, Frame
<1>5. ToldInv'
  BY <1>1 DEF ToldInv, Frame
<1>6. MemInv'
  BY DEF MemInv, Frame, Sealed
<1>7. RecInv' /\ AlienInv'
  BY DEF RecInv, RecAt, AlienInv, Frame
<1>8. OwnerInv'
  BY <1>1 DEF OwnerInv, Frame
<1>9. MarkInv'
  <2>1. \A j \in Inv : j # i => pc'[j] \notin {"cleanup", "marking"}
    BY <1>1 DEF Locked
  <2> QED
    BY <2>1 DEF MarkInv, MarkAt, Frame
<1>10. ResultInv'
  <2>1. ASSUME NEW v \in Inv, v # w, v # i PROVE ResultAt(v)'
    BY <2>1 DEF ResultInv, ResultAt, Frame
  <2> QED
    BY <2>1 DEF ResultInv
<1> QED
  BY <1>2, <1>3, <1>4, <1>5, <1>6, <1>7, <1>8, <1>9, <1>10

(* What a step of that kind may change: what was told, ...                 *)
Says(i) == told' \in [Inv -> Outcome] /\ \A j \in Inv : j # i => told'[j] = told[j]

(* What an invocation tells its caller it tells once.                      *)
LEMMA TellSays ==
  ASSUME TypeOK, NEW i \in Inv, NEW what \in Outcome, Tell(i, what)
  PROVE  Says(i) /\ told'[i] = IF told[i] = "nothing" THEN what ELSE told[i]
BY DEF TypeOK, Tell, Says, Outcome

(* ... the directory of the operation, ...                                 *)
LEMMA ChangeFrames ==
  ASSUME TypeOK, NEW i \in Inv, row[work[i]] \in Open, NEW d \in Directory,
         Change(i, d), UNCHANGED told \/ Says(i)
  PROVE  Frame(i, work[i]) /\ dir'[work[i]] = d /\ UNCHANGED <<row, rec, mem, misjudged>>
BY DEF TypeOK, Change, Says, Frame, Directory, Outcome, State, journal, local

(* ... its record, ...                                                     *)
LEMMA PersistFrames ==
  ASSUME SyncAssumption, TypeOK, NEW i \in Inv, row[work[i]] \in Open, NEW r \in Card,
         Persist(i, r)
  PROVE  /\ Frame(i, work[i]) /\ rec'[work[i]] = r /\ mem'[i] = r
         /\ UNCHANGED <<dir, row, told, misjudged>>
BY RecordsAre DEF TypeOK, Persist, Frame, Directory, Outcome, State, disk

(* ... or nothing of that.                                                 *)
LEMMA QuietFrames ==
  ASSUME TypeOK, NEW i \in Inv, row[work[i]] \in Open,
         UNCHANGED <<disk, journal, holder, local, misjudged>>, UNCHANGED told \/ Says(i)
  PROVE  Frame(i, work[i]) /\ UNCHANGED <<dir, row, rec, mem, misjudged>>
BY DEF TypeOK, Says, Frame, Directory, Outcome, State, disk, journal, local

(* What an invocation knows that works on its own operation ...            *)
Owner(i) ==
  /\ work[i] = i /\ mem[i] = rec[i] /\ row[i] \in Open
  /\ OwnerAt(i, dir[i], rec[i]) /\ RecAt(i) /\ ResultAt(i) /\ Sealed(rec[i])
  /\ dir[i] \in Directory /\ (rec[i] # None => rec[i] \in Card)
  /\ pc[i] # "failing" => told[i] = "nothing"

(* The invariant says so of whoever works on its own operation.            *)
LEMMA OwnerKnows ==
  ASSUME SyncAssumption, SyncInv, NEW i \in Inv, pc[i] \in Locked \ Resolving
  PROVE  Owner(i)
<1> USE DEF SyncInv
<1>1. row[work[i]] \in Open
  BY DEF LockInv
<1>2. work[i] = i /\ (pc[i] # "failing" => pc[i] \in Early)
  BY DEF WorkInv, Locked, Working, Resolving, Early
<1>3. mem[i] = rec[i] /\ OwnerAt(i, dir[i], rec[i]) /\ RecAt(i) /\ ResultAt(i)
  BY <1>2 DEF OwnerInv, RecInv, ResultInv
<1>4. Sealed(rec[i]) /\ (pc[i] # "failing" => told[i] = "nothing")
  BY <1>2 DEF MemInv, Sealed, ToldInv
<1> QED
  BY <1>1, <1>2, <1>3, <1>4, RecordsAre DEF TypeOK, Owner, Directory

(* ... and one that resolves an operation, its own or another's.           *)
Resolver(i, w) ==
  /\ w \in Inv /\ row[w] \in Open /\ RecAt(w) /\ ResultAt(w) /\ ResultAt(i)
  /\ MarkAt(i, dir[w], rec[w], w \in misjudged)
  /\ Sealed(rec[w]) /\ Sealed(mem[i])
  /\ dir[w] \in Directory /\ (rec[w] # None => rec[w] \in Card)
  /\ mem[i] # None => mem[i] \in Card
  /\ w # i /\ pc[i] # "closing" => told[i] = "nothing"
  /\ w = i => mem[i] = rec[i]

(* The invariant says so of whoever resolves one.                          *)
LEMMA ResolverKnows ==
  ASSUME SyncAssumption, SyncInv, NEW i \in Inv, pc[i] \in Resolving
  PROVE  Resolver(i, work[i]) /\ pc[i] \in Locked
<1> USE DEF SyncInv
<1>1. pc[i] \in Locked /\ work[i] \in Inv
  BY DEF Resolving, Locked, TypeOK
<1>2. row[work[i]] \in Open
  BY <1>1 DEF LockInv
<1>3. /\ RecAt(work[i]) /\ ResultAt(work[i]) /\ ResultAt(i)
      /\ MarkAt(i, dir[work[i]], rec[work[i]], work[i] \in misjudged)
      /\ Sealed(rec[work[i]]) /\ Sealed(mem[i])
      /\ work[i] # i /\ pc[i] # "closing" => told[i] = "nothing"
      /\ work[i] = i => mem[i] = rec[i]
  BY <1>1 DEF RecInv, ResultInv, MarkInv, MemInv, Sealed, ToldInv, OwnerInv
<1> QED
  BY <1>1, <1>2, <1>3, RecordsAre DEF TypeOK, Resolver, Directory

-------------------------------------------------------------------------------
(* The steps of an invocation that publishes keep the invariant.           *)
LEMMA OwnerSteps ==
  ASSUME SyncAssumption, SyncInv, NEW i \in Inv,
         \/ Plan(i) \/ MakeStage(i) \/ TrackStaging(i) \/ OpenMember(i)
         \/ TrackMember(i) \/ FillMember(i) \/ FinishMember(i) \/ Prepare(i)
         \/ Committing(i) \/ Rename(i) \/ RootIsSelected(i) \/ RenameBack(i)
         \/ UnlinkMarker(i) \/ MarkCommitted(i) \/ Fail(i)
         \/ FailPublishing(i) \/ RescueCommitted(i) \/ RescueRollback(i)
         \/ RescueRemovesMarker(i) \/ RescueGivesUp(i) \/ Handle(i)
  PROVE  SyncInv'
<1> USE SyncAssumption DEF SyncAssumption
<1>a. TypeOK /\ None \in Records
  BY DEF SyncInv, Records
<1> USE <1>a
<1>1. CASE Plan(i)
  <2>1. Owner(i) /\ pc[i] = "acquired" /\ To(i, "planned") /\ pc'[i] = "planned"
    BY <1>1, OwnerKnows DEF Plan, At, To, TypeOK, Locked, Resolving
  <2> DEFINE r == Fresh
  <2>2. /\ r \in Card
        /\ r = Fresh /\ r.tracked = 0 /\ r.sealed = 0
        /\ ~ r.identity /\ ~ r.complete /\ ~ r.cleanup
    BY <1>1, <2>1 DEF Card, Fresh
  <2>3. /\ Frame(i, i) /\ rec'[i] = r /\ mem'[i] = r
        /\ UNCHANGED <<dir, row, told, misjudged>>
    BY <1>1, <2>1, <2>2, PersistFrames DEF Plan, Owner
  <2>4. r # None
    BY <2>2, RecordsAre
  <2> HIDE DEF r
  <2>5. RecAt(i)'
    BY <1>1, <2>1, <2>2, <2>3, <2>4 DEF Owner, OwnerAt, RecAt, Written, Empty
  <2>6. ResultAt(i)'
    BY <1>1, <2>1, <2>2, <2>3, <2>4 DEF Owner, ResultAt
  <2>7. /\ mem'[i] = rec'[i] /\ OwnerAt(i, dir[i], rec[i])'
        /\ MarkAt(i, dir[i], rec[i], i \in misjudged)'
    BY <1>1, <2>1, <2>2, <2>3, <2>4 DEF Owner, OwnerAt, RecAt, MarkAt, Empty
  <2>8. /\ Sealed(mem'[i]) /\ Sealed(rec'[i]) /\ (dir'[i].alien => dir[i].alien)
        /\ told'[i] = "nothing" \/ "planned" \notin Early
    BY <1>1, <2>1, <2>2, <2>3, <2>4 DEF Owner, Sealed
  <2> QED
    BY <2>1, <2>2, <2>3, <2>4, <2>5, <2>6, <2>7, <2>8, LockedStep DEF Owner,
       Staging, Working, Locked
<1>2. CASE MakeStage(i)
  <2>1. Owner(i) /\ pc[i] = "planned" /\ To(i, "made") /\ pc'[i] = "made"
    BY <1>2, OwnerKnows DEF MakeStage, At, To, TypeOK, Locked, Resolving
  <2> DEFINE d == [NoDir EXCEPT !.at = "stage", !.marker = TRUE]
  <2>2. /\ d \in Directory
        /\ d.at = "stage" /\ d.files = 0 /\ ~ d.torn /\ ~ d.alien
    <3>1. /\ NoDir \in Directory
          /\ NoDir.files = 0 /\ NoDir.torn = FALSE /\ NoDir.alien = FALSE
      BY DEF NoDir, Directory
    <3> QED
      BY <3>1, Made
  <2>3. /\ Frame(i, i) /\ dir'[i] = d
        /\ UNCHANGED <<row, rec, mem, misjudged, told>>
    BY <1>2, <2>1, <2>2, ChangeFrames DEF MakeStage, Owner
  <2> HIDE DEF d
  <2>4. RecAt(i)'
    BY <1>2, <2>1, <2>2, <2>3 DEF Owner, OwnerAt, RecAt, Staging, Written
  <2>5. ResultAt(i)'
    BY <1>2, <2>1, <2>2, <2>3 DEF Owner, ResultAt, Open
  <2>6. /\ mem'[i] = rec'[i] /\ OwnerAt(i, dir[i], rec[i])'
        /\ MarkAt(i, dir[i], rec[i], i \in misjudged)'
    BY <1>2, <2>1, <2>2, <2>3 DEF Staging, Owner, OwnerAt, MarkAt
  <2>7. /\ Sealed(mem'[i]) /\ Sealed(rec'[i]) /\ (dir'[i].alien => dir[i].alien)
        /\ told'[i] = "nothing" \/ "made" \notin Early
    BY <1>2, <2>1, <2>2, <2>3 DEF Owner
  <2> QED
    BY <2>1, <2>2, <2>3, <2>4, <2>5, <2>6, <2>7, LockedStep DEF Owner, Staging,
       Working, Locked
<1>3. CASE TrackStaging(i)
  <2>1. Owner(i) /\ pc[i] = "made" /\ To(i, "writing") /\ pc'[i] = "writing"
    BY <1>3, OwnerKnows DEF TrackStaging, At, To, TypeOK, Locked, Resolving
  <2> DEFINE r == [mem[i] EXCEPT !.identity = TRUE]
  <2>2. /\ r \in Card
        /\ r.tracked = mem[i].tracked /\ r.sealed = mem[i].sealed
        /\ r.complete = mem[i].complete /\ r.cleanup = mem[i].cleanup /\ r.identity
    BY <1>3, <2>1 DEF Owner, OwnerAt, Staging, Card
  <2>3. /\ Frame(i, i) /\ rec'[i] = r /\ mem'[i] = r
        /\ UNCHANGED <<dir, row, told, misjudged>>
    BY <1>3, <2>1, <2>2, PersistFrames DEF TrackStaging, Owner
  <2>4. r # None
    BY <2>2, RecordsAre
  <2> HIDE DEF r
  <2>5. RecAt(i)'
    BY <1>3, <2>1, <2>2, <2>3, <2>4 DEF Owner, OwnerAt, RecAt, Written,
       Removed, Empty
  <2>6. ResultAt(i)'
    BY <1>3, <2>1, <2>2, <2>3, <2>4 DEF Owner, ResultAt
  <2>7. /\ mem'[i] = rec'[i] /\ OwnerAt(i, dir[i], rec[i])'
        /\ MarkAt(i, dir[i], rec[i], i \in misjudged)'
    BY <1>3, <2>1, <2>2, <2>3, <2>4 DEF Owner, OwnerAt, RecAt, MarkAt, Written,
       Removed, Empty
  <2>8. /\ Sealed(mem'[i]) /\ Sealed(rec'[i]) /\ (dir'[i].alien => dir[i].alien)
        /\ told'[i] = "nothing" \/ "writing" \notin Early
    BY <1>3, <2>1, <2>2, <2>3, <2>4 DEF Owner, OwnerAt, RecAt, Sealed, Empty
  <2> QED
    BY <2>1, <2>2, <2>3, <2>4, <2>5, <2>6, <2>7, <2>8, LockedStep DEF Owner,
       Staging, Working, Locked
<1>4. CASE OpenMember(i)
  <2>1. Owner(i) /\ pc[i] = "writing" /\ To(i, "opened") /\ pc'[i] = "opened"
    BY <1>4, OwnerKnows DEF OpenMember, At, To, TypeOK, Locked, Resolving
  <2> DEFINE d == [dir[i] EXCEPT !.files = @ + 1, !.torn = TRUE]
  <2>2. /\ d \in Directory
        /\ d.at = dir[i].at /\ d.marker = dir[i].marker /\ d.alien = dir[i].alien
        /\ d.files = dir[i].files + 1 /\ d.torn
    <3>1. dir[i].files + 1 \in 0..Members
      BY <1>4, <2>1 DEF OpenMember, Owner, Directory
    <3> QED
      BY <2>1, <3>1, Grown DEF Owner
  <2>3. /\ Frame(i, i) /\ dir'[i] = d
        /\ UNCHANGED <<row, rec, mem, misjudged, told>>
    BY <1>4, <2>1, <2>2, ChangeFrames DEF OpenMember, Owner
  <2> HIDE DEF d
  <2>4. RecAt(i)'
    BY <1>4, <2>1, <2>2, <2>3 DEF Owner, OwnerAt, RecAt, Staging, Written, Card
  <2>5. ResultAt(i)'
    BY <1>4, <2>1, <2>2, <2>3 DEF Owner, ResultAt
  <2>6. /\ mem'[i] = rec'[i] /\ OwnerAt(i, dir[i], rec[i])'
        /\ MarkAt(i, dir[i], rec[i], i \in misjudged)'
    BY <1>4, <2>1, <2>2, <2>3 DEF Staging, Owner, OwnerAt, MarkAt
  <2>7. /\ Sealed(mem'[i]) /\ Sealed(rec'[i]) /\ (dir'[i].alien => dir[i].alien)
        /\ told'[i] = "nothing" \/ "opened" \notin Early
    BY <1>4, <2>1, <2>2, <2>3 DEF Owner
  <2> QED
    BY <2>1, <2>2, <2>3, <2>4, <2>5, <2>6, <2>7, LockedStep DEF Owner, Staging,
       Working, Locked
<1>5. CASE TrackMember(i)
  <2>1. Owner(i) /\ pc[i] = "opened" /\ To(i, "tracked") /\ pc'[i] = "tracked"
    BY <1>5, OwnerKnows DEF TrackMember, At, To, TypeOK, Locked, Resolving
  <2> DEFINE r == [mem[i] EXCEPT !.tracked = @ + 1]
  <2>2. /\ r \in Card
        /\ r.identity = mem[i].identity /\ r.sealed = mem[i].sealed
        /\ r.complete = mem[i].complete /\ r.cleanup = mem[i].cleanup
        /\ r.tracked = mem[i].tracked + 1
    BY <1>5, <2>1 DEF Owner, OwnerAt, Staging, Card, Directory
  <2>3. /\ Frame(i, i) /\ rec'[i] = r /\ mem'[i] = r
        /\ UNCHANGED <<dir, row, told, misjudged>>
    BY <1>5, <2>1, <2>2, PersistFrames DEF TrackMember, Owner
  <2>4. r # None
    BY <2>2, RecordsAre
  <2> HIDE DEF r
  <2>5. RecAt(i)'
    BY <1>5, <2>1, <2>2, <2>3, <2>4 DEF Owner, OwnerAt, RecAt, Written,
       Removed, Card
  <2>6. ResultAt(i)'
    BY <1>5, <2>1, <2>2, <2>3, <2>4 DEF Owner, ResultAt
  <2>7. /\ mem'[i] = rec'[i] /\ OwnerAt(i, dir[i], rec[i])'
        /\ MarkAt(i, dir[i], rec[i], i \in misjudged)'
    BY <1>5, <2>1, <2>2, <2>3, <2>4 DEF Owner, OwnerAt, RecAt, MarkAt, Removed,
       Empty, Card
  <2>8. /\ Sealed(mem'[i]) /\ Sealed(rec'[i]) /\ (dir'[i].alien => dir[i].alien)
        /\ told'[i] = "nothing" \/ "tracked" \notin Early
    BY <1>5, <2>1, <2>2, <2>3, <2>4 DEF Owner, OwnerAt, Sealed, Card
  <2> QED
    BY <2>1, <2>2, <2>3, <2>4, <2>5, <2>6, <2>7, <2>8, LockedStep DEF Owner,
       Staging, Working, Locked
<1>6. CASE FillMember(i)
  <2>1. Owner(i) /\ pc[i] = "tracked" /\ To(i, "filled") /\ pc'[i] = "filled"
    BY <1>6, OwnerKnows DEF FillMember, At, To, TypeOK, Locked, Resolving
  <2> DEFINE d == [dir[i] EXCEPT !.torn = FALSE]
  <2>2. /\ d \in Directory
        /\ d.at = dir[i].at /\ d.files = dir[i].files
        /\ d.marker = dir[i].marker /\ d.alien = dir[i].alien /\ ~ d.torn
    BY <2>1 DEF Owner, Directory
  <2>3. /\ Frame(i, i) /\ dir'[i] = d
        /\ UNCHANGED <<row, rec, mem, misjudged, told>>
    BY <1>6, <2>1, <2>2, ChangeFrames DEF FillMember, Owner
  <2> HIDE DEF d
  <2>4. RecAt(i)'
    BY <1>6, <2>1, <2>2, <2>3 DEF Owner, RecAt, Written, Removed, Empty
  <2>5. ResultAt(i)'
    BY <1>6, <2>1, <2>2, <2>3 DEF Owner, ResultAt
  <2>6. /\ mem'[i] = rec'[i] /\ OwnerAt(i, dir[i], rec[i])'
        /\ MarkAt(i, dir[i], rec[i], i \in misjudged)'
    BY <1>6, <2>1, <2>2, <2>3 DEF Staging, Owner, OwnerAt, MarkAt
  <2>7. /\ Sealed(mem'[i]) /\ Sealed(rec'[i]) /\ (dir'[i].alien => dir[i].alien)
        /\ told'[i] = "nothing" \/ "filled" \notin Early
    BY <1>6, <2>1, <2>2, <2>3 DEF Owner
  <2> QED
    BY <2>1, <2>2, <2>3, <2>4, <2>5, <2>6, <2>7, LockedStep DEF Owner, Staging,
       Working, Locked
<1>7. CASE FinishMember(i)
  <2>1. Owner(i) /\ pc[i] = "filled" /\ To(i, "writing") /\ pc'[i] = "writing"
    BY <1>7, OwnerKnows DEF FinishMember, At, To, TypeOK, Locked, Resolving
  <2> DEFINE r == [mem[i] EXCEPT !.sealed = @ + 1]
  <2>2. /\ r \in Card
        /\ r.identity = mem[i].identity /\ r.tracked = mem[i].tracked
        /\ r.complete = mem[i].complete /\ r.cleanup = mem[i].cleanup
        /\ r.sealed = mem[i].sealed + 1
    BY <1>7, <2>1 DEF Owner, OwnerAt, Staging, Card
  <2>3. /\ Frame(i, i) /\ rec'[i] = r /\ mem'[i] = r
        /\ UNCHANGED <<dir, row, told, misjudged>>
    BY <1>7, <2>1, <2>2, PersistFrames DEF FinishMember, Owner
  <2>4. r # None
    BY <2>2, RecordsAre
  <2> HIDE DEF r
  <2>5. RecAt(i)'
    BY <1>7, <2>1, <2>2, <2>3, <2>4 DEF Owner, OwnerAt, RecAt, Written,
       Removed, Card
  <2>6. ResultAt(i)'
    BY <1>7, <2>1, <2>2, <2>3, <2>4 DEF Owner, ResultAt
  <2>7. /\ mem'[i] = rec'[i] /\ OwnerAt(i, dir[i], rec[i])'
        /\ MarkAt(i, dir[i], rec[i], i \in misjudged)'
    BY <1>7, <2>1, <2>2, <2>3, <2>4 DEF Staging, Owner, OwnerAt, MarkAt
  <2>8. /\ Sealed(mem'[i]) /\ Sealed(rec'[i]) /\ (dir'[i].alien => dir[i].alien)
        /\ told'[i] = "nothing" \/ "writing" \notin Early
    BY <1>7, <2>1, <2>2, <2>3, <2>4 DEF Owner, OwnerAt, Sealed, Card
  <2> QED
    BY <2>1, <2>2, <2>3, <2>4, <2>5, <2>6, <2>7, <2>8, LockedStep DEF Owner,
       Staging, Working, Locked
<1>8. CASE Prepare(i)
  <2>1. Owner(i) /\ pc[i] = "writing" /\ To(i, "prepared") /\ pc'[i] = "prepared"
    BY <1>8, OwnerKnows DEF Prepare, At, To, TypeOK, Locked, Resolving
  <2> DEFINE r == [mem[i] EXCEPT !.complete = TRUE]
  <2>2. /\ r \in Card
        /\ r.identity = mem[i].identity /\ r.tracked = mem[i].tracked
        /\ r.sealed = mem[i].sealed /\ r.cleanup = mem[i].cleanup /\ r.complete
    BY <1>8, <2>1 DEF Owner, OwnerAt, Staging, Card
  <2>3. /\ Frame(i, i) /\ rec'[i] = r /\ mem'[i] = r
        /\ UNCHANGED <<dir, row, told, misjudged>>
    BY <1>8, <2>1, <2>2, PersistFrames DEF Prepare, Owner
  <2>4. r # None
    BY <2>2, RecordsAre
  <2> HIDE DEF r
  <2>5. RecAt(i)'
    BY <1>8, <2>1, <2>2, <2>3, <2>4 DEF Prepare, Owner, OwnerAt, RecAt,
       Written, Removed
  <2>6. ResultAt(i)'
    BY <1>8, <2>1, <2>2, <2>3, <2>4 DEF Owner, ResultAt
  <2>7. /\ mem'[i] = rec'[i] /\ OwnerAt(i, dir[i], rec[i])'
        /\ MarkAt(i, dir[i], rec[i], i \in misjudged)'
    BY <1>8, <2>1, <2>2, <2>3, <2>4 DEF Staging, Owner, OwnerAt, MarkAt
  <2>8. /\ Sealed(mem'[i]) /\ Sealed(rec'[i]) /\ (dir'[i].alien => dir[i].alien)
        /\ told'[i] = "nothing" \/ "prepared" \notin Early
    BY <1>8, <2>1, <2>2, <2>3, <2>4 DEF Prepare, Owner, OwnerAt, Sealed
  <2> QED
    BY <2>1, <2>2, <2>3, <2>4, <2>5, <2>6, <2>7, <2>8, LockedStep DEF Owner,
       Staging, Working, Locked
<1>9. CASE Committing(i)
  <2>1. Owner(i) /\ pc[i] = "prepared" /\ To(i, "committing") /\ pc'[i] = "committing"
    BY <1>9, OwnerKnows DEF Committing, At, To, TypeOK, Locked, Resolving
  <2>2. /\ Frame(i, i) /\ UNCHANGED <<dir, rec, mem, told, misjudged>>
        /\ row'[i] = "COMMITTING"
    BY <1>9, <2>1 DEF Committing, Frame, TypeOK, Directory, Outcome, State,
       Open, disk, local
  <2>3. RecAt(i)'
    BY <1>9, <2>1, <2>2 DEF Owner, RecAt
  <2>4. ResultAt(i)'
    BY <1>9, <2>1, <2>2 DEF Owner, ResultAt
  <2>5. /\ mem'[i] = rec'[i] /\ OwnerAt(i, dir[i], rec[i])'
        /\ MarkAt(i, dir[i], rec[i], i \in misjudged)'
    BY <1>9, <2>1, <2>2 DEF Owner, OwnerAt, MarkAt
  <2>6. /\ Sealed(mem'[i]) /\ Sealed(rec'[i]) /\ (dir'[i].alien => dir[i].alien)
        /\ told'[i] = "nothing" \/ "committing" \notin Early
    BY <1>9, <2>1, <2>2 DEF Owner
  <2> QED
    BY <2>1, <2>2, <2>3, <2>4, <2>5, <2>6, LockedStep DEF Owner, Working,
       Locked
<1>10. CASE Rename(i)
  <2>1. Owner(i) /\ pc[i] = "committing" /\ To(i, "renamed") /\ pc'[i] = "renamed"
    BY <1>10, OwnerKnows DEF Rename, At, To, TypeOK, Locked, Resolving
  <2> DEFINE d == [dir[i] EXCEPT !.at = "final"]
  <2>2. /\ d \in Directory
        /\ d.files = dir[i].files /\ d.torn = dir[i].torn
        /\ d.marker = dir[i].marker /\ d.alien = dir[i].alien /\ d.at = "final"
    BY <2>1 DEF Owner, Directory
  <2>3. /\ Frame(i, i) /\ dir'[i] = d
        /\ UNCHANGED <<row, rec, mem, misjudged, told>>
    BY <1>10, <2>1, <2>2, ChangeFrames DEF Rename, Owner
  <2> HIDE DEF d
  <2>4. RecAt(i)'
    BY <1>10, <2>1, <2>2, <2>3 DEF Owner, OwnerAt, RecAt, Written
  <2>5. ResultAt(i)'
    BY <1>10, <2>1, <2>2, <2>3 DEF Owner, ResultAt, Open
  <2>6. /\ mem'[i] = rec'[i] /\ OwnerAt(i, dir[i], rec[i])'
        /\ MarkAt(i, dir[i], rec[i], i \in misjudged)'
    BY <1>10, <2>1, <2>2, <2>3 DEF Owner, OwnerAt, MarkAt
  <2>7. /\ Sealed(mem'[i]) /\ Sealed(rec'[i]) /\ (dir'[i].alien => dir[i].alien)
        /\ told'[i] = "nothing" \/ "renamed" \notin Early
    BY <1>10, <2>1, <2>2, <2>3 DEF Owner
  <2> QED
    BY <2>1, <2>2, <2>3, <2>4, <2>5, <2>6, <2>7, LockedStep DEF Owner, Working,
       Locked
<1>11. CASE RootIsSelected(i)
  <2>1. Owner(i) /\ pc[i] = "renamed" /\ To(i, "finalizing") /\ pc'[i] = "finalizing"
    BY <1>11, OwnerKnows DEF RootIsSelected, At, To, TypeOK, Locked, Resolving
  <2>2. Frame(i, i) /\ UNCHANGED <<dir, row, rec, mem, misjudged, told>>
    BY <1>11, <2>1, QuietFrames DEF RootIsSelected, Owner
  <2>3. RecAt(i)'
    BY <1>11, <2>1, <2>2 DEF Owner, RecAt
  <2>4. ResultAt(i)'
    BY <1>11, <2>1, <2>2 DEF Owner, ResultAt
  <2>5. /\ mem'[i] = rec'[i] /\ OwnerAt(i, dir[i], rec[i])'
        /\ MarkAt(i, dir[i], rec[i], i \in misjudged)'
    BY <1>11, <2>1, <2>2 DEF Owner, OwnerAt, MarkAt
  <2>6. /\ Sealed(mem'[i]) /\ Sealed(rec'[i]) /\ (dir'[i].alien => dir[i].alien)
        /\ told'[i] = "nothing" \/ "finalizing" \notin Early
    BY <1>11, <2>1, <2>2 DEF Owner
  <2> QED
    BY <2>1, <2>2, <2>3, <2>4, <2>5, <2>6, LockedStep DEF Owner, Working,
       Locked
<1>12. CASE RenameBack(i)
  <2>1. Owner(i) /\ pc[i] = "renamed" /\ To(i, "rescue") /\ pc'[i] = "rescue"
    BY <1>12, OwnerKnows DEF RenameBack, At, To, TypeOK, Locked, Resolving
  <2> DEFINE e == [dir[i] EXCEPT !.at = "stage"]
  <2>a. /\ e \in Directory /\ e.at = "stage"
        /\ e.files = dir[i].files /\ e.torn = dir[i].torn
        /\ e.marker = dir[i].marker /\ e.alien = dir[i].alien
    BY <2>1 DEF Owner, Directory
  <2> HIDE DEF e
  <2>2. /\ Frame(i, i) /\ dir'[i] \in {e, dir[i]}
        /\ UNCHANGED <<row, rec, mem, misjudged, told>>
    <3>1. CASE Change(i, e)
      BY <1>12, <2>1, <2>a, <3>1, ChangeFrames DEF RenameBack, Owner
    <3>2. CASE UNCHANGED <<disk, journal, holder, local, misjudged>>
      BY <1>12, <2>1, <3>2, QuietFrames DEF RenameBack, Owner
    <3> QED
      BY <1>12, <3>1, <3>2 DEF RenameBack, e
  <2>3. RecAt(i)'
    BY <1>12, <2>1, <2>a, <2>2 DEF Owner, OwnerAt, RecAt, Written
  <2>4. ResultAt(i)'
    BY <1>12, <2>1, <2>a, <2>2 DEF Owner, ResultAt, Open
  <2>5. /\ mem'[i] = rec'[i] /\ OwnerAt(i, dir[i], rec[i])'
        /\ MarkAt(i, dir[i], rec[i], i \in misjudged)'
    BY <1>12, <2>1, <2>a, <2>2 DEF Owner, OwnerAt, MarkAt
  <2>6. /\ Sealed(mem'[i]) /\ Sealed(rec'[i]) /\ (dir'[i].alien => dir[i].alien)
        /\ told'[i] = "nothing" \/ "rescue" \notin Early
    BY <1>12, <2>1, <2>a, <2>2 DEF Owner
  <2> QED
    BY <2>1, <2>a, <2>2, <2>3, <2>4, <2>5, <2>6, LockedStep DEF Owner, Working,
       Locked
<1>13. CASE UnlinkMarker(i)
  <2>1. Owner(i) /\ pc[i] = "finalizing" /\ To(i, "unlinked") /\ pc'[i] = "unlinked"
    BY <1>13, OwnerKnows DEF UnlinkMarker, At, To, TypeOK, Locked, Resolving
  <2> DEFINE d == [dir[i] EXCEPT !.marker = FALSE]
  <2>2. /\ d \in Directory
        /\ d.at = dir[i].at /\ d.files = dir[i].files
        /\ d.torn = dir[i].torn /\ d.alien = dir[i].alien /\ ~ d.marker
    BY <2>1 DEF Owner, Directory
  <2>3. /\ Frame(i, i) /\ dir'[i] = d
        /\ UNCHANGED <<row, rec, mem, misjudged, told>>
    BY <1>13, <2>1, <2>2, ChangeFrames DEF UnlinkMarker, Owner
  <2> HIDE DEF d
  <2>4. RecAt(i)'
    BY <1>13, <2>1, <2>2, <2>3 DEF Owner, OwnerAt, RecAt, Written
  <2>5. ResultAt(i)'
    BY <1>13, <2>1, <2>2, <2>3 DEF Owner, ResultAt
  <2>6. /\ mem'[i] = rec'[i] /\ OwnerAt(i, dir[i], rec[i])'
        /\ MarkAt(i, dir[i], rec[i], i \in misjudged)'
    BY <1>13, <2>1, <2>2, <2>3 DEF Owner, OwnerAt, MarkAt
  <2>7. /\ Sealed(mem'[i]) /\ Sealed(rec'[i]) /\ (dir'[i].alien => dir[i].alien)
        /\ told'[i] = "nothing" \/ "unlinked" \notin Early
    BY <1>13, <2>1, <2>2, <2>3 DEF Owner
  <2> QED
    BY <2>1, <2>2, <2>3, <2>4, <2>5, <2>6, <2>7, LockedStep DEF Owner, Working,
       Locked
<1>14. CASE MarkCommitted(i)
  <2>1. Owner(i) /\ pc[i] = "unlinked" /\ To(i, "finish") /\ pc'[i] = "finish"
    BY <1>14, OwnerKnows DEF MarkCommitted, At, To, TypeOK, Locked, Resolving
  <2>2. Says(i) /\ told'[i] = IF told[i] = "nothing" THEN "committed" ELSE told[i]
    BY <1>14, TellSays DEF MarkCommitted, Outcome
  <2>3. Frame(i, i) /\ UNCHANGED <<dir, row, rec, mem, misjudged>>
    BY <1>14, <2>1, <2>2, QuietFrames DEF MarkCommitted, Owner
  <2>4. RecAt(i)'
    BY <1>14, <2>1, <2>3, <2>2 DEF Owner, RecAt
  <2>5. ResultAt(i)'
    BY <1>14, <2>1, <2>3, <2>2 DEF Owner, OwnerAt, ResultAt
  <2>6. /\ mem'[i] = rec'[i] /\ OwnerAt(i, dir[i], rec[i])'
        /\ MarkAt(i, dir[i], rec[i], i \in misjudged)'
    BY <1>14, <2>1, <2>3, <2>2 DEF Owner, OwnerAt, MarkAt
  <2>7. /\ Sealed(mem'[i]) /\ Sealed(rec'[i]) /\ (dir'[i].alien => dir[i].alien)
        /\ told'[i] = "nothing" \/ "finish" \notin Early
    BY <1>14, <2>1, <2>3, <2>2 DEF Staging, Owner, Early
  <2> QED
    BY <2>1, <2>3, <2>2, <2>4, <2>5, <2>6, <2>7, LockedStep DEF Owner, Working,
       Locked
<1>15. CASE Fail(i)
  <2>1. Owner(i) /\ pc[i] \in Staging \cup {"acquired", "prepared"} /\ To(i, "failing")
        /\ pc'[i] = "failing"
    BY <1>15, OwnerKnows DEF Fail, To, TypeOK, Staging, Locked, Resolving
  <2> DEFINE d == [dir[i] EXCEPT !.marker = @ /\ pc[i] # "made"]
  <2>2. /\ d \in Directory
        /\ d.at = dir[i].at /\ d.files = dir[i].files
        /\ d.torn = dir[i].torn /\ d.alien = dir[i].alien
    BY <2>1 DEF Owner, Directory
  <2>3. Says(i) /\ told'[i] = IF told[i] = "nothing" THEN "failed" ELSE told[i]
    BY <1>15, TellSays DEF Fail, Outcome
  <2>4. /\ Frame(i, i) /\ dir'[i] = d
        /\ UNCHANGED <<row, rec, mem, misjudged>>
    BY <1>15, <2>1, <2>2, <2>3, ChangeFrames DEF Fail, Owner
  <2> HIDE DEF d
  <2>5. RecAt(i)'
    BY <1>15, <2>1, <2>2, <2>4, <2>3 DEF Owner, RecAt, Written, Removed, Empty
  <2>6. ResultAt(i)'
    BY <1>15, <2>1, <2>2, <2>4, <2>3 DEF Owner, OwnerAt, RecAt, Staging,
       ResultAt, Empty
  <2>7. /\ mem'[i] = rec'[i] /\ OwnerAt(i, dir[i], rec[i])'
        /\ MarkAt(i, dir[i], rec[i], i \in misjudged)'
    BY <1>15, <2>1, <2>2, <2>4, <2>3 DEF Staging, Owner, OwnerAt, RecAt,
       MarkAt, Empty
  <2>8. /\ Sealed(mem'[i]) /\ Sealed(rec'[i]) /\ (dir'[i].alien => dir[i].alien)
        /\ told'[i] = "nothing" \/ "failing" \notin Early
    BY <1>15, <2>1, <2>2, <2>4, <2>3 DEF Staging, Owner, Early
  <2> QED
    BY <2>1, <2>2, <2>4, <2>3, <2>5, <2>6, <2>7, <2>8, LockedStep DEF Owner,
       Staging, Working, Locked
<1>16. CASE FailPublishing(i)
  <2>1. Owner(i) /\ pc[i] \in {"committing", "renamed", "finalizing", "unlinked"}
        /\ To(i, "rescue") /\ pc'[i] = "rescue"
    BY <1>16, OwnerKnows DEF FailPublishing, To, TypeOK, Locked, Resolving
  <2>2. Frame(i, i) /\ UNCHANGED <<dir, row, rec, mem, misjudged, told>>
    BY <1>16, <2>1, QuietFrames DEF FailPublishing, Owner
  <2>3. RecAt(i)'
    BY <1>16, <2>1, <2>2 DEF Owner, RecAt
  <2>4. ResultAt(i)'
    BY <1>16, <2>1, <2>2 DEF Owner, ResultAt
  <2>5. /\ mem'[i] = rec'[i] /\ OwnerAt(i, dir[i], rec[i])'
        /\ MarkAt(i, dir[i], rec[i], i \in misjudged)'
    BY <1>16, <2>1, <2>2 DEF Owner, OwnerAt, MarkAt
  <2>6. /\ Sealed(mem'[i]) /\ Sealed(rec'[i]) /\ (dir'[i].alien => dir[i].alien)
        /\ told'[i] = "nothing" \/ "rescue" \notin Early
    BY <1>16, <2>1, <2>2 DEF Owner
  <2> QED
    BY <2>1, <2>2, <2>3, <2>4, <2>5, <2>6, LockedStep DEF Owner, Working,
       Locked
<1>17. CASE RescueCommitted(i)
  <2>1. Owner(i) /\ pc[i] = "rescue" /\ To(i, "finish") /\ pc'[i] = "finish"
    BY <1>17, OwnerKnows DEF RescueCommitted, At, To, TypeOK, Locked, Resolving
  <2>2. Says(i) /\ told'[i] = IF told[i] = "nothing" THEN "committed" ELSE told[i]
    BY <1>17, TellSays DEF RescueCommitted, Outcome
  <2>3. Frame(i, i) /\ UNCHANGED <<dir, row, rec, mem, misjudged>>
    BY <1>17, <2>1, <2>2, QuietFrames DEF RescueCommitted, Owner
  <2>4. RecAt(i)'
    BY <1>17, <2>1, <2>3, <2>2 DEF Owner, RecAt
  <2>5. ResultAt(i)'
    BY <1>17, <2>1, <2>3, <2>2 DEF RescueCommitted, Owner, ResultAt
  <2>6. /\ mem'[i] = rec'[i] /\ OwnerAt(i, dir[i], rec[i])'
        /\ MarkAt(i, dir[i], rec[i], i \in misjudged)'
    BY <1>17, <2>1, <2>3, <2>2 DEF Owner, OwnerAt, MarkAt
  <2>7. /\ Sealed(mem'[i]) /\ Sealed(rec'[i]) /\ (dir'[i].alien => dir[i].alien)
        /\ told'[i] = "nothing" \/ "finish" \notin Early
    BY <1>17, <2>1, <2>3, <2>2 DEF Staging, Owner, Early
  <2> QED
    BY <2>1, <2>3, <2>2, <2>4, <2>5, <2>6, <2>7, LockedStep DEF Owner, Working,
       Locked
<1>18. CASE RescueRollback(i)
  <2>1. Owner(i) /\ pc[i] = "rescue" /\ To(i, "failing") /\ pc'[i] = "failing"
    BY <1>18, OwnerKnows DEF RescueRollback, At, To, TypeOK, Locked, Resolving
  <2> DEFINE d == [dir[i] EXCEPT !.at = "stage"]
  <2>2. /\ d \in Directory
        /\ d.files = dir[i].files /\ d.torn = dir[i].torn
        /\ d.marker = dir[i].marker /\ d.alien = dir[i].alien /\ d.at = "stage"
    BY <2>1 DEF Owner, Directory
  <2>3. Says(i) /\ told'[i] = IF told[i] = "nothing" THEN "failed" ELSE told[i]
    BY <1>18, TellSays DEF RescueRollback, Outcome
  <2>4. /\ Frame(i, i) /\ dir'[i] = d
        /\ UNCHANGED <<row, rec, mem, misjudged>>
    BY <1>18, <2>1, <2>2, <2>3, ChangeFrames DEF RescueRollback, Owner
  <2> HIDE DEF d
  <2>5. RecAt(i)'
    BY <1>18, <2>1, <2>2, <2>4, <2>3 DEF Owner, OwnerAt, RecAt, Written
  <2>6. ResultAt(i)'
    BY <1>18, <2>1, <2>2, <2>4, <2>3 DEF Owner, ResultAt, Open
  <2>7. /\ mem'[i] = rec'[i] /\ OwnerAt(i, dir[i], rec[i])'
        /\ MarkAt(i, dir[i], rec[i], i \in misjudged)'
    BY <1>18, <2>1, <2>2, <2>4, <2>3 DEF Owner, OwnerAt, MarkAt
  <2>8. /\ Sealed(mem'[i]) /\ Sealed(rec'[i]) /\ (dir'[i].alien => dir[i].alien)
        /\ told'[i] = "nothing" \/ "failing" \notin Early
    BY <1>18, <2>1, <2>2, <2>4, <2>3 DEF Staging, Owner, Early
  <2> QED
    BY <2>1, <2>2, <2>4, <2>3, <2>5, <2>6, <2>7, <2>8, LockedStep DEF Owner,
       Working, Locked
<1>19. CASE RescueRemovesMarker(i)
  <2>1. Owner(i) /\ pc[i] = "rescue" /\ To(i, "finish") /\ pc'[i] = "finish"
    BY <1>19, OwnerKnows DEF RescueRemovesMarker, At, To, TypeOK, Locked,
       Resolving
  <2> DEFINE d == [dir[i] EXCEPT !.marker = FALSE]
  <2>2. /\ d \in Directory
        /\ d.at = dir[i].at /\ d.files = dir[i].files
        /\ d.torn = dir[i].torn /\ d.alien = dir[i].alien /\ ~ d.marker
    BY <2>1 DEF Owner, Directory
  <2>3. Says(i) /\ told'[i] = IF told[i] = "nothing" THEN "committed" ELSE told[i]
    BY <1>19, TellSays DEF RescueRemovesMarker, Outcome
  <2>4. /\ Frame(i, i) /\ dir'[i] = d
        /\ UNCHANGED <<row, rec, mem, misjudged>>
    BY <1>19, <2>1, <2>2, <2>3, ChangeFrames DEF RescueRemovesMarker, Owner
  <2> HIDE DEF d
  <2>5. RecAt(i)'
    BY <1>19, <2>1, <2>2, <2>4, <2>3 DEF Owner, OwnerAt, RecAt, Written
  <2>6. ResultAt(i)'
    BY <1>19, <2>1, <2>2, <2>4, <2>3 DEF RescueRemovesMarker, Owner, ResultAt
  <2>7. /\ mem'[i] = rec'[i] /\ OwnerAt(i, dir[i], rec[i])'
        /\ MarkAt(i, dir[i], rec[i], i \in misjudged)'
    BY <1>19, <2>1, <2>2, <2>4, <2>3 DEF Owner, OwnerAt, MarkAt
  <2>8. /\ Sealed(mem'[i]) /\ Sealed(rec'[i]) /\ (dir'[i].alien => dir[i].alien)
        /\ told'[i] = "nothing" \/ "finish" \notin Early
    BY <1>19, <2>1, <2>2, <2>4, <2>3 DEF Staging, Owner, Early
  <2> QED
    BY <2>1, <2>2, <2>4, <2>3, <2>5, <2>6, <2>7, <2>8, LockedStep DEF Owner,
       Working, Locked
<1>20. CASE RescueGivesUp(i)
  <2>1. Owner(i) /\ pc[i] = "rescue" /\ To(i, "failing") /\ pc'[i] = "failing"
    BY <1>20, OwnerKnows DEF RescueGivesUp, At, To, TypeOK, Locked, Resolving
  <2>2. Says(i) /\ told'[i] = IF told[i] = "nothing" THEN "incomplete" ELSE told[i]
    BY <1>20, TellSays DEF RescueGivesUp, Outcome
  <2>3. Frame(i, i) /\ UNCHANGED <<dir, row, rec, mem, misjudged>>
    BY <1>20, <2>1, <2>2, QuietFrames DEF RescueGivesUp, Owner
  <2>4. RecAt(i)'
    BY <1>20, <2>1, <2>3, <2>2 DEF Owner, RecAt
  <2>5. ResultAt(i)'
    BY <1>20, <2>1, <2>3, <2>2 DEF Owner, ResultAt
  <2>6. /\ mem'[i] = rec'[i] /\ OwnerAt(i, dir[i], rec[i])'
        /\ MarkAt(i, dir[i], rec[i], i \in misjudged)'
    BY <1>20, <2>1, <2>3, <2>2 DEF Owner, OwnerAt, MarkAt
  <2>7. /\ Sealed(mem'[i]) /\ Sealed(rec'[i]) /\ (dir'[i].alien => dir[i].alien)
        /\ told'[i] = "nothing" \/ "failing" \notin Early
    BY <1>20, <2>1, <2>3, <2>2 DEF Staging, Owner, Early
  <2> QED
    BY <2>1, <2>3, <2>2, <2>4, <2>5, <2>6, <2>7, LockedStep DEF Owner, Working,
       Locked
<1>21. CASE Handle(i)
  <2> DEFINE next == IF Taken(i) /\ ~ away THEN "closing" ELSE "finish"
  <2>1. /\ Owner(i) /\ pc[i] = "failing" /\ To(i, next) /\ pc'[i] = next
        /\ next \in {"closing", "finish"}
    BY <1>21, OwnerKnows DEF Handle, To, TypeOK, Locked, Resolving
  <2> HIDE DEF next
  <2>2. Frame(i, i) /\ UNCHANGED <<dir, row, rec, mem, misjudged, told>>
    BY <1>21, <2>1, QuietFrames DEF Handle, Owner
  <2>3. RecAt(i)'
    BY <1>21, <2>1, <2>2 DEF Owner, RecAt
  <2>4. ResultAt(i)'
    BY <1>21, <2>1, <2>2 DEF Owner, ResultAt
  <2>5. /\ mem'[i] = rec'[i] /\ OwnerAt(i, dir[i], rec[i])'
        /\ MarkAt(i, dir[i], rec[i], i \in misjudged)'
    BY <1>21, <2>1, <2>2 DEF Staging, Owner, OwnerAt, MarkAt
  <2>6. /\ Sealed(mem'[i]) /\ Sealed(rec'[i]) /\ (dir'[i].alien => dir[i].alien)
        /\ told'[i] = "nothing" \/ next \notin Early
    BY <1>21, <2>1, <2>2 DEF Staging, Owner, Early
  <2> QED
    BY <2>1, <2>2, <2>3, <2>4, <2>5, <2>6, LockedStep DEF Owner, Working,
       Locked
<1> QED
  BY <1>1, <1>2, <1>3, <1>4, <1>5, <1>6, <1>7, <1>8, <1>9, <1>10, <1>11, <1>12,
     <1>13, <1>14, <1>15, <1>16, <1>17, <1>18, <1>19, <1>20, <1>21

(* So do those by which an invocation resolves an operation.               *)
LEMMA ResolverSteps ==
  ASSUME SyncAssumption, SyncInv, NEW i \in Inv,
         \/ FinishPublished(i) \/ FinishStaged(i) \/ RemoveStage(i)
         \/ FinishNothing(i) \/ FinishFails(i) \/ RemoveEntry(i)
  PROVE  SyncInv'
<1> USE SyncAssumption DEF SyncAssumption
<1>a. TypeOK /\ None \in Records
  BY DEF SyncInv, Records
<1> USE <1>a
<1>1. CASE FinishPublished(i)
  <2>1. PICK w \in Inv : /\ w = work[i] /\ Resolver(i, w) /\ pc[i] \in Locked
                         /\ pc[i] = "finish" /\ To(i, "marking") /\ pc'[i] = "marking"
    BY <1>1, ResolverKnows DEF FinishPublished, At, To, TypeOK, Resolving
  <2> DEFINE d == [dir[w] EXCEPT !.marker = FALSE]
  <2>2. /\ d \in Directory
        /\ d.at = dir[w].at /\ d.files = dir[w].files
        /\ d.torn = dir[w].torn /\ d.alien = dir[w].alien /\ ~ d.marker
    BY <2>1 DEF Resolver, Directory
  <2>3. /\ Frame(i, w) /\ dir'[w] = d
        /\ UNCHANGED <<row, rec, mem, misjudged, told>>
    BY <1>1, <2>1, <2>2, ChangeFrames DEF FinishPublished, Resolver
  <2> HIDE DEF d
  <2>4. RecAt(w)' /\ ResultAt(w)' /\ ResultAt(i)'
    BY <1>1, <2>1, <2>2, <2>3 DEF FinishPublished, Resolver, RecAt, ResultAt,
       MarkAt, Written, Removed, Empty, Frame
  <2>5. /\ MarkAt(i, dir[w], rec[w], w \in misjudged)'
        /\ w = i => mem'[i] = rec'[i] /\ OwnerAt(i, dir[i], rec[i])'
    BY <1>1, <2>1, <2>2, <2>3 DEF FinishPublished, Resolver, RecAt, MarkAt,
       Removed, AsRecorded, OwnerAt
  <2>6. /\ Sealed(mem'[i]) /\ Sealed(rec'[w])
        /\ dir'[w].alien => dir[w].alien
        /\ w # i /\ "marking" # "closing" => told'[i] = "nothing"
    BY <1>1, <2>1, <2>2, <2>3 DEF Resolver
  <2> QED
    BY <2>1, <2>2, <2>3, <2>4, <2>5, <2>6, LockedStep DEF Staging, Working,
       Locked, Resolving, Early
<1>2. CASE FinishStaged(i)
  <2>1. PICK w \in Inv : /\ w = work[i] /\ Resolver(i, w) /\ pc[i] \in Locked
                         /\ pc[i] = "finish" /\ To(i, "cleanup") /\ pc'[i] = "cleanup"
    BY <1>2, ResolverKnows DEF FinishStaged, At, To, TypeOK, Resolving
  <2> DEFINE r == [mem[i] EXCEPT !.cleanup = TRUE]
  <2>2. /\ r \in Card
        /\ r.identity = mem[i].identity /\ r.tracked = mem[i].tracked
        /\ r.sealed = mem[i].sealed /\ r.complete = mem[i].complete /\ r.cleanup
    BY <1>2, <2>1 DEF FinishStaged, Resolver, Card
  <2>3. /\ Frame(i, w) /\ rec'[w] = r /\ mem'[i] = r
        /\ UNCHANGED <<dir, row, told, misjudged>>
    BY <1>2, <2>1, <2>2, PersistFrames DEF FinishStaged, Resolver
  <2>4. r # None
    BY <2>2, RecordsAre
  <2> HIDE DEF r
  <2>5. RecAt(w)' /\ ResultAt(w)' /\ ResultAt(i)'
    <3>1. Removed(dir[w], r)
      BY <1>2, <2>1, <2>2 DEF FinishStaged, Resolver, Removed, Sealed, Proven,
         AsRecorded, Card, Directory
    <3>2. RecAt(w)'
      BY <2>2, <2>3, <2>4, <3>1 DEF RecAt
    <3>3. ResultAt(w)' /\ ResultAt(i)'
      BY <2>1, <2>3 DEF Resolver, ResultAt
    <3> QED
      BY <3>2, <3>3
  <2>6. /\ MarkAt(i, dir[w], rec[w], w \in misjudged)'
        /\ w = i => mem'[i] = rec'[i] /\ OwnerAt(i, dir[i], rec[i])'
    BY <1>2, <2>1, <2>2, <2>3, <2>4 DEF FinishStaged, MarkAt, OwnerAt, Staging
  <2>7. /\ Sealed(mem'[i]) /\ Sealed(rec'[w])
        /\ dir'[w].alien => dir[w].alien
        /\ w # i /\ "cleanup" # "closing" => told'[i] = "nothing"
    BY <1>2, <2>1, <2>2, <2>3, <2>4 DEF FinishStaged, Resolver, Sealed
  <2> QED
    BY <2>1, <2>2, <2>3, <2>4, <2>5, <2>6, <2>7, LockedStep DEF Staging,
       Working, Locked, Resolving, Early
<1>3. CASE RemoveStage(i)
  <2>1. PICK w \in Inv : /\ w = work[i] /\ Resolver(i, w) /\ pc[i] \in Locked
                         /\ pc[i] = "cleanup" /\ To(i, "marking") /\ pc'[i] = "marking"
    BY <1>3, ResolverKnows DEF RemoveStage, At, To, TypeOK, Resolving
  <2> DEFINE d == NoDir
  <2>2. /\ d \in Directory
        /\ d.at = "none" /\ d.files = 0 /\ ~ d.torn /\ ~ d.alien
    BY <2>1 DEF Directory, NoDir
  <2>3. /\ Frame(i, w) /\ dir'[w] = d
        /\ UNCHANGED <<row, rec, mem, misjudged, told>>
    BY <1>3, <2>1, <2>2, ChangeFrames DEF RemoveStage, Resolver
  <2> HIDE DEF d
  <2>4. RecAt(w)' /\ ResultAt(w)' /\ ResultAt(i)'
    BY <1>3, <2>1, <2>2, <2>3 DEF RemoveStage, Resolver, RecAt, ResultAt,
       MarkAt, Removed, Frame
  <2>5. /\ MarkAt(i, dir[w], rec[w], w \in misjudged)'
        /\ w = i => mem'[i] = rec'[i] /\ OwnerAt(i, dir[i], rec[i])'
    BY <1>3, <2>1, <2>2, <2>3 DEF Resolver, MarkAt, OwnerAt, Staging
  <2>6. /\ Sealed(mem'[i]) /\ Sealed(rec'[w])
        /\ dir'[w].alien => dir[w].alien
        /\ w # i /\ "marking" # "closing" => told'[i] = "nothing"
    BY <1>3, <2>1, <2>2, <2>3 DEF Resolver
  <2> QED
    BY <2>1, <2>2, <2>3, <2>4, <2>5, <2>6, LockedStep DEF Staging, Working,
       Locked, Resolving, Early
<1>4. CASE FinishNothing(i)
  <2>1. PICK w \in Inv : /\ w = work[i] /\ Resolver(i, w) /\ pc[i] \in Locked
                         /\ pc[i] = "finish" /\ To(i, "marking") /\ pc'[i] = "marking"
    BY <1>4, ResolverKnows DEF FinishNothing, At, To, TypeOK, Resolving
  <2>2. /\ Frame(i, w) /\ UNCHANGED <<dir, row, rec, mem, told>>
    BY <1>4, <2>1 DEF FinishNothing, Frame, Resolver, TypeOK, Directory,
       Outcome, State, disk, journal, local
  <2>3. RecAt(w)' /\ ResultAt(w)' /\ ResultAt(i)'
    BY <1>4, <2>1, <2>2 DEF FinishNothing, Resolver, RecAt, ResultAt
  <2>4. /\ MarkAt(i, dir[w], rec[w], w \in misjudged)'
        /\ w = i => mem'[i] = rec'[i] /\ OwnerAt(i, dir[i], rec[i])'
    BY <1>4, <2>1, <2>2 DEF FinishNothing, Taken, Resolver, RecAt, MarkAt,
       Empty, OwnerAt, Staging
  <2>5. /\ Sealed(mem'[i]) /\ Sealed(rec'[w])
        /\ dir'[w].alien => dir[w].alien
        /\ w # i /\ "marking" # "closing" => told'[i] = "nothing"
    BY <1>4, <2>1, <2>2 DEF Resolver
  <2> QED
    BY <2>1, <2>2, <2>3, <2>4, <2>5, LockedStep DEF Staging, Working, Locked,
       Resolving, Early
<1>5. CASE FinishFails(i)
  <2>1. PICK w \in Inv : /\ w = work[i] /\ Resolver(i, w) /\ pc[i] \in Locked
                         /\ pc[i] \in {"finish", "cleanup", "marking"} /\ To(i, "closing")
                         /\ pc'[i] = "closing"
    BY <1>5, ResolverKnows DEF FinishFails, To, TypeOK, Resolving
  <2>2. Says(i)
        /\ told'[i] = IF told[i] \in {"nothing", "committed"} THEN "unknown" ELSE told[i]
    BY <1>5 DEF FinishFails, Says, TypeOK, Outcome
  <2>3. Frame(i, w) /\ UNCHANGED <<dir, row, rec, mem, misjudged>>
    BY <1>5, <2>1, <2>2, QuietFrames DEF FinishFails, Resolver
  <2>4. RecAt(w)' /\ ResultAt(w)' /\ ResultAt(i)'
    BY <1>5, <2>1, <2>3, <2>2 DEF FinishFails, Resolver, RecAt, ResultAt
  <2>5. /\ MarkAt(i, dir[w], rec[w], w \in misjudged)'
        /\ w = i => mem'[i] = rec'[i] /\ OwnerAt(i, dir[i], rec[i])'
    BY <1>5, <2>1, <2>3, <2>2 DEF Resolver, MarkAt, OwnerAt, Staging
  <2>6. /\ Sealed(mem'[i]) /\ Sealed(rec'[w])
        /\ dir'[w].alien => dir[w].alien
        /\ w # i /\ "closing" # "closing" => told'[i] = "nothing"
    BY <1>5, <2>1, <2>3, <2>2 DEF Resolver
  <2> QED
    BY <2>1, <2>3, <2>2, <2>4, <2>5, <2>6, LockedStep DEF Staging, Working,
       Locked, Resolving, Early
<1>6. CASE RemoveEntry(i)
  <2>1. PICK w \in Inv : /\ w = work[i] /\ Resolver(i, w) /\ pc[i] \in Locked
                         /\ pc[i] = "cleanup" /\ UNCHANGED pc /\ To(i, "cleanup")
                         /\ dir[w] \in Directory
    BY <1>6, ResolverKnows DEF RemoveEntry, Resolver, Resolving, To, TypeOK
  <2>2. PICK d \in Directory :
          /\ Change(i, d) /\ d.at = dir[w].at /\ d.files <= dir[w].files
          /\ d.alien = dir[w].alien /\ (d.torn => dir[w].torn)
    <3> DEFINE Less(d) == /\ d \in Directory /\ Change(i, d)
                          /\ d.at = dir[w].at /\ d.files <= dir[w].files
                          /\ d.alien = dir[w].alien /\ (d.torn => dir[w].torn)
    <3>a. PICK D \in Directory : D = dir[w] /\ D.files \in 0..Members /\ D.torn \in BOOLEAN
      BY <2>1 DEF Directory
    <3>1. ASSUME D.files > 0, NEW t \in {FALSE, D.torn /\ D.files > 1},
                 Change(i, [D EXCEPT !.files = @ - 1, !.torn = t])
          PROVE  \E d : Less(d)
      <4>1. D.files - 1 \in 0..Members /\ D.files - 1 <= D.files
        BY <3>a, <3>1
      <4>2. PICK n \in 0..Members : n = D.files - 1 /\ n <= D.files
        BY <4>1
      <4>3. t \in BOOLEAN /\ (t => D.torn)
        BY <3>a, <3>1, Zenon
      <4>4. PICK s \in BOOLEAN : s = t
        BY <4>3
      <4>5. PICK e : e = [D EXCEPT !.files = n, !.torn = s]
        OBVIOUS
      <4>6. e \in Directory /\ e.files = n /\ e.torn = s /\ e.at = D.at /\ e.alien = D.alien
        BY <4>5 DEF Directory
      <4>7. Change(i, e)
        BY <3>1, <4>2, <4>4, <4>5
      <4> QED
        BY <3>a, <4>2, <4>3, <4>4, <4>6, <4>7
    <3>2. ASSUME Change(i, [D EXCEPT !.marker = FALSE])
          PROVE  \E d : Less(d)
      <4>1. PICK e : e = [D EXCEPT !.marker = FALSE]
        OBVIOUS
      <4>2. /\ e \in Directory /\ e.at = D.at /\ e.files = D.files
            /\ e.torn = D.torn /\ e.alien = D.alien
        BY <4>1 DEF Directory
      <4>3. D.files <= D.files
        BY <3>a
      <4> QED
        BY <3>a, <3>2, <4>1, <4>2, <4>3
    <3> QED
      BY <1>6, <2>1, <3>a, <3>1, <3>2 DEF RemoveEntry
  <2>3. /\ Frame(i, w) /\ dir'[w] = d
        /\ UNCHANGED <<row, rec, mem, misjudged, told>>
    BY <1>6, <2>1, <2>2, ChangeFrames DEF RemoveEntry, Resolver
  <2>4. RecAt(w)' /\ ResultAt(w)' /\ ResultAt(i)'
    BY <1>6, <2>1, <2>2, <2>3 DEF Resolver, RecAt, ResultAt, MarkAt, Removed,
       Card, Directory, Frame
  <2>5. /\ MarkAt(i, dir[w], rec[w], w \in misjudged)'
        /\ w = i => mem'[i] = rec'[i] /\ OwnerAt(i, dir[i], rec[i])'
    BY <1>6, <2>1, <2>2, <2>3 DEF Resolver, MarkAt, OwnerAt, Staging
  <2>6. /\ Sealed(mem'[i]) /\ Sealed(rec'[w])
        /\ dir'[w].alien => dir[w].alien
        /\ w # i /\ "cleanup" # "closing" => told'[i] = "nothing"
    BY <1>6, <2>1, <2>2, <2>3 DEF Resolver
  <2> QED
    BY <2>1, <2>2, <2>3, <2>4, <2>5, <2>6, LockedStep DEF Staging, Resolving,
       Early
<1> QED
  BY <1>1, <1>2, <1>3, <1>4, <1>5, <1>6

(* An invocation begins and ends, it takes the lock and gives it back: what *)
(* it works on changes, or who works.                                      *)
LEMMA OtherSteps ==
  ASSUME SyncAssumption, SyncInv, NEW i \in Inv,
         \/ Find(i) \/ FindNothing(i) \/ Recover(i) \/ RecoverRefused(i) \/ Cancel(i)
         \/ Acquire(i) \/ AcquireRefused(i) \/ Record(i) \/ Close(i) \/ Crash(i)
  PROVE  SyncInv'
<1> USE SyncAssumption DEF SyncAssumption, disk, journal, local, Open, Locked, Working,
       Staging, At, To
<1>a. /\ TypeOK /\ LockInv /\ WorkInv /\ ToldInv /\ MemInv /\ RecInv
      /\ OwnerInv /\ MarkInv /\ ResultInv /\ AlienInv /\ None \in Records
  BY DEF SyncInv, Records
<1> USE <1>a
<1>1. CASE Find(i)
  <2>1. TypeOK'
    BY <1>1 DEF Find, TypeOK
  <2>2. LockInv'
    BY <1>1 DEF Find, LockInv
  <2>3. WorkInv' /\ ToldInv' /\ MemInv'
    BY <1>1 DEF Find, TypeOK, WorkInv, ToldInv, Early, MemInv
  <2>4. RecInv' /\ ResultInv' /\ AlienInv'
    BY <1>1 DEF Find, RecInv, RecAt, ResultInv, ResultAt, AlienInv
  <2>5. OwnerInv' /\ MarkInv'
    BY <1>1 DEF Find, OwnerInv, OwnerAt, MarkInv, MarkAt
  <2> QED
    BY <2>1, <2>2, <2>3, <2>4, <2>5 DEF SyncInv
<1>2. CASE FindNothing(i)
  <2>1. TypeOK'
    BY <1>2 DEF FindNothing, TypeOK
  <2>2. LockInv'
    BY <1>2 DEF FindNothing, LockInv
  <2>3. WorkInv' /\ ToldInv' /\ MemInv'
    BY <1>2 DEF FindNothing, WorkInv, ToldInv, Early, MemInv, Resolving
  <2>4. RecInv' /\ ResultInv' /\ AlienInv'
    BY <1>2 DEF FindNothing, RecInv, RecAt, ResultInv, ResultAt, AlienInv
  <2>5. OwnerInv' /\ MarkInv'
    BY <1>2 DEF FindNothing, LockInv, OwnerInv, MarkInv, MarkAt
  <2> QED
    BY <2>1, <2>2, <2>3, <2>4, <2>5 DEF SyncInv
<1>3. CASE Recover(i)
  <2>1. TypeOK'
    BY <1>3 DEF Recover, TypeOK
  <2>2. LockInv'
    BY <1>3 DEF Recover, TypeOK, LockInv
  <2>3. WorkInv' /\ ToldInv' /\ MemInv'
    BY <1>3 DEF Recover, WorkInv, ToldInv, MemInv, Resolving
  <2>4. RecInv' /\ ResultInv' /\ AlienInv'
    BY <1>3 DEF Recover, RecInv, RecAt, ResultInv, ResultAt, AlienInv
  <2>5. OwnerInv' /\ MarkInv'
    BY <1>3 DEF Recover, LockInv, WorkInv, OwnerInv, MarkInv, MarkAt
  <2> QED
    BY <2>1, <2>2, <2>3, <2>4, <2>5 DEF SyncInv
<1>4. CASE RecoverRefused(i)
  <2>1. TypeOK'
    BY <1>4 DEF RecoverRefused, Tell, Forget, TypeOK
  <2>2. LockInv'
    BY <1>4 DEF RecoverRefused, Forget, LockInv
  <2>3. WorkInv' /\ ToldInv' /\ MemInv'
    BY <1>4 DEF RecoverRefused, Tell, Forget, TypeOK, WorkInv, ToldInv, Early,
       MemInv
  <2>4. RecInv' /\ ResultInv' /\ AlienInv'
    BY <1>4 DEF RecoverRefused, Tell, RecInv, RecAt, ResultInv, ResultAt,
       AlienInv
  <2>5. OwnerInv' /\ MarkInv'
    BY <1>4 DEF RecoverRefused, Forget, OwnerInv, OwnerAt, MarkInv, MarkAt
  <2> QED
    BY <2>1, <2>2, <2>3, <2>4, <2>5 DEF SyncInv
<1>5. CASE Cancel(i)
  <2>1. TypeOK'
    BY <1>5 DEF Cancel, Tell, TypeOK
  <2>2. LockInv'
    BY <1>5 DEF Cancel, LockInv
  <2>3. WorkInv' /\ ToldInv' /\ MemInv'
    BY <1>5 DEF Cancel, Tell, TypeOK, WorkInv, ToldInv, Early, MemInv,
       Resolving
  <2>4. RecInv' /\ ResultInv' /\ AlienInv'
    BY <1>5 DEF Cancel, Tell, WorkInv, RecInv, RecAt, Empty, ResultInv,
       ResultAt, AlienInv
  <2>5. OwnerInv' /\ MarkInv'
    BY <1>5 DEF Cancel, OwnerInv, OwnerAt, MarkInv, MarkAt
  <2> QED
    BY <2>1, <2>2, <2>3, <2>4, <2>5 DEF SyncInv
<1>6. CASE Acquire(i)
  <2>1. TypeOK'
    BY <1>6 DEF Acquire, TypeOK
  <2>2. LockInv'
    <3>1. /\ \A j \in Inv : pc[j] \notin Locked /\ row[j] \notin Open
          /\ work[i] = i /\ UNCHANGED work
      BY <1>6 DEF Acquire, LockInv, WorkInv, Resolving
    <3>2. /\ pc'[i] = "acquired" /\ \A j \in Inv : j # i => pc'[j] = pc[j]
          /\ row'[i] = "PREPARED" /\ \A j \in Inv : j # i => row'[j] = row[j]
      BY <1>6 DEF Acquire, TypeOK
    <3> QED
      BY <1>6, <3>1, <3>2 DEF Acquire, LockInv
  <2>3. WorkInv' /\ ToldInv' /\ MemInv'
    BY <1>6 DEF Acquire, TypeOK, WorkInv, ToldInv, Early, MemInv, Resolving
  <2>4. RecInv' /\ ResultInv' /\ AlienInv'
    BY <1>6 DEF Acquire, RecInv, RecAt, ResultInv, ResultAt, AlienInv
  <2>5. OwnerInv' /\ MarkInv'
    BY <1>6 DEF Acquire, WorkInv, OwnerInv, OwnerAt, MarkInv, MarkAt
  <2> QED
    BY <2>1, <2>2, <2>3, <2>4, <2>5 DEF SyncInv
<1>7. CASE AcquireRefused(i)
  <2>1. TypeOK'
    BY <1>7 DEF AcquireRefused, Tell, TypeOK
  <2>2. LockInv'
    BY <1>7 DEF AcquireRefused, LockInv
  <2>3. WorkInv' /\ ToldInv' /\ MemInv'
    BY <1>7 DEF AcquireRefused, Tell, TypeOK, WorkInv, ToldInv, Early, MemInv,
       Resolving
  <2>4. RecInv' /\ ResultInv' /\ AlienInv'
    BY <1>7 DEF AcquireRefused, Tell, WorkInv, RecInv, RecAt, Empty, ResultInv,
       ResultAt, AlienInv
  <2>5. OwnerInv' /\ MarkInv'
    BY <1>7 DEF AcquireRefused, OwnerInv, OwnerAt, MarkInv, MarkAt
  <2> QED
    BY <2>1, <2>2, <2>3, <2>4, <2>5 DEF SyncInv
<1>8. CASE Record(i)
  <2>1. TypeOK'
    BY <1>8 DEF Record, Tell, Forget, TypeOK
  <2>2. LockInv'
    <3>1. /\ holder = i /\ pc[i] \in Locked /\ row[work[i]] \in Open /\ work[i] \in Inv
          /\ \A j \in Inv : j # i => pc[j] \notin Locked
      BY <1>8 DEF Record, LockInv, TypeOK
    <3>2. /\ pc'[i] \notin Locked /\ \A j \in Inv : j # i => pc'[j] = pc[j]
          /\ row'[work[i]] \notin Open
          /\ \A v \in Inv : v # work[i] => row'[v] = row[v]
      BY <1>8, <3>1 DEF Record, TypeOK
    <3> QED
      BY <1>8, <3>1, <3>2 DEF Record, LockInv
  <2>3. WorkInv' /\ ToldInv' /\ MemInv'
    BY <1>8 DEF Record, Tell, Forget, TypeOK, LockInv, WorkInv, ToldInv, Early,
       MemInv
  <2>4. RecInv' /\ ResultInv' /\ AlienInv'
    BY <1>8 DEF Record, Tell, TypeOK, MarkInv, MarkAt, RecInv, RecAt,
       ResultInv, ResultAt, AlienInv
  <2>5. OwnerInv' /\ MarkInv'
    BY <1>8 DEF Record, Tell, Forget, TypeOK, WorkInv, OwnerInv, OwnerAt,
       MarkInv, MarkAt
  <2> QED
    BY <2>1, <2>2, <2>3, <2>4, <2>5 DEF SyncInv
<1>9. CASE Close(i)
  <2>1. TypeOK'
    BY <1>9 DEF Close, Forget, TypeOK
  <2>2. LockInv'
    <3>1. /\ holder = i /\ pc[i] \in Locked /\ row[work[i]] \in Open /\ work[i] \in Inv
          /\ \A j \in Inv : j # i => pc[j] \notin Locked
      BY <1>9 DEF Close, LockInv, TypeOK
    <3>2. /\ pc'[i] \notin Locked /\ \A j \in Inv : j # i => pc'[j] = pc[j]
          /\ \A v \in Inv : v # work[i] => row'[v] = row[v]
      BY <1>9, <3>1 DEF Close, TypeOK
    <3> QED
      BY <1>9, <3>1, <3>2 DEF Close, LockInv
  <2>3. WorkInv' /\ ToldInv' /\ MemInv'
    BY <1>9 DEF Close, Forget, TypeOK, LockInv, WorkInv, ToldInv, Early, MemInv
  <2>4. RecInv' /\ ResultInv' /\ AlienInv'
    BY <1>9 DEF Close, RecInv, RecAt, ResultInv, ResultAt, AlienInv
  <2>5. OwnerInv' /\ MarkInv'
    BY <1>9 DEF Close, Forget, TypeOK, LockInv, WorkInv, OwnerInv, MarkInv,
       MarkAt
  <2> QED
    BY <2>1, <2>2, <2>3, <2>4, <2>5 DEF SyncInv
<1>10. CASE Crash(i)
  <2>1. TypeOK'
    BY <1>10 DEF Crash, Forget, TypeOK
  <2>2. LockInv'
    BY <1>10 DEF Crash, Forget, TypeOK, LockInv
  <2>3. WorkInv' /\ ToldInv' /\ MemInv'
    BY <1>10 DEF Crash, Forget, TypeOK, WorkInv, ToldInv, Early, MemInv
  <2>4. RecInv' /\ ResultInv' /\ AlienInv'
    BY <1>10 DEF Crash, RecInv, RecAt, ResultInv, ResultAt, AlienInv
  <2>5. OwnerInv' /\ MarkInv'
    BY <1>10 DEF Crash, Forget, TypeOK, OwnerInv, OwnerAt, MarkInv, MarkAt
  <2> QED
    BY <2>1, <2>2, <2>3, <2>4, <2>5 DEF SyncInv
<1> QED
  BY <1>1, <1>2, <1>3, <1>4, <1>5, <1>6, <1>7, <1>8, <1>9, <1>10
(* Another program touches the root.                                       *)
LEMMA AlienSteps ==
  ASSUME SyncAssumption, SyncInv, MoveRoot \/ \E i \in Inv : AddFile(i)
  PROVE  SyncInv'
<1> USE SyncAssumption DEF SyncAssumption, journal, local
<1>a. /\ TypeOK /\ LockInv /\ WorkInv /\ ToldInv /\ MemInv /\ RecInv
      /\ OwnerInv /\ MarkInv /\ ResultInv /\ AlienInv
  BY DEF SyncInv
<1>1. CASE MoveRoot
  <2>1. TypeOK' /\ LockInv' /\ WorkInv' /\ ToldInv' /\ MemInv'
    BY <1>a, <1>1 DEF MoveRoot, TypeOK, LockInv, WorkInv, ToldInv, MemInv
  <2>2. RecInv' /\ OwnerInv' /\ MarkInv' /\ ResultInv' /\ AlienInv'
    BY <1>a, <1>1 DEF MoveRoot, RecInv, RecAt, OwnerInv, OwnerAt, MarkInv,
       MarkAt, ResultInv, ResultAt, AlienInv
  <2> QED
    BY <2>1, <2>2 DEF SyncInv
<1>2. ASSUME NEW i \in Inv, AddFile(i) PROVE SyncInv'
  <2>1. dir[i] \in Directory /\ dir[i].at = "stage"
    BY <1>a, <1>2 DEF AddFile, TypeOK, Directory
  <2> DEFINE d == [dir[i] EXCEPT !.alien = TRUE]
  <2>2. /\ d \in Directory
        /\ d.at = dir[i].at /\ d.files = dir[i].files /\ d.torn = dir[i].torn
        /\ d.marker = dir[i].marker
    BY <2>1 DEF Directory
  <2>3. /\ dir' \in [Inv -> Directory] /\ dir'[i] = d
        /\ \A w \in Inv : w # i => dir'[w] = dir[w]
        /\ UNCHANGED <<away, row, rec, holder, work, mem, misjudged, pc, told>>
        /\ meddled' = TRUE
    BY <1>a, <1>2, <2>2 DEF AddFile, TypeOK, Directory
  <2> HIDE DEF d
  <2>4. /\ \A w \in Inv : /\ dir'[w].at = dir[w].at /\ dir'[w].files = dir[w].files
                          /\ dir'[w].torn = dir[w].torn /\ dir'[w].marker = dir[w].marker
                          /\ dir'[w].at = "final" => dir'[w].alien = dir[w].alien
    BY <2>1, <2>2, <2>3
  <2>5. TypeOK' /\ LockInv' /\ WorkInv' /\ ToldInv' /\ MemInv' /\ AlienInv'
    BY <1>a, <2>3 DEF TypeOK, Directory, LockInv, WorkInv, ToldInv, MemInv,
       AlienInv
  <2>6. RecInv'
    BY <1>a, <2>3, <2>4 DEF RecInv, RecAt, Empty, Written, Removed
  <2>7. ResultInv'
    BY <1>a, <2>3, <2>4 DEF ResultInv, ResultAt
  <2>8. OwnerInv' /\ MarkInv'
    BY <1>a, <2>3, <2>4 DEF OwnerInv, OwnerAt, MarkInv, MarkAt, TypeOK
  <2> QED
    BY <2>5, <2>6, <2>7, <2>8 DEF SyncInv
<1> QED
  BY <1>1, <1>2

(* Every step keeps the invariant.                                         *)
LEMMA SyncStep == ASSUME SyncAssumption PROVE SyncInv /\ [Next]_vars => SyncInv'
<1> SUFFICES ASSUME SyncInv, [Next]_vars PROVE SyncInv'
  OBVIOUS
<1>1. ASSUME NEW i \in Inv, Step(i) PROVE SyncInv'
  BY <1>1, OwnerSteps, ResolverSteps, OtherSteps DEF Step
<1>2. CASE UNCHANGED vars
  BY <1>2 DEF vars, SyncInv, TypeOK, LockInv, WorkInv, ToldInv, MemInv, RecInv,
     RecAt, OwnerInv, OwnerAt, MarkInv, MarkAt, ResultInv, ResultAt, AlienInv
<1> QED
  BY <1>1, <1>2, AlienSteps DEF Next

-------------------------------------------------------------------------------
(* The invariant holds at first: there is no directory and no operation.   *)
LEMMA InitSync == ASSUME SyncAssumption PROVE Init => SyncInv
<1> SUFFICES ASSUME Init PROVE SyncInv
  OBVIOUS
<1> USE SyncAssumption DEF SyncAssumption
<1>1. \A i \in Inv : /\ dir[i] = NoDir /\ row[i] = "absent" /\ rec[i] = None /\ pc[i] = "new"
                     /\ work[i] = i /\ mem[i] = None /\ told[i] = "nothing"
  BY DEF Init
<1>2. /\ NoDir \in Directory /\ NoDir.at = "none" /\ NoDir.files = 0 /\ ~ NoDir.torn
      /\ ~ NoDir.alien
  BY DEF NoDir, Directory
<1>3. TypeOK
  BY <1>2 DEF Init, TypeOK, Directory, Records
<1>4. LockInv
  BY <1>1 DEF LockInv, Init, Locked, Working, Staging, Open
<1>5. WorkInv /\ ToldInv /\ MemInv
  BY <1>1 DEF WorkInv, ToldInv, MemInv
<1>6. RecInv /\ ResultInv /\ AlienInv
  BY <1>1, <1>2 DEF RecInv, RecAt, Empty, ResultInv, ResultAt, AlienInv
<1>7. OwnerInv /\ MarkInv
  BY <1>1 DEF OwnerInv, MarkInv, MarkAt, Locked, Working, Staging
<1> QED
  BY <1>3, <1>4, <1>5, <1>6, <1>7 DEF SyncInv

(* Directory, journal and record are of their types at every moment        *)
(* (core/directory_mutation.py, gedcom/sync_publication.py).               *)
THEOREM SyncTyped ==
  ASSUME SyncAssumption
  PROVE  Spec => []TypeOK
<1>1. SyncInv => TypeOK
  BY DEF SyncInv
<1> QED
  BY InitSync, SyncStep, <1>1, PTL DEF Spec

(* A generation under its release name is whole at every moment, and the   *)
(* journal tells the truth about it.                                       *)
THEOREM AlwaysWhole ==
  ASSUME SyncAssumption
  PROVE  Spec => []GenerationsAreWhole
<1>1. SyncInv => GenerationsAreWhole
  <2> SUFFICES ASSUME SyncInv, NEW i \in Inv
               PROVE  /\ dir[i].at = "final" => Whole(dir[i])
                      /\ row[i] = "COMMITTED" => dir[i].at = "final" /\ ~ dir[i].marker
                                                 /\ ~ dir[i].alien
                      /\ row[i] = "ABORTED" /\ i \notin misjudged => dir[i].at = "none"
    BY DEF GenerationsAreWhole
  <2>1. RecAt(i) /\ ResultAt(i)
    BY DEF SyncInv, RecInv, ResultInv
  <2> QED
    BY <2>1 DEF RecAt, Empty, Written, Removed, ResultAt, Whole
<1> QED
  BY InitSync, SyncStep, <1>1, PTL DEF Spec

(* What sync update or rebase tells its user stays true, whatever happens  *)
(* afterwards.                                                             *)
THEOREM ReportsStayTrue ==
  ASSUME SyncAssumption
  PROVE  Spec => []ReportsHold
<1>1. SyncInv => ReportsHold
  BY DEF SyncInv, ResultInv, ResultAt, ReportsHold
<1> QED
  BY InitSync, SyncStep, <1>1, PTL DEF Spec

(* The next invocation can finish what was interrupted, but where the code *)
(* fails closed on purpose.                                                *)
THEOREM AlwaysRecoverable ==
  ASSUME SyncAssumption
  PROVE  Spec => []RecoveryIsPossible
<1>1. SyncInv => RecoveryIsPossible
  <2> SUFFICES ASSUME SyncInv, ~ meddled, NEW w \in Inv, rec[w] # None, ~ Unrecorded(w)
               PROVE  \/ dir[w].at = "none"
                      \/ dir[w].at = "stage" /\ Proven(w, rec[w])
                      \/ dir[w].at = "final" /\ rec[w].complete /\ AsRecorded(w, rec[w])
    BY DEF RecoveryIsPossible
  <2>1. /\ RecAt(w) /\ ~ dir[w].alien /\ rec[w] \in Card /\ dir[w] \in Directory
        /\ dir[w].at \in {"none", "stage", "final"}
    BY RecordsAre DEF SyncInv, RecInv, AlienInv, TypeOK, Directory
  <2>2. CASE dir[w].at = "final"
    BY <2>1, <2>2 DEF RecAt, Written, Removed, AsRecorded
  <2>3. CASE dir[w].at = "stage"
    BY <2>1, <2>3 DEF RecAt, Written, Removed, AsRecorded, Proven, Unrecorded,
       Card, Directory
  <2> QED
    BY <2>1, <2>2, <2>3
<1> QED
  BY InitSync, SyncStep, <1>1, PTL DEF Spec
===============================================================================
