--------------------------- MODULE JobManagerProofs ---------------------------
(***************************************************************************)
(* JobsHold, for any jobs and keys, any pool and any queue.  Slots and     *)
(* lock references are counted: free slots and the threads that hold one   *)
(* make max_pending (SlotInv), the references of a lock are the jobs that  *)
(* use it (TableInv).  Each is given back by one of three threads - the    *)
(* submission that fails, the cancellation that withdraws the job, the     *)
(* worker that ends it - and the control states of the three and of the    *)
(* future say that no two of them ever do (SubmittedInv, FutureInv,        *)
(* WorkerInv).                                                             *)
(***************************************************************************)
EXTENDS JobManager, FiniteSetTheorems, TLAPS

Before == {"idle", "locking", "starting", "body"}
Finished == {"unlocking", "dereferencing", "releasing", "done"}
Owning == {"starting", "body", "returned"}
Between == {"returned", "cancelling", "failing", "completing"}
Mines == UNION {[Keys[j] -> Job \cup {None}] : j \in Job}

TypeInv ==
  /\ closed \in BOOLEAN /\ down \in BOOLEAN
  /\ free \in Nat
  /\ locks \in [Key -> [lock : Job \cup {None}, refs : Nat]]
  /\ mine \in [Job -> Mines]
  /\ submitter \in [Job -> {"new", "slot", "admitted", "enqueued", "done", "refused"}]
  /\ queue \in Seq(Job)
  /\ future \in [Job -> {"none", "pending", "running", "cancelled", "done"}]
  /\ known \subseteq Job
  /\ worker \in [Job -> {"idle", "locking", "starting", "body", "returned", "cancelling",
                         "failing", "completing", "unlocking", "dereferencing",
                         "releasing", "done"}]
  /\ got \in [Job -> SUBSET Key]
  /\ \A j \in Job : got[j] \subseteq Keys[j]
  /\ state \in [Job -> {"absent"} \cup Active \cup Terminal]
  /\ accepted \subseteq Job /\ calls \subseteq Job /\ token \subseteq Job
  /\ result \in [Job -> {"none", "returned", "retained", "gone"}]
  /\ discarded \subseteq Job /\ listed \subseteq Job
  /\ cleanups \in [Job -> Nat]
  /\ stopping \in {"no", "scanned", "cancelling", "over"}

(* The thread that submits, and what there is of its job.                  *)
SubmittedInv ==
  \A j \in Job :
    /\ submitter[j] \in {"new", "slot", "refused"} => state[j] = "absent" /\ future[j] = "none"
    /\ submitter[j] = "admitted" => state[j] = "queued" /\ future[j] = "none"
    /\ submitter[j] \in {"enqueued", "done"} => state[j] # "absent" /\ future[j] # "none"
    /\ j \in known => submitter[j] = "done"

(* The future, and the worker.                                             *)
FutureInv ==
  \A j \in Job :
    /\ future[j] \in {"none", "pending", "cancelled"} <=> worker[j] = "idle"
    /\ future[j] = "done" <=> worker[j] = "done"
    /\ future[j] = "pending" => state[j] = "queued"
    /\ future[j] = "cancelled" => state[j] = "cancelled"

(* The worker, and the snapshot.                                           *)
WorkerInv ==
  \A j \in Job :
    /\ worker[j] = "idle" => state[j] \in {"absent", "queued", "cancelled"}
    /\ worker[j] \in {"locking", "starting"} => state[j] = "queued"
    /\ worker[j] \in {"body"} \cup Between => state[j] \in Active
    /\ worker[j] \in Finished => state[j] \in Terminal

(* The locks a worker has.                                                 *)
GotInv ==
  /\ \A j \in Job :
       /\ worker[j] \in {"idle", "dereferencing", "releasing", "done"} => got[j] = {}
       /\ worker[j] \in Owning => got[j] = Keys[j]
  /\ \A i, j \in Job : \A k \in got[i] \cap got[j] : i # j => mine[i][k] # mine[j][k]

(* The result of a function, before its job is over.                       *)
ResultInv ==
  \A j \in Job :
    /\ worker[j] \in Before => result[j] = "none"
    /\ result[j] = "returned" => worker[j] \in {"returned", "completing"}

(* Shutdown.                                                               *)
StopInv ==
  /\ stopping = "no" <=> ~ closed
  /\ down => stopping = "over"
  /\ closed => \A j \in Cleaned : state[j] # "absent" => j \in discarded
  /\ stopping \in {"cancelling", "over"} =>
       \A j \in Job : state[j] \in Active => j \in accepted \cup listed
  /\ stopping = "over" => listed = {}
  /\ calls \subseteq accepted

(* Only so many jobs have been submitted yet.                              *)
FiniteInv == IsFiniteSet({j \in Job : submitter[j] # "new"})

Holders == {j \in Job : HoldsSlot(j)}
Users(k) == {j \in Job : k \in Keys[j] /\ References(j)}

SlotInv == free + Cardinality(Holders) = MaxPending

TableInv ==
  \A k \in Key : /\ locks[k].refs = Cardinality(Users(k))
                 /\ \A j \in Users(k) : mine[j][k] = locks[k].lock

JobInv ==
  /\ TypeInv /\ SubmittedInv /\ FutureInv /\ WorkerInv /\ GotInv /\ ResultInv
  /\ ResultsReleasedOnce /\ AcceptedNeverCompletes /\ StopInv
  /\ FiniteInv /\ SlotInv /\ TableInv

-------------------------------------------------------------------------------
(* The threads that hold a slot, and those that use a key, are finitely    *)
(* many.                                                                   *)
LEMMA Countable ==
  ASSUME SubmittedInv, FutureInv, FiniteInv
  PROVE  IsFiniteSet(Holders) /\ \A k \in Key : IsFiniteSet(Users(k))
<1>1. Holders \subseteq {j \in Job : submitter[j] # "new"}
  BY DEF Holders, HoldsSlot
<1>2. \A k \in Key : Users(k) \subseteq {j \in Job : submitter[j] # "new"}
  BY DEF Users, References, SubmittedInv
<1> QED
  BY <1>1, <1>2, FS_Subset DEF FiniteInv

(* A step that moves no slot.                                              *)
LEMMA SlotStutter ==
  ASSUME SlotInv, free' = free, \A j \in Job : HoldsSlot(j)' <=> HoldsSlot(j)
  PROVE  SlotInv'
<1>1. Holders' = Holders
  BY DEF Holders
<1> QED
  BY <1>1 DEF SlotInv

(* One that takes a slot.                                                  *)
LEMMA SlotTaken ==
  ASSUME SlotInv, IsFiniteSet(Holders), free \in Nat, NEW j \in Job, free' = free - 1,
         ~ HoldsSlot(j), HoldsSlot(j)',
         \A i \in Job : i # j => (HoldsSlot(i)' <=> HoldsSlot(i))
  PROVE  SlotInv'
<1> USE JobManagerAssumption
<1>1. Holders' = Holders \cup {j} /\ j \notin Holders
  BY DEF Holders
<1>2. Cardinality(Holders') = Cardinality(Holders) + 1 /\ Cardinality(Holders) \in Nat
  BY <1>1, FS_AddElement, FS_CardinalityType
<1> QED
  BY <1>2 DEF SlotInv

(* One that gives a slot back.                                             *)
LEMMA SlotReturned ==
  ASSUME SlotInv, IsFiniteSet(Holders), free \in Nat, NEW j \in Job, free' = free + 1,
         HoldsSlot(j), ~ HoldsSlot(j)',
         \A i \in Job : i # j => (HoldsSlot(i)' <=> HoldsSlot(i))
  PROVE  SlotInv'
<1> USE JobManagerAssumption
<1>1. Holders' = Holders \ {j} /\ j \in Holders
  BY DEF Holders
<1>2. Cardinality(Holders') = Cardinality(Holders) - 1 /\ Cardinality(Holders) \in Nat
  BY <1>1, FS_RemoveElement, FS_CardinalityType
<1> QED
  BY <1>2 DEF SlotInv

(* A step that moves no reference.                                         *)
LEMMA TableStutter ==
  ASSUME TableInv, UNCHANGED <<locks, mine>>,
         \A j \in Job : References(j)' <=> References(j)
  PROVE  TableInv'
<1>1. \A k \in Key : Users(k)' = Users(k)
  BY DEF Users
<1> QED
  BY <1>1 DEF TableInv

(* The table after a job has referenced its keys, and after it has given   *)
(* them back.                                                              *)
LEMMA TableTypes ==
  ASSUME TypeInv, NEW j \in Job
  PROVE  /\ \A k \in Key : LockFor(j, k) \in Job \cup {None}
         /\ Referenced(j) \in [Key -> [lock : Job \cup {None}, refs : Nat]]
         /\ [k \in Keys[j] |-> LockFor(j, k)] \in Mines
<1>1. \A k \in Key : locks[k].lock \in Job \cup {None} /\ locks[k].refs \in Nat
  BY DEF TypeInv
<1>2. \A k \in Key : LockFor(j, k) \in Job \cup {None}
  BY <1>1 DEF LockFor
<1>3. Referenced(j) \in [Key -> [lock : Job \cup {None}, refs : Nat]]
  BY <1>1, <1>2 DEF Referenced, TypeInv
<1>4. Keys[j] \subseteq Key
  BY DEF Key
<1>5. [k \in Keys[j] |-> LockFor(j, k)] \in [Keys[j] -> Job \cup {None}]
  BY <1>2, <1>4
<1> QED
  BY <1>2, <1>3, <1>5 DEF Mines

(* A job that references its keys: all users of a key still have the one   *)
(* lock object, which is new when nobody used the key.                     *)
LEMMA ReferencesTaken ==
  ASSUME TypeInv, TableInv, NEW j \in Job,
         \A k \in Key : IsFiniteSet(Users(k)),
         locks' = Referenced(j),
         mine' = [mine EXCEPT ![j] = [k \in Keys[j] |-> LockFor(j, k)]],
         ~ References(j), References(j)',
         \A i \in Job : i # j => (References(i)' <=> References(i))
  PROVE  TableInv'
<1> SUFFICES ASSUME NEW k \in Key PROVE TableInv!(k)'
  BY DEF TableInv
<1>1. locks[k].refs = Cardinality(Users(k)) /\ \A i \in Users(k) : mine[i][k] = locks[k].lock
  BY DEF TableInv
<1>2. CASE k \notin Keys[j]
  <2>1. Users(k)' = Users(k) /\ j \notin Users(k)
    BY <1>2 DEF Users
  <2>2. locks'[k] = locks[k]
    BY <1>2 DEF Referenced
  <2>3. \A i \in Users(k) : mine'[i] = mine[i]
    BY <2>1 DEF TypeInv, Users
  <2> QED
    BY <1>1, <2>1, <2>2, <2>3
<1>3. CASE k \in Keys[j]
  <2>1. Users(k)' = Users(k) \cup {j} /\ j \notin Users(k)
    BY <1>3 DEF Users
  <2>2. Cardinality(Users(k)') = Cardinality(Users(k)) + 1 /\
       Cardinality(Users(k)) \in Nat
    BY <2>1, FS_AddElement, FS_CardinalityType
  <2>3. locks'[k].lock = LockFor(j, k) /\ locks'[k].refs = locks[k].refs + 1
    BY <1>3 DEF Referenced
  <2>4. mine'[j][k] = LockFor(j, k) /\ \A i \in Users(k) : mine'[i] = mine[i]
    BY <1>3, <2>1 DEF TypeInv, Users
  <2>5. \A i \in Users(k) : locks[k].lock = LockFor(j, k)
    <3> TAKE i \in Users(k)
    <3>1. Cardinality(Users(k)) # 0
      BY FS_EmptySet
    <3> QED
      BY <1>1, <3>1 DEF LockFor
  <2> QED
    BY <1>1, <2>1, <2>2, <2>3, <2>4, <2>5
<1> QED
  BY <1>2, <1>3

(* A job that gives its references back.                                   *)
LEMMA ReferencesReturned ==
  ASSUME TypeInv, TableInv, NEW j \in Job,
         \A k \in Key : IsFiniteSet(Users(k)),
         locks' = Dereferenced(j), mine' = mine,
         References(j), ~ References(j)',
         \A i \in Job : i # j => (References(i)' <=> References(i))
  PROVE  TableInv' /\ locks' \in [Key -> [lock : Job \cup {None}, refs : Nat]]
<1>1. ASSUME NEW k \in Key
      PROVE  /\ TableInv!(k)'
             /\ Dereferenced(j)[k] \in [lock : Job \cup {None}, refs : Nat]
  <2>1. /\ locks[k].refs = Cardinality(Users(k))
        /\ \A i \in Users(k) : mine[i][k] = locks[k].lock
        /\ locks[k] \in [lock : Job \cup {None}, refs : Nat]
    BY DEF TableInv, TypeInv
  <2>2. CASE k \notin Keys[j]
    <3>1. Users(k)' = Users(k)
      BY <2>2 DEF Users
    <3>2. locks'[k] = locks[k]
      BY <2>2 DEF Dereferenced
    <3> QED
      BY <2>1, <3>1, <3>2
  <2>3. CASE k \in Keys[j]
    <3>1. Users(k)' = Users(k) \ {j} /\ j \in Users(k)
      BY <2>3 DEF Users
    <3>2. Cardinality(Users(k)') = Cardinality(Users(k)) - 1 /\ Cardinality(Users(k)) \in Nat
      BY <3>1, FS_RemoveElement, FS_CardinalityType
    <3>3. Cardinality(Users(k)') \in Nat
      BY <3>1, FS_RemoveElement, FS_CardinalityType
    <3>4. CASE locks[k].refs = 1
      <4>1. locks'[k] = [lock |-> None, refs |-> 0]
        BY <2>3, <3>4 DEF Dereferenced
      <4>2. Users(k)' = {}
        BY <2>1, <3>1, <3>2, <3>4, FS_RemoveElement, FS_EmptySet
      <4> QED
        BY <2>1, <3>2, <3>4, <4>1, <4>2
    <3>5. CASE locks[k].refs # 1
      <4>1. locks'[k] = [locks[k] EXCEPT !.refs = @ - 1]
        BY <2>3, <3>5 DEF Dereferenced
      <4>2. locks'[k].lock = locks[k].lock /\ locks'[k].refs = locks[k].refs - 1
        BY <2>1, <4>1
      <4> QED
        BY <2>1, <3>1, <3>2, <3>3, <4>1, <4>2
    <3> QED
      BY <3>4, <3>5
  <2> QED
    BY <2>2, <2>3
<1>2. locks' = [k \in Key |-> Dereferenced(j)[k]]
  BY DEF Dereferenced
<1> QED
  BY <1>1, <1>2 DEF TableInv

(* What becomes of results that are dropped.                               *)
LEMMA DroppedEffect ==
  ASSUME TypeInv, NEW J \in SUBSET Job, Dropped(J)
  PROVE  /\ result' \in [Job -> {"none", "returned", "retained", "gone"}]
         /\ cleanups' \in [Job -> Nat]
         /\ \A i \in Job :
              IF i \in J /\ HasResult(i)
                THEN result'[i] = "gone" /\ cleanups'[i] = cleanups[i] + 1
                ELSE result'[i] = result[i] /\ cleanups'[i] = cleanups[i]
<1>1. \A i \in Job : result[i] \in {"none", "returned", "retained", "gone"}
      /\ cleanups[i] \in Nat
  BY DEF TypeInv
<1> QED
  BY <1>1 DEF Dropped

-------------------------------------------------------------------------------
(* A cancellation, by cancel or by shutdown: the job is withdrawn, or has  *)
(* to notice its token, or is left as it is.                               *)
Accepted(j) ==
  /\ state[j] \in Active
  /\ accepted' = accepted \cup {j} /\ calls' = calls \cup {j}
  /\ listed' \subseteq listed /\ listed \ {j} \subseteq listed'
  /\ UNCHANGED <<token, deferring, queue, worker, got, submission, results, closed, down,
                 stopping>>

Withdrawn(j) == Accepted(j) /\ Withdraw(j)
Noted(j) == Accepted(j) /\ UNCHANGED <<future, state, slots>>
Skipped(j) ==
  /\ state[j] \notin Active \/ j \in calls
  /\ listed' = listed \ {j}
  /\ UNCHANGED <<submission, execution, slots, state, cancels, results, closed, down,
                 stopping>>

(* Nothing else happens in a cancellation.                                 *)
LEMMA CancelCases ==
  ASSUME NEW j \in Job, Cancel(j) \/ CancelListed(j)
  PROVE  Withdrawn(j) \/ Noted(j) \/ Skipped(j)
BY DEF Cancel, CancelListed, Accept, Withdrawn, Noted, Skipped, Accepted,
   ending, execution, cancels

(* A thread of the pool takes a job, or drops a cancelled one.             *)
Taking(j) ==
  /\ future[j] = "pending"
  /\ queue' \in Seq(Job)
  /\ future' = [future EXCEPT ![j] = "running"]
  /\ worker' = [worker EXCEPT ![j] = "locking"]
  /\ UNCHANGED <<got, submission, slots, state, cancels, results, ending>>

Dropping ==
  /\ queue' \in Seq(Job)
  /\ UNCHANGED <<future, worker, got, submission, slots, state, cancels, results, ending>>

(* Nothing else happens when a thread takes an item.                       *)
LEMMA TakeCases ==
  ASSUME TypeInv, Take
  PROVE  Dropping \/ \E j \in Job : Taking(j)
<1>1. Head(queue) \in Job /\ Tail(queue) \in Seq(Job)
  BY DEF Take, TypeInv
<1> QED
  BY <1>1 DEF Take, Dropping, Taking

(* Every step keeps the invariant.                                         *)
LEMMA JobStep == JobInv /\ [Next]_vars => JobInv'
<1> SUFFICES ASSUME TypeInv, SubmittedInv, FutureInv, WorkerInv, GotInv,
                   ResultInv, ResultsReleasedOnce, AcceptedNeverCompletes,
                   StopInv, FiniteInv, SlotInv, TableInv,
                  [Next]_vars
             PROVE JobInv'
  BY DEF JobInv
<1> USE JobManagerAssumption DEF submission, execution, slots, cancels, results, ending
<1>1. ASSUME NEW j \in Job, TakeSlot(j) PROVE JobInv'
  <2>1. FutureInv' /\ WorkerInv' /\ GotInv' /\ ResultInv' /\
       ResultsReleasedOnce' /\ AcceptedNeverCompletes' /\ StopInv'
    BY <1>1 DEF TakeSlot, Submits, FutureInv, WorkerInv, Active, Terminal,
       Finished, Between, GotInv, Owning, ResultInv, Before,
       ResultsReleasedOnce, AcceptedNeverCompletes, StopInv
  <2>2. TypeInv'
    BY <1>1 DEF TakeSlot, Submits, TypeInv, Active, Terminal
  <2>3. SubmittedInv'
    BY <1>1 DEF TakeSlot, Submits, TypeInv, Active, Terminal, SubmittedInv
  <2>4. FiniteInv'
    <3>1. {i \in Job : submitter'[i] # "new"} = {i \in Job : submitter[i] # "new"} \cup {j}
      BY <1>1 DEF TakeSlot, Submits, TypeInv
    <3> QED
      BY <3>1, FS_AddElement, SMTT(60) DEF FiniteInv
  <2>5. SlotInv'
    <3>1. ~ HoldsSlot(j) /\ HoldsSlot(j)'
      BY <1>1 DEF TakeSlot, Submits, HoldsSlot, TypeInv, SubmittedInv,
         FutureInv
    <3>2. \A i \in Job : i # j => (HoldsSlot(i)' <=> HoldsSlot(i))
      BY <1>1 DEF TakeSlot, Submits, HoldsSlot, TypeInv
    <3>3. free' = free - 1 /\ free \in Nat
      BY <1>1 DEF TakeSlot, Submits, TypeInv
    <3> QED
      BY <3>1, <3>2, <3>3, Countable, SlotTaken
  <2>6. TableInv'
    <3>1. \A i \in Job : References(i)' <=> References(i)
      BY <1>1 DEF TakeSlot, Submits, References, TypeInv, SubmittedInv,
         FutureInv, WorkerInv, Active, Terminal, Finished, Between
    <3> QED
      BY <1>1, <3>1, TableStutter DEF TakeSlot, Submits
  <2> QED
    BY <2>1, <2>2, <2>3, <2>4, <2>5, <2>6 DEF JobInv
<1>2. ASSUME NEW j \in Job, SubmitRefused(j) PROVE JobInv'
  <2>1. FutureInv' /\ WorkerInv' /\ GotInv' /\ ResultInv' /\
       ResultsReleasedOnce' /\ AcceptedNeverCompletes' /\ StopInv'
    BY <1>2 DEF SubmitRefused, Submits, FutureInv, WorkerInv, Active, Terminal,
       Finished, Between, GotInv, Owning, ResultInv, Before,
       ResultsReleasedOnce, AcceptedNeverCompletes, StopInv
  <2>2. TypeInv'
    BY <1>2 DEF SubmitRefused, Submits, TypeInv, Active, Terminal
  <2>3. SubmittedInv'
    BY <1>2 DEF SubmitRefused, Submits, TypeInv, Active, Terminal, SubmittedInv
  <2>4. FiniteInv'
    <3>1. {i \in Job : submitter'[i] # "new"} = {i \in Job : submitter[i] # "new"} \cup {j}
      BY <1>2 DEF SubmitRefused, Submits, TypeInv
    <3> QED
      BY <3>1, FS_AddElement, SMTT(60) DEF FiniteInv
  <2>5. SlotInv'
    <3>1. \A i \in Job : HoldsSlot(i)' <=> HoldsSlot(i)
      BY <1>2 DEF SubmitRefused, Submits, HoldsSlot, TypeInv, SubmittedInv,
         FutureInv
    <3> QED
      BY <1>2, <3>1, SlotStutter DEF SubmitRefused, Submits
  <2>6. TableInv'
    <3>1. \A i \in Job : References(i)' <=> References(i)
      BY <1>2 DEF SubmitRefused, Submits, References, TypeInv, SubmittedInv,
         FutureInv, WorkerInv, Active, Terminal, Finished, Between
    <3> QED
      BY <1>2, <3>1, TableStutter DEF SubmitRefused, Submits
  <2> QED
    BY <2>1, <2>2, <2>3, <2>4, <2>5, <2>6 DEF JobInv
<1>3. ASSUME NEW j \in Job, Admit(j) PROVE JobInv'
  <2>a. ~ References(j) /\ References(j)'
    BY <1>3 DEF Admit, Submits, References, TypeInv, SubmittedInv, FutureInv,
       WorkerInv, Active, Terminal, Finished
  <2>b. \A i \in Job : i # j => (References(i)' <=> References(i))
    BY <1>3 DEF Admit, Submits, References, TypeInv
  <2>c. locks' = Referenced(j)
        /\ mine' = [mine EXCEPT ![j] = [k \in Keys[j] |-> LockFor(j, k)]]
    BY <1>3 DEF Admit, Submits
  <2>d. TableInv'
    BY <2>a, <2>b, <2>c, Countable, ReferencesTaken
  <2>1. ResultInv'
    BY <1>3 DEF Admit, Submits, ResultInv, Before
  <2>2. TypeInv'
    <3>1. locks' \in [Key -> [lock : Job \cup {None}, refs : Nat]] /\ mine' \in [Job -> Mines]
      BY <2>c, TableTypes DEF TypeInv
    <3> QED
      BY <1>3, <3>1 DEF Admit, Submits, TypeInv, Active
  <2>3. SubmittedInv'
    BY <1>3 DEF Admit, Submits, TypeInv, Active, Terminal, SubmittedInv
  <2>4. FutureInv'
    BY <1>3 DEF Admit, Submits, FutureInv, SubmittedInv
  <2>5. WorkerInv'
    BY <1>3 DEF Admit, Submits, WorkerInv, Active, Terminal, Finished, Between,
       SubmittedInv
  <2>6. GotInv'
    BY <1>3 DEF Admit, Submits, GotInv, Owning, SubmittedInv, FutureInv
  <2>7. ResultsReleasedOnce'
    BY <1>3 DEF Admit, Submits, ResultsReleasedOnce, Terminal, SubmittedInv
  <2>8. AcceptedNeverCompletes'
    BY <1>3 DEF Admit, Submits, TypeInv, Active, Terminal,
       AcceptedNeverCompletes
  <2>9. StopInv'
    BY <1>3 DEF Admit, Submits, TypeInv, Active, Terminal, StopInv
  <2>10. FiniteInv'
    BY <1>3 DEF Admit, Submits, TypeInv, Active, Terminal, FiniteInv
  <2>11. SlotInv'
    <3>1. \A i \in Job : HoldsSlot(i)' <=> HoldsSlot(i)
      BY <1>3 DEF Admit, Submits, HoldsSlot, TypeInv, SubmittedInv, FutureInv
    <3> QED
      BY <1>3, <3>1, SlotStutter DEF Admit, Submits
  <2>12. TableInv'
    BY <2>d
  <2> QED
    BY <2>1, <2>2, <2>3, <2>4, <2>5, <2>6, <2>7, <2>8, <2>9, <2>10, <2>11,
       <2>12 DEF JobInv
<1>4. ASSUME NEW j \in Job, AdmitRefused(j) PROVE JobInv'
  <2>1. FutureInv' /\ WorkerInv' /\ GotInv' /\ ResultInv' /\
       ResultsReleasedOnce' /\ AcceptedNeverCompletes' /\ StopInv'
    BY <1>4 DEF AdmitRefused, Submits, FutureInv, WorkerInv, Active, Terminal,
       Finished, Between, GotInv, Owning, ResultInv, Before,
       ResultsReleasedOnce, AcceptedNeverCompletes, StopInv
  <2>2. TypeInv'
    BY <1>4 DEF AdmitRefused, Submits, TypeInv, Active, Terminal
  <2>3. SubmittedInv'
    BY <1>4 DEF AdmitRefused, Submits, TypeInv, Active, Terminal, SubmittedInv
  <2>4. FiniteInv'
    BY <1>4 DEF AdmitRefused, Submits, TypeInv, Active, Terminal, FiniteInv
  <2>5. SlotInv'
    <3>1. HoldsSlot(j) /\ ~ HoldsSlot(j)'
      BY <1>4 DEF AdmitRefused, Submits, HoldsSlot, TypeInv, SubmittedInv,
         FutureInv
    <3>2. \A i \in Job : i # j => (HoldsSlot(i)' <=> HoldsSlot(i))
      BY <1>4 DEF AdmitRefused, Submits, HoldsSlot, TypeInv
    <3>3. free' = free + 1 /\ free \in Nat
      BY <1>4 DEF AdmitRefused, Submits, TypeInv
    <3> QED
      BY <3>1, <3>2, <3>3, Countable, SlotReturned
  <2>6. TableInv'
    <3>1. \A i \in Job : References(i)' <=> References(i)
      BY <1>4 DEF AdmitRefused, Submits, References, TypeInv, SubmittedInv,
         FutureInv, WorkerInv, Active, Terminal, Finished, Between
    <3> QED
      BY <1>4, <3>1, TableStutter DEF AdmitRefused, Submits
  <2> QED
    BY <2>1, <2>2, <2>3, <2>4, <2>5, <2>6 DEF JobInv
<1>5. ASSUME NEW j \in Job, Enqueue(j) PROVE JobInv'
  <2>1. WorkerInv' /\ GotInv' /\ ResultInv' /\ ResultsReleasedOnce' /\
       AcceptedNeverCompletes' /\ StopInv'
    BY <1>5 DEF Enqueue, Submits, WorkerInv, Active, Terminal, Finished,
       Between, GotInv, Owning, ResultInv, Before, ResultsReleasedOnce,
       AcceptedNeverCompletes, StopInv
  <2>2. TypeInv'
    BY <1>5 DEF Enqueue, Submits, TypeInv, Active, Terminal
  <2>3. SubmittedInv'
    BY <1>5 DEF Enqueue, Submits, TypeInv, Active, Terminal, SubmittedInv
  <2>4. FutureInv'
    BY <1>5 DEF Enqueue, Submits, FutureInv, SubmittedInv
  <2>5. FiniteInv'
    BY <1>5 DEF Enqueue, Submits, TypeInv, Active, Terminal, FiniteInv
  <2>6. SlotInv'
    <3>1. \A i \in Job : HoldsSlot(i)' <=> HoldsSlot(i)
      BY <1>5 DEF Enqueue, Submits, HoldsSlot, TypeInv, SubmittedInv, FutureInv
    <3> QED
      BY <1>5, <3>1, SlotStutter DEF Enqueue, Submits
  <2>7. TableInv'
    <3>1. \A i \in Job : References(i)' <=> References(i)
      BY <1>5 DEF Enqueue, Submits, References, TypeInv, SubmittedInv,
         FutureInv, WorkerInv, Active, Terminal, Finished, Between
    <3> QED
      BY <1>5, <3>1, TableStutter DEF Enqueue, Submits
  <2> QED
    BY <2>1, <2>2, <2>3, <2>4, <2>5, <2>6, <2>7 DEF JobInv
<1>6. ASSUME NEW j \in Job, EnqueueFails(j) PROVE JobInv'
  <2>a. References(j) /\ ~ References(j)'
    BY <1>6 DEF EnqueueFails, Submits, References, TypeInv, SubmittedInv,
       FutureInv, WorkerInv, Active, Terminal, Finished
  <2>b. \A i \in Job : i # j => (References(i)' <=> References(i))
    BY <1>6 DEF EnqueueFails, Submits, References, TypeInv
  <2>c. locks' = Dereferenced(j) /\ mine' = mine
    BY <1>6 DEF EnqueueFails, Submits
  <2>d. TableInv' /\ locks' \in [Key -> [lock : Job \cup {None}, refs : Nat]]
    BY <2>a, <2>b, <2>c, Countable, ReferencesReturned
  <2>1. GotInv' /\ ResultInv'
    BY <1>6, <2>d DEF EnqueueFails, Submits, GotInv, Owning, ResultInv, Before
  <2>2. TypeInv'
    BY <1>6, <2>d DEF EnqueueFails, Submits, TypeInv, Active, Terminal
  <2>3. SubmittedInv'
    BY <1>6, <2>d DEF EnqueueFails, Submits, TypeInv, Active, Terminal,
       SubmittedInv
  <2>4. FutureInv'
    BY <1>6, <2>d DEF EnqueueFails, Submits, FutureInv, SubmittedInv
  <2>5. WorkerInv'
    BY <1>6, <2>d DEF EnqueueFails, Submits, WorkerInv, Active, Terminal,
       Finished, Between, SubmittedInv, FutureInv
  <2>6. ResultsReleasedOnce'
    BY <1>6, <2>d DEF EnqueueFails, Submits, ResultsReleasedOnce, Terminal,
       SubmittedInv
  <2>7. AcceptedNeverCompletes'
    BY <1>6, <2>d DEF EnqueueFails, Submits, TypeInv, Active, Terminal,
       AcceptedNeverCompletes
  <2>8. StopInv'
    BY <1>6, <2>d DEF EnqueueFails, Submits, TypeInv, Active, Terminal, StopInv
  <2>9. FiniteInv'
    BY <1>6, <2>d DEF EnqueueFails, Submits, TypeInv, Active, Terminal,
       FiniteInv
  <2>10. SlotInv'
    <3>1. HoldsSlot(j) /\ ~ HoldsSlot(j)'
      BY <1>6 DEF EnqueueFails, Submits, HoldsSlot, TypeInv, SubmittedInv,
         FutureInv
    <3>2. \A i \in Job : i # j => (HoldsSlot(i)' <=> HoldsSlot(i))
      BY <1>6 DEF EnqueueFails, Submits, HoldsSlot, TypeInv
    <3>3. free' = free + 1 /\ free \in Nat
      BY <1>6 DEF EnqueueFails, Submits, TypeInv
    <3> QED
      BY <3>1, <3>2, <3>3, Countable, SlotReturned
  <2>11. TableInv'
    BY <2>d
  <2> QED
    BY <2>1, <2>2, <2>3, <2>4, <2>5, <2>6, <2>7, <2>8, <2>9, <2>10, <2>11 DEF
       JobInv
<1>7. ASSUME NEW j \in Job, NoteFuture(j) PROVE JobInv'
  <2>1. FutureInv' /\ WorkerInv' /\ GotInv' /\ ResultInv' /\
       ResultsReleasedOnce' /\ AcceptedNeverCompletes' /\ StopInv'
    BY <1>7 DEF NoteFuture, Submits, FutureInv, WorkerInv, Active, Terminal,
       Finished, Between, GotInv, Owning, ResultInv, Before,
       ResultsReleasedOnce, AcceptedNeverCompletes, StopInv
  <2>2. TypeInv'
    BY <1>7 DEF NoteFuture, Submits, TypeInv, Active, Terminal
  <2>3. SubmittedInv'
    BY <1>7 DEF NoteFuture, Submits, TypeInv, Active, Terminal, SubmittedInv
  <2>4. FiniteInv'
    BY <1>7 DEF NoteFuture, Submits, TypeInv, Active, Terminal, FiniteInv
  <2>5. SlotInv'
    <3>1. \A i \in Job : HoldsSlot(i)' <=> HoldsSlot(i)
      BY <1>7 DEF NoteFuture, Submits, HoldsSlot, TypeInv, SubmittedInv,
         FutureInv
    <3> QED
      BY <1>7, <3>1, SlotStutter DEF NoteFuture, Submits
  <2>6. TableInv'
    <3>1. \A i \in Job : References(i)' <=> References(i)
      BY <1>7 DEF NoteFuture, Submits, References, TypeInv, SubmittedInv,
         FutureInv, WorkerInv, Active, Terminal, Finished, Between
    <3> QED
      BY <1>7, <3>1, TableStutter DEF NoteFuture, Submits
  <2> QED
    BY <2>1, <2>2, <2>3, <2>4, <2>5, <2>6 DEF JobInv
<1>8. ASSUME NEW j \in Job, Taking(j) PROVE JobInv'
  <2>1. ResultsReleasedOnce' /\ AcceptedNeverCompletes' /\ StopInv' /\
       FiniteInv'
    BY <1>8 DEF Taking, ResultsReleasedOnce, Terminal, AcceptedNeverCompletes,
       StopInv, Active, FiniteInv
  <2>2. TypeInv'
    BY <1>8 DEF Taking, TypeInv, Active, Terminal
  <2>3. SubmittedInv'
    BY <1>8 DEF Taking, TypeInv, Active, Terminal, SubmittedInv
  <2>4. FutureInv'
    BY <1>8 DEF Taking, TypeInv, Active, Terminal, FutureInv
  <2>5. WorkerInv'
    BY <1>8 DEF Taking, WorkerInv, Active, Terminal, Finished, Between,
       FutureInv
  <2>6. GotInv'
    BY <1>8 DEF Taking, TypeInv, Active, Terminal, GotInv, Owning
  <2>7. ResultInv'
    BY <1>8 DEF Taking, ResultInv, Before, FutureInv
  <2>8. SlotInv'
    <3>1. \A i \in Job : HoldsSlot(i)' <=> HoldsSlot(i)
      BY <1>8 DEF Taking, HoldsSlot, TypeInv, SubmittedInv, FutureInv
    <3> QED
      BY <1>8, <3>1, SlotStutter DEF Taking
  <2>9. TableInv'
    <3>1. \A i \in Job : References(i)' <=> References(i)
      BY <1>8 DEF Taking, References, TypeInv, SubmittedInv, FutureInv,
         WorkerInv, Active, Terminal, Finished, Between
    <3> QED
      BY <1>8, <3>1, TableStutter DEF Taking
  <2> QED
    BY <2>1, <2>2, <2>3, <2>4, <2>5, <2>6, <2>7, <2>8, <2>9 DEF JobInv
<1>9. ASSUME Dropping PROVE JobInv'
  <2>1. SubmittedInv' /\ FutureInv' /\ WorkerInv' /\ GotInv' /\ ResultInv' /\
       ResultsReleasedOnce' /\ AcceptedNeverCompletes' /\ StopInv' /\
       FiniteInv'
    BY <1>9 DEF Dropping, SubmittedInv, FutureInv, WorkerInv, Active, Terminal,
       Finished, Between, GotInv, Owning, ResultInv, Before,
       ResultsReleasedOnce, AcceptedNeverCompletes, StopInv, FiniteInv
  <2>2. TypeInv'
    BY <1>9 DEF Dropping, TypeInv, Active, Terminal
  <2>3. SlotInv'
    <3>1. \A i \in Job : HoldsSlot(i)' <=> HoldsSlot(i)
      BY <1>9 DEF Dropping, HoldsSlot, TypeInv, SubmittedInv, FutureInv
    <3> QED
      BY <1>9, <3>1, SlotStutter DEF Dropping
  <2>4. TableInv'
    <3>1. \A i \in Job : References(i)' <=> References(i)
      BY <1>9 DEF Dropping, References, TypeInv, SubmittedInv, FutureInv,
         WorkerInv, Active, Terminal, Finished, Between
    <3> QED
      BY <1>9, <3>1, TableStutter DEF Dropping
  <2> QED
    BY <2>1, <2>2, <2>3, <2>4 DEF JobInv
<1>10. ASSUME NEW j \in Job, LockNext(j) PROVE JobInv'
  <2>1. SubmittedInv' /\ FutureInv' /\ WorkerInv' /\ ResultInv' /\
       ResultsReleasedOnce' /\ AcceptedNeverCompletes' /\ StopInv' /\
       FiniteInv'
    BY <1>10 DEF LockNext, SubmittedInv, FutureInv, WorkerInv, Active,
       Terminal, Finished, Between, ResultInv, Before, ResultsReleasedOnce,
       AcceptedNeverCompletes, StopInv, FiniteInv
  <2>2. TypeInv'
    <3>1. PICK k \in Missing(j) : got' = [got EXCEPT ![j] = @ \cup {k}]
      BY <1>10 DEF LockNext
    <3>2. k \in Keys[j] /\ k \in Key
      BY DEF Missing, Key
    <3>3. got' \in [Job -> SUBSET Key] /\ \A i \in Job : got'[i] \subseteq Keys[i]
      BY <3>1, <3>2 DEF TypeInv
    <3> QED
      BY <1>10, <3>3 DEF LockNext, TypeInv
  <2>3. GotInv'
    <3>1. PICK k \in Missing(j) : ~ Taken(j, k) /\ got' = [got EXCEPT ![j] = @ \cup {k}]
      BY <1>10 DEF LockNext
    <3>2. got'[j] = got[j] \cup {k} /\ \A i \in Job \ {j} : got'[i] = got[i]
      BY <3>1 DEF TypeInv
    <3>3. \A i \in Job \ {j} : k \in got[i] => mine[i][k] # mine[j][k]
      BY <3>1 DEF Taken
    <3>4. worker[j] = "locking" /\ UNCHANGED <<worker, mine>>
      BY <1>10 DEF LockNext
    <3>5. ASSUME NEW i1 \in Job, NEW i2 \in Job, NEW l \in got'[i1] \cap got'[i2], i1 # i2
          PROVE  mine[i1][l] # mine[i2][l]
      BY <3>2, <3>3, <3>5 DEF GotInv
    <3>6. \A i \in Job :
            /\ worker[i] \in {"idle", "dereferencing", "releasing", "done"} => got'[i] = {}
            /\ worker[i] \in Owning => got'[i] = Keys[i]
      BY <3>2, <3>4 DEF GotInv, Owning
    <3> QED
      BY <3>4, <3>5, <3>6 DEF GotInv
  <2>4. SlotInv'
    <3>1. \A i \in Job : HoldsSlot(i)' <=> HoldsSlot(i)
      BY <1>10 DEF LockNext, HoldsSlot, TypeInv, SubmittedInv, FutureInv
    <3> QED
      BY <1>10, <3>1, SlotStutter DEF LockNext
  <2>5. TableInv'
    <3>1. \A i \in Job : References(i)' <=> References(i)
      BY <1>10 DEF LockNext, References, TypeInv, SubmittedInv, FutureInv,
         WorkerInv, Active, Terminal, Finished, Between
    <3> QED
      BY <1>10, <3>1, TableStutter DEF LockNext
  <2> QED
    BY <2>1, <2>2, <2>3, <2>4, <2>5 DEF JobInv
<1>11. ASSUME NEW j \in Job, GiveUpLocking(j) PROVE JobInv'
  <2>1. SubmittedInv' /\ ResultsReleasedOnce' /\ AcceptedNeverCompletes' /\
       StopInv' /\ FiniteInv'
    BY <1>11 DEF GiveUpLocking, Works, Cancelled, SubmittedInv,
       ResultsReleasedOnce, Terminal, AcceptedNeverCompletes, StopInv, Active,
       FiniteInv
  <2>2. TypeInv'
    BY <1>11 DEF GiveUpLocking, Works, Cancelled, TypeInv, Active, Terminal
  <2>3. FutureInv'
    BY <1>11 DEF GiveUpLocking, Works, Cancelled, TypeInv, Active, Terminal,
       FutureInv
  <2>4. WorkerInv'
    BY <1>11 DEF GiveUpLocking, Works, Cancelled, TypeInv, Active, Terminal,
       WorkerInv, Finished, Between
  <2>5. GotInv'
    BY <1>11 DEF GiveUpLocking, Works, Cancelled, TypeInv, Active, Terminal,
       GotInv, Owning
  <2>6. ResultInv'
    BY <1>11 DEF GiveUpLocking, Works, Cancelled, TypeInv, Active, Terminal,
       ResultInv, Before
  <2>7. SlotInv'
    <3>1. \A i \in Job : HoldsSlot(i)' <=> HoldsSlot(i)
      BY <1>11 DEF GiveUpLocking, Works, Cancelled, HoldsSlot, TypeInv,
         SubmittedInv, FutureInv
    <3> QED
      BY <1>11, <3>1, SlotStutter DEF GiveUpLocking, Works, Cancelled
  <2>8. TableInv'
    <3>1. \A i \in Job : References(i)' <=> References(i)
      BY <1>11 DEF GiveUpLocking, Works, Cancelled, References, TypeInv,
         SubmittedInv, FutureInv, WorkerInv, Active, Terminal, Finished,
         Between
    <3> QED
      BY <1>11, <3>1, TableStutter DEF GiveUpLocking, Works, Cancelled
  <2> QED
    BY <2>1, <2>2, <2>3, <2>4, <2>5, <2>6, <2>7, <2>8 DEF JobInv
<1>12. ASSUME NEW j \in Job, Locked(j) PROVE JobInv'
  <2>1. SubmittedInv' /\ ResultsReleasedOnce' /\ AcceptedNeverCompletes' /\
       StopInv' /\ FiniteInv'
    BY <1>12 DEF Locked, Works, Missing, SubmittedInv, ResultsReleasedOnce,
       Terminal, AcceptedNeverCompletes, StopInv, Active, FiniteInv
  <2>2. TypeInv'
    BY <1>12 DEF Locked, Works, Missing, TypeInv, Active, Terminal
  <2>3. FutureInv'
    BY <1>12 DEF Locked, Works, Missing, TypeInv, Active, Terminal, FutureInv
  <2>4. WorkerInv'
    BY <1>12 DEF Locked, Works, Missing, TypeInv, Active, Terminal, WorkerInv,
       Finished, Between
  <2>5. GotInv'
    <3>1. got[j] = Keys[j]
      BY <1>12 DEF Locked, Missing, TypeInv
    <3> QED
      BY <1>12, <3>1 DEF Locked, Works, TypeInv, GotInv, Owning
  <2>6. ResultInv'
    BY <1>12 DEF Locked, Works, Missing, TypeInv, Active, Terminal, ResultInv,
       Before
  <2>7. SlotInv'
    <3>1. \A i \in Job : HoldsSlot(i)' <=> HoldsSlot(i)
      BY <1>12 DEF Locked, Works, Missing, HoldsSlot, TypeInv, SubmittedInv,
         FutureInv
    <3> QED
      BY <1>12, <3>1, SlotStutter DEF Locked, Works, Missing
  <2>8. TableInv'
    <3>1. \A i \in Job : References(i)' <=> References(i)
      BY <1>12 DEF Locked, Works, Missing, References, TypeInv, SubmittedInv,
         FutureInv, WorkerInv, Active, Terminal, Finished, Between
    <3> QED
      BY <1>12, <3>1, TableStutter DEF Locked, Works, Missing
  <2> QED
    BY <2>1, <2>2, <2>3, <2>4, <2>5, <2>6, <2>7, <2>8 DEF JobInv
<1>13. ASSUME NEW j \in Job, Start(j) PROVE JobInv'
  <2>1. FiniteInv'
    BY <1>13 DEF Start, Works, FiniteInv
  <2>2. TypeInv'
    BY <1>13 DEF Start, Works, TypeInv, Active, Terminal
  <2>3. SubmittedInv'
    BY <1>13 DEF Start, Works, SubmittedInv, FutureInv
  <2>4. FutureInv'
    BY <1>13 DEF Start, Works, TypeInv, Active, Terminal, FutureInv
  <2>5. WorkerInv'
    BY <1>13 DEF Start, Works, TypeInv, Active, Terminal, WorkerInv, Finished,
       Between
  <2>6. GotInv'
    BY <1>13 DEF Start, Works, TypeInv, Active, Terminal, GotInv, Owning
  <2>7. ResultInv'
    BY <1>13 DEF Start, Works, TypeInv, Active, Terminal, ResultInv, Before
  <2>8. ResultsReleasedOnce'
    BY <1>13 DEF Start, Works, ResultsReleasedOnce, Terminal, ResultInv, Before
  <2>9. AcceptedNeverCompletes'
    BY <1>13 DEF Start, Works, TypeInv, Active, Terminal,
       AcceptedNeverCompletes
  <2>10. StopInv'
    BY <1>13 DEF Start, Works, StopInv, Active, WorkerInv, Terminal, Finished,
       Between
  <2>11. SlotInv'
    <3>1. \A i \in Job : HoldsSlot(i)' <=> HoldsSlot(i)
      BY <1>13 DEF Start, Works, HoldsSlot, TypeInv, SubmittedInv, FutureInv
    <3> QED
      BY <1>13, <3>1, SlotStutter DEF Start, Works
  <2>12. TableInv'
    <3>1. \A i \in Job : References(i)' <=> References(i)
      BY <1>13 DEF Start, Works, References, TypeInv, SubmittedInv, FutureInv,
         WorkerInv, Active, Terminal, Finished, Between
    <3> QED
      BY <1>13, <3>1, TableStutter DEF Start, Works
  <2> QED
    BY <2>1, <2>2, <2>3, <2>4, <2>5, <2>6, <2>7, <2>8, <2>9, <2>10, <2>11,
       <2>12 DEF JobInv
<1>14. ASSUME NEW j \in Job, Protect(j) PROVE JobInv'
  <2>1. TypeInv' /\ SubmittedInv' /\ FutureInv' /\ WorkerInv' /\ GotInv' /\
       ResultInv' /\ ResultsReleasedOnce' /\ AcceptedNeverCompletes' /\
       StopInv' /\ FiniteInv'
    BY <1>14 DEF Protect, TypeInv, Active, Terminal, SubmittedInv, FutureInv,
       WorkerInv, Finished, Between, GotInv, Owning, ResultInv, Before,
       ResultsReleasedOnce, AcceptedNeverCompletes, StopInv, FiniteInv
  <2>2. SlotInv'
    <3>1. \A i \in Job : HoldsSlot(i)' <=> HoldsSlot(i)
      BY <1>14 DEF Protect, HoldsSlot, TypeInv, SubmittedInv, FutureInv
    <3> QED
      BY <1>14, <3>1, SlotStutter DEF Protect
  <2>3. TableInv'
    <3>1. \A i \in Job : References(i)' <=> References(i)
      BY <1>14 DEF Protect, References, TypeInv, SubmittedInv, FutureInv,
         WorkerInv, Active, Terminal, Finished, Between
    <3> QED
      BY <1>14, <3>1, TableStutter DEF Protect
  <2> QED
    BY <2>1, <2>2, <2>3 DEF JobInv
<1>15. ASSUME NEW j \in Job, Unprotect(j) PROVE JobInv'
  <2>1. SubmittedInv' /\ ResultsReleasedOnce' /\ AcceptedNeverCompletes' /\
       StopInv' /\ FiniteInv'
    BY <1>15 DEF Unprotect, Works, SubmittedInv, ResultsReleasedOnce, Terminal,
       AcceptedNeverCompletes, StopInv, Active, FiniteInv
  <2>2. TypeInv'
    BY <1>15 DEF Unprotect, Works, TypeInv, Active, Terminal
  <2>3. FutureInv'
    BY <1>15 DEF Unprotect, Works, TypeInv, Active, Terminal, FutureInv
  <2>4. WorkerInv'
    BY <1>15 DEF Unprotect, Works, TypeInv, Active, Terminal, WorkerInv,
       Finished, Between
  <2>5. GotInv'
    BY <1>15 DEF Unprotect, Works, TypeInv, Active, Terminal, GotInv, Owning
  <2>6. ResultInv'
    BY <1>15 DEF Unprotect, Works, TypeInv, Active, Terminal, ResultInv, Before
  <2>7. SlotInv'
    <3>1. \A i \in Job : HoldsSlot(i)' <=> HoldsSlot(i)
      BY <1>15 DEF Unprotect, Works, HoldsSlot, TypeInv, SubmittedInv,
         FutureInv
    <3> QED
      BY <1>15, <3>1, SlotStutter DEF Unprotect, Works
  <2>8. TableInv'
    <3>1. \A i \in Job : References(i)' <=> References(i)
      BY <1>15 DEF Unprotect, Works, References, TypeInv, SubmittedInv,
         FutureInv, WorkerInv, Active, Terminal, Finished, Between
    <3> QED
      BY <1>15, <3>1, TableStutter DEF Unprotect, Works
  <2> QED
    BY <2>1, <2>2, <2>3, <2>4, <2>5, <2>6, <2>7, <2>8 DEF JobInv
<1>16. ASSUME NEW j \in Job, Stop(j) PROVE JobInv'
  <2>1. SubmittedInv' /\ ResultsReleasedOnce' /\ AcceptedNeverCompletes' /\
       StopInv' /\ FiniteInv'
    BY <1>16 DEF Stop, Works, SubmittedInv, ResultsReleasedOnce, Terminal,
       AcceptedNeverCompletes, StopInv, Active, FiniteInv
  <2>2. TypeInv'
    BY <1>16 DEF Stop, Works, TypeInv, Active, Terminal
  <2>3. FutureInv'
    BY <1>16 DEF Stop, Works, TypeInv, Active, Terminal, FutureInv
  <2>4. WorkerInv'
    BY <1>16 DEF Stop, Works, TypeInv, Active, Terminal, WorkerInv, Finished,
       Between
  <2>5. GotInv'
    BY <1>16 DEF Stop, Works, TypeInv, Active, Terminal, GotInv, Owning
  <2>6. ResultInv'
    BY <1>16 DEF Stop, Works, TypeInv, Active, Terminal, ResultInv, Before
  <2>7. SlotInv'
    <3>1. \A i \in Job : HoldsSlot(i)' <=> HoldsSlot(i)
      BY <1>16 DEF Stop, Works, HoldsSlot, TypeInv, SubmittedInv, FutureInv
    <3> QED
      BY <1>16, <3>1, SlotStutter DEF Stop, Works
  <2>8. TableInv'
    <3>1. \A i \in Job : References(i)' <=> References(i)
      BY <1>16 DEF Stop, Works, References, TypeInv, SubmittedInv, FutureInv,
         WorkerInv, Active, Terminal, Finished, Between
    <3> QED
      BY <1>16, <3>1, TableStutter DEF Stop, Works
  <2> QED
    BY <2>1, <2>2, <2>3, <2>4, <2>5, <2>6, <2>7, <2>8 DEF JobInv
<1>17. ASSUME NEW j \in Job, Raise(j) PROVE JobInv'
  <2>1. SubmittedInv' /\ ResultsReleasedOnce' /\ AcceptedNeverCompletes' /\
       StopInv' /\ FiniteInv'
    BY <1>17 DEF Raise, Works, SubmittedInv, ResultsReleasedOnce, Terminal,
       AcceptedNeverCompletes, StopInv, Active, FiniteInv
  <2>2. TypeInv'
    BY <1>17 DEF Raise, Works, TypeInv, Active, Terminal
  <2>3. FutureInv'
    BY <1>17 DEF Raise, Works, TypeInv, Active, Terminal, FutureInv
  <2>4. WorkerInv'
    BY <1>17 DEF Raise, Works, TypeInv, Active, Terminal, WorkerInv, Finished,
       Between
  <2>5. GotInv'
    BY <1>17 DEF Raise, Works, TypeInv, Active, Terminal, GotInv, Owning
  <2>6. ResultInv'
    BY <1>17 DEF Raise, Works, TypeInv, Active, Terminal, ResultInv, Before
  <2>7. SlotInv'
    <3>1. \A i \in Job : HoldsSlot(i)' <=> HoldsSlot(i)
      BY <1>17 DEF Raise, Works, HoldsSlot, TypeInv, SubmittedInv, FutureInv
    <3> QED
      BY <1>17, <3>1, SlotStutter DEF Raise, Works
  <2>8. TableInv'
    <3>1. \A i \in Job : References(i)' <=> References(i)
      BY <1>17 DEF Raise, Works, References, TypeInv, SubmittedInv, FutureInv,
         WorkerInv, Active, Terminal, Finished, Between
    <3> QED
      BY <1>17, <3>1, TableStutter DEF Raise, Works
  <2> QED
    BY <2>1, <2>2, <2>3, <2>4, <2>5, <2>6, <2>7, <2>8 DEF JobInv
<1>18. ASSUME NEW j \in Job, Return(j) PROVE JobInv'
  <2>1. SubmittedInv' /\ AcceptedNeverCompletes' /\ StopInv' /\ FiniteInv'
    BY <1>18 DEF Return, Works, SubmittedInv, AcceptedNeverCompletes, StopInv,
       Active, FiniteInv
  <2>2. TypeInv'
    BY <1>18 DEF Return, Works, TypeInv, Active, Terminal
  <2>3. FutureInv'
    BY <1>18 DEF Return, Works, TypeInv, Active, Terminal, FutureInv
  <2>4. WorkerInv'
    BY <1>18 DEF Return, Works, TypeInv, Active, Terminal, WorkerInv, Finished,
       Between
  <2>5. GotInv'
    BY <1>18 DEF Return, Works, TypeInv, Active, Terminal, GotInv, Owning
  <2>6. ResultInv'
    BY <1>18 DEF Return, Works, TypeInv, Active, Terminal, ResultInv, Before
  <2>7. ResultsReleasedOnce'
    <3>1. result[j] = "none" /\ state[j] \in Active
      BY <1>18 DEF Return, Works, ResultInv, WorkerInv, Before
    <3>2. result'[j] \in {"none", "returned"} /\ \A i \in Job \ {j} : result'[i] = result[i]
      BY <1>18 DEF Return, TypeInv
    <3> QED
      BY <1>18, <3>1, <3>2 DEF Return, ResultsReleasedOnce, Active, Terminal
  <2>8. SlotInv'
    <3>1. \A i \in Job : HoldsSlot(i)' <=> HoldsSlot(i)
      BY <1>18 DEF Return, Works, HoldsSlot, TypeInv, SubmittedInv, FutureInv
    <3> QED
      BY <1>18, <3>1, SlotStutter DEF Return, Works
  <2>9. TableInv'
    <3>1. \A i \in Job : References(i)' <=> References(i)
      BY <1>18 DEF Return, Works, References, TypeInv, SubmittedInv, FutureInv,
         WorkerInv, Active, Terminal, Finished, Between
    <3> QED
      BY <1>18, <3>1, TableStutter DEF Return, Works
  <2> QED
    BY <2>1, <2>2, <2>3, <2>4, <2>5, <2>6, <2>7, <2>8, <2>9 DEF JobInv
<1>19. ASSUME NEW j \in Job, StopReturned(j) PROVE JobInv'
  <2>a. /\ result' \in [Job -> {"none", "returned", "retained", "gone"}]
        /\ cleanups' \in [Job -> Nat]
        /\ \A i \in Job : IF i = j /\ HasResult(i)
                            THEN result'[i] = "gone" /\ cleanups'[i] = cleanups[i] + 1
                            ELSE result'[i] = result[i] /\ cleanups'[i] = cleanups[i]
    BY <1>19, DroppedEffect DEF StopReturned
  <2>1. SubmittedInv' /\ AcceptedNeverCompletes' /\ StopInv' /\ FiniteInv'
    BY <1>19, <2>a DEF StopReturned, Works, SubmittedInv,
       AcceptedNeverCompletes, StopInv, Active, FiniteInv
  <2>2. TypeInv'
    BY <1>19, <2>a DEF StopReturned, Works, TypeInv
  <2>3. FutureInv'
    BY <1>19, <2>a DEF StopReturned, Works, TypeInv, Active, Terminal,
       FutureInv
  <2>4. WorkerInv'
    BY <1>19, <2>a DEF StopReturned, Works, TypeInv, Active, Terminal,
       WorkerInv, Finished, Between
  <2>5. GotInv'
    BY <1>19, <2>a DEF StopReturned, Works, TypeInv, Active, Terminal, GotInv,
       Owning
  <2>6. ResultInv'
    BY <1>19, <2>a DEF StopReturned, Works, TypeInv, ResultInv, Before,
       HasResult
  <2>7. ResultsReleasedOnce'
    BY <1>19, <2>a DEF StopReturned, Works, TypeInv, ResultInv,
       ResultsReleasedOnce, HasResult
  <2>8. SlotInv'
    <3>1. \A i \in Job : HoldsSlot(i)' <=> HoldsSlot(i)
      BY <1>19 DEF StopReturned, Works, HoldsSlot, TypeInv, SubmittedInv,
         FutureInv
    <3> QED
      BY <1>19, <3>1, SlotStutter DEF StopReturned, Works
  <2>9. TableInv'
    <3>1. \A i \in Job : References(i)' <=> References(i)
      BY <1>19 DEF StopReturned, Works, References, TypeInv, SubmittedInv,
         FutureInv, WorkerInv, Active, Terminal, Finished, Between
    <3> QED
      BY <1>19, <3>1, TableStutter DEF StopReturned, Works
  <2> QED
    BY <2>1, <2>2, <2>3, <2>4, <2>5, <2>6, <2>7, <2>8, <2>9 DEF JobInv
<1>20. ASSUME NEW j \in Job, PassReturned(j) PROVE JobInv'
  <2>1. SubmittedInv' /\ ResultsReleasedOnce' /\ AcceptedNeverCompletes' /\
       StopInv' /\ FiniteInv'
    BY <1>20 DEF PassReturned, Works, SubmittedInv, ResultsReleasedOnce,
       Terminal, AcceptedNeverCompletes, StopInv, Active, FiniteInv
  <2>2. TypeInv'
    BY <1>20 DEF PassReturned, Works, TypeInv, Active, Terminal
  <2>3. FutureInv'
    BY <1>20 DEF PassReturned, Works, TypeInv, Active, Terminal, FutureInv
  <2>4. WorkerInv'
    BY <1>20 DEF PassReturned, Works, TypeInv, Active, Terminal, WorkerInv,
       Finished, Between
  <2>5. GotInv'
    BY <1>20 DEF PassReturned, Works, TypeInv, Active, Terminal, GotInv, Owning
  <2>6. ResultInv'
    BY <1>20 DEF PassReturned, Works, TypeInv, Active, Terminal, ResultInv,
       Before
  <2>7. SlotInv'
    <3>1. \A i \in Job : HoldsSlot(i)' <=> HoldsSlot(i)
      BY <1>20 DEF PassReturned, Works, HoldsSlot, TypeInv, SubmittedInv,
         FutureInv
    <3> QED
      BY <1>20, <3>1, SlotStutter DEF PassReturned, Works
  <2>8. TableInv'
    <3>1. \A i \in Job : References(i)' <=> References(i)
      BY <1>20 DEF PassReturned, Works, References, TypeInv, SubmittedInv,
         FutureInv, WorkerInv, Active, Terminal, Finished, Between
    <3> QED
      BY <1>20, <3>1, TableStutter DEF PassReturned, Works
  <2> QED
    BY <2>1, <2>2, <2>3, <2>4, <2>5, <2>6, <2>7, <2>8 DEF JobInv
<1>21. ASSUME NEW j \in Job, FinishCancelled(j) PROVE JobInv'
  <2>1. FiniteInv'
    BY <1>21 DEF FinishCancelled, Finish, Works, FiniteInv
  <2>2. TypeInv'
    BY <1>21 DEF FinishCancelled, Finish, Works, TypeInv, Active, Terminal
  <2>3. SubmittedInv'
    BY <1>21 DEF FinishCancelled, Finish, Works, SubmittedInv, FutureInv
  <2>4. FutureInv'
    BY <1>21 DEF FinishCancelled, Finish, Works, TypeInv, Active, Terminal,
       FutureInv
  <2>5. WorkerInv'
    BY <1>21 DEF FinishCancelled, Finish, Works, TypeInv, Active, Terminal,
       WorkerInv, Finished, Between
  <2>6. GotInv'
    BY <1>21 DEF FinishCancelled, Finish, Works, TypeInv, Active, Terminal,
       GotInv, Owning
  <2>7. ResultInv'
    BY <1>21 DEF FinishCancelled, Finish, Works, TypeInv, Active, Terminal,
       ResultInv, Before
  <2>8. ResultsReleasedOnce'
    <3>1. result[j] # "returned" /\ result[j] # "retained"
      BY <1>21 DEF FinishCancelled, Finish, Works, ResultInv, WorkerInv,
         ResultsReleasedOnce, Between, Active
    <3> QED
      BY <1>21, <3>1 DEF FinishCancelled, Finish, TypeInv, ResultsReleasedOnce,
         Terminal
  <2>9. AcceptedNeverCompletes'
    BY <1>21 DEF FinishCancelled, Finish, Works, TypeInv, Active, Terminal,
       AcceptedNeverCompletes
  <2>10. StopInv'
    BY <1>21 DEF FinishCancelled, Finish, Works, StopInv, Active, WorkerInv,
       Terminal, Finished, Between
  <2>11. SlotInv'
    <3>1. \A i \in Job : HoldsSlot(i)' <=> HoldsSlot(i)
      BY <1>21 DEF FinishCancelled, Finish, Works, HoldsSlot, TypeInv,
         SubmittedInv, FutureInv
    <3> QED
      BY <1>21, <3>1, SlotStutter DEF FinishCancelled, Finish, Works
  <2>12. TableInv'
    <3>1. \A i \in Job : References(i)' <=> References(i)
      BY <1>21 DEF FinishCancelled, Finish, Works, References, TypeInv,
         SubmittedInv, FutureInv, WorkerInv, Active, Terminal, Finished,
         Between
    <3> QED
      BY <1>21, <3>1, TableStutter DEF FinishCancelled, Finish, Works
  <2> QED
    BY <2>1, <2>2, <2>3, <2>4, <2>5, <2>6, <2>7, <2>8, <2>9, <2>10, <2>11,
       <2>12 DEF JobInv
<1>22. ASSUME NEW j \in Job, FinishFailed(j) PROVE JobInv'
  <2>1. FiniteInv'
    BY <1>22 DEF FinishFailed, Finish, Works, FiniteInv
  <2>2. TypeInv'
    BY <1>22 DEF FinishFailed, Finish, Works, TypeInv, Active, Terminal
  <2>3. SubmittedInv'
    BY <1>22 DEF FinishFailed, Finish, Works, SubmittedInv, FutureInv
  <2>4. FutureInv'
    BY <1>22 DEF FinishFailed, Finish, Works, TypeInv, Active, Terminal,
       FutureInv
  <2>5. WorkerInv'
    BY <1>22 DEF FinishFailed, Finish, Works, TypeInv, Active, Terminal,
       WorkerInv, Finished, Between
  <2>6. GotInv'
    BY <1>22 DEF FinishFailed, Finish, Works, TypeInv, Active, Terminal,
       GotInv, Owning
  <2>7. ResultInv'
    BY <1>22 DEF FinishFailed, Finish, Works, TypeInv, Active, Terminal,
       ResultInv, Before
  <2>8. ResultsReleasedOnce'
    <3>1. result[j] # "returned" /\ result[j] # "retained"
      BY <1>22 DEF FinishFailed, Finish, Works, ResultInv, WorkerInv,
         ResultsReleasedOnce, Between, Active
    <3> QED
      BY <1>22, <3>1 DEF FinishFailed, Finish, TypeInv, ResultsReleasedOnce,
         Terminal
  <2>9. AcceptedNeverCompletes'
    BY <1>22 DEF FinishFailed, Finish, Works, TypeInv, Active, Terminal,
       AcceptedNeverCompletes
  <2>10. StopInv'
    BY <1>22 DEF FinishFailed, Finish, Works, StopInv, Active, WorkerInv,
       Terminal, Finished, Between
  <2>11. SlotInv'
    <3>1. \A i \in Job : HoldsSlot(i)' <=> HoldsSlot(i)
      BY <1>22 DEF FinishFailed, Finish, Works, HoldsSlot, TypeInv,
         SubmittedInv, FutureInv
    <3> QED
      BY <1>22, <3>1, SlotStutter DEF FinishFailed, Finish, Works
  <2>12. TableInv'
    <3>1. \A i \in Job : References(i)' <=> References(i)
      BY <1>22 DEF FinishFailed, Finish, Works, References, TypeInv,
         SubmittedInv, FutureInv, WorkerInv, Active, Terminal, Finished,
         Between
    <3> QED
      BY <1>22, <3>1, TableStutter DEF FinishFailed, Finish, Works
  <2> QED
    BY <2>1, <2>2, <2>3, <2>4, <2>5, <2>6, <2>7, <2>8, <2>9, <2>10, <2>11,
       <2>12 DEF JobInv
<1>23. ASSUME NEW j \in Job, FinishCompleted(j) PROVE JobInv'
  <2>a. /\ result' \in [Job -> {"none", "returned", "retained", "gone"}]
        /\ cleanups' \in [Job -> Nat]
        /\ \A i \in Job :
             IF i = j /\ HasResult(i)
               THEN \/ result'[i] = "gone" /\ cleanups'[i] = cleanups[i] + 1
                    \/ /\ result'[i] = "retained" /\ cleanups'[i] = cleanups[i]
                       /\ i \notin accepted \cup discarded
               ELSE result'[i] = result[i] /\ cleanups'[i] = cleanups[i]
    <3>1. CASE j \in accepted \cup discarded
      BY <1>23, <3>1, DroppedEffect DEF FinishCompleted
    <3>2. CASE j \notin accepted \cup discarded
      BY <1>23, <3>2, ZenonT(120) DEF FinishCompleted, Retained, TypeInv
    <3> QED
      BY <3>1, <3>2
  <2>1. FiniteInv'
    BY <1>23, <2>a DEF FinishCompleted, Finish, Works, FiniteInv
  <2>2. TypeInv'
    BY <1>23, <2>a DEF FinishCompleted, Finish, Works, TypeInv, TypeInv,
       Active, Terminal
  <2>3. SubmittedInv'
    BY <1>23, <2>a DEF FinishCompleted, Finish, Works, SubmittedInv, FutureInv
  <2>4. FutureInv'
    BY <1>23, <2>a DEF FinishCompleted, Finish, Works, TypeInv, Active,
       Terminal, FutureInv
  <2>5. WorkerInv'
    BY <1>23, <2>a DEF FinishCompleted, Finish, Works, TypeInv, Active,
       Terminal, WorkerInv, Finished, Between
  <2>6. GotInv'
    BY <1>23, <2>a DEF FinishCompleted, Finish, Works, TypeInv, Active,
       Terminal, GotInv, Owning
  <2>7. ResultInv'
    BY <1>23, <2>a, ZenonT(120) DEF FinishCompleted, Finish, Works, TypeInv,
       ResultInv, Before, HasResult
  <2>8. ResultsReleasedOnce'
    BY <1>23, <2>a DEF FinishCompleted, Finish, Works, TypeInv,
       ResultsReleasedOnce, ResultInv, WorkerInv, Active, Between, Terminal,
       HasResult
  <2>9. AcceptedNeverCompletes'
    BY <1>23, <2>a DEF FinishCompleted, Finish, Works, TypeInv, Active,
       Terminal, AcceptedNeverCompletes
  <2>10. StopInv'
    <3>1. state[j] \in Active
      BY <1>23 DEF FinishCompleted, Finish, Works, WorkerInv, Between
    <3>2. state'[j] \notin Active /\ \A i \in Job \ {j} : state'[i] = state[i]
      BY <1>23 DEF FinishCompleted, Finish, TypeInv, Active
    <3> QED
      BY <1>23, <3>1, <3>2 DEF FinishCompleted, Finish, StopInv, Active
  <2>11. SlotInv'
    <3>1. \A i \in Job : HoldsSlot(i)' <=> HoldsSlot(i)
      BY <1>23 DEF FinishCompleted, Finish, Works, HoldsSlot, TypeInv,
         SubmittedInv, FutureInv
    <3> QED
      BY <1>23, <3>1, SlotStutter DEF FinishCompleted, Finish, Works
  <2>12. TableInv'
    <3>1. \A i \in Job : References(i)' <=> References(i)
      BY <1>23 DEF FinishCompleted, Finish, Works, References, TypeInv,
         SubmittedInv, FutureInv, WorkerInv, Active, Terminal, Finished,
         Between
    <3> QED
      BY <1>23, <3>1, TableStutter DEF FinishCompleted, Finish, Works
  <2> QED
    BY <2>1, <2>2, <2>3, <2>4, <2>5, <2>6, <2>7, <2>8, <2>9, <2>10, <2>11,
       <2>12 DEF JobInv
<1>24. ASSUME NEW j \in Job, Unlock(j) PROVE JobInv'
  <2>1. SubmittedInv' /\ ResultsReleasedOnce' /\ AcceptedNeverCompletes' /\
       StopInv' /\ FiniteInv'
    BY <1>24 DEF Unlock, Works, SubmittedInv, ResultsReleasedOnce, Terminal,
       AcceptedNeverCompletes, StopInv, Active, FiniteInv
  <2>2. TypeInv'
    BY <1>24 DEF Unlock, Works, TypeInv, Active, Terminal
  <2>3. FutureInv'
    BY <1>24 DEF Unlock, Works, TypeInv, Active, Terminal, FutureInv
  <2>4. WorkerInv'
    BY <1>24 DEF Unlock, Works, TypeInv, Active, Terminal, WorkerInv, Finished,
       Between
  <2>5. GotInv'
    BY <1>24 DEF Unlock, Works, TypeInv, Active, Terminal, GotInv, Owning
  <2>6. ResultInv'
    BY <1>24 DEF Unlock, Works, TypeInv, Active, Terminal, ResultInv, Before
  <2>7. SlotInv'
    <3>1. \A i \in Job : HoldsSlot(i)' <=> HoldsSlot(i)
      BY <1>24 DEF Unlock, Works, HoldsSlot, TypeInv, SubmittedInv, FutureInv
    <3> QED
      BY <1>24, <3>1, SlotStutter DEF Unlock, Works
  <2>8. TableInv'
    <3>1. \A i \in Job : References(i)' <=> References(i)
      BY <1>24 DEF Unlock, Works, References, TypeInv, SubmittedInv, FutureInv,
         WorkerInv, Active, Terminal, Finished, Between
    <3> QED
      BY <1>24, <3>1, TableStutter DEF Unlock, Works
  <2> QED
    BY <2>1, <2>2, <2>3, <2>4, <2>5, <2>6, <2>7, <2>8 DEF JobInv
<1>25. ASSUME NEW j \in Job, Dereference(j) PROVE JobInv'
  <2>a. References(j) /\ ~ References(j)'
    BY <1>25 DEF Dereference, Works, References, TypeInv, SubmittedInv,
       FutureInv, WorkerInv, Active, Terminal, Finished
  <2>b. \A i \in Job : i # j => (References(i)' <=> References(i))
    BY <1>25 DEF Dereference, Works, References, TypeInv
  <2>c. locks' = Dereferenced(j) /\ mine' = mine
    BY <1>25 DEF Dereference, Works
  <2>d. TableInv' /\ locks' \in [Key -> [lock : Job \cup {None}, refs : Nat]]
    BY <2>a, <2>b, <2>c, Countable, ReferencesReturned
  <2>1. SubmittedInv' /\ ResultsReleasedOnce' /\ AcceptedNeverCompletes' /\
       StopInv' /\ FiniteInv'
    BY <1>25, <2>d DEF Dereference, Works, SubmittedInv, ResultsReleasedOnce,
       Terminal, AcceptedNeverCompletes, StopInv, Active, FiniteInv
  <2>2. TypeInv'
    BY <1>25, <2>d DEF Dereference, Works, TypeInv, Active, Terminal
  <2>3. FutureInv'
    BY <1>25, <2>d DEF Dereference, Works, TypeInv, Active, Terminal, FutureInv
  <2>4. WorkerInv'
    BY <1>25, <2>d DEF Dereference, Works, TypeInv, Active, Terminal,
       WorkerInv, Finished, Between
  <2>5. GotInv'
    BY <1>25, <2>d DEF Dereference, Works, TypeInv, Active, Terminal, GotInv,
       Owning
  <2>6. ResultInv'
    BY <1>25, <2>d DEF Dereference, Works, TypeInv, Active, Terminal,
       ResultInv, Before
  <2>7. SlotInv'
    <3>1. \A i \in Job : HoldsSlot(i)' <=> HoldsSlot(i)
      BY <1>25 DEF Dereference, Works, HoldsSlot, TypeInv, SubmittedInv,
         FutureInv
    <3> QED
      BY <1>25, <3>1, SlotStutter DEF Dereference, Works
  <2>8. TableInv'
    BY <2>d
  <2> QED
    BY <2>1, <2>2, <2>3, <2>4, <2>5, <2>6, <2>7, <2>8 DEF JobInv
<1>26. ASSUME NEW j \in Job, Release(j) PROVE JobInv'
  <2>1. ResultsReleasedOnce' /\ AcceptedNeverCompletes' /\ StopInv' /\
       FiniteInv'
    BY <1>26 DEF Release, Works, ResultsReleasedOnce, Terminal,
       AcceptedNeverCompletes, StopInv, Active, FiniteInv
  <2>2. TypeInv'
    BY <1>26 DEF Release, Works, TypeInv, Active, Terminal
  <2>3. SubmittedInv'
    BY <1>26 DEF Release, Works, SubmittedInv, WorkerInv, Active, Terminal,
       Finished, Between
  <2>4. FutureInv'
    BY <1>26 DEF Release, Works, TypeInv, Active, Terminal, FutureInv
  <2>5. WorkerInv'
    BY <1>26 DEF Release, Works, TypeInv, Active, Terminal, WorkerInv,
       Finished, Between
  <2>6. GotInv'
    BY <1>26 DEF Release, Works, TypeInv, Active, Terminal, GotInv, Owning
  <2>7. ResultInv'
    BY <1>26 DEF Release, Works, TypeInv, Active, Terminal, ResultInv, Before
  <2>8. SlotInv'
    <3>1. HoldsSlot(j) /\ ~ HoldsSlot(j)'
      <4>1. worker[j] = "releasing" /\ worker'[j] = "done" /\ submitter' = submitter
        BY <1>26 DEF Release, Works, TypeInv
      <4>2. future[j] \notin {"none", "pending", "cancelled"}
        BY <4>1 DEF FutureInv
      <4>3. submitter[j] \in {"new", "slot", "admitted", "enqueued", "done", "refused"}
        BY DEF TypeInv
      <4>4. submitter[j] \in {"enqueued", "done"}
        BY <4>2, <4>3 DEF SubmittedInv
      <4> QED
        BY <4>1, <4>2, <4>4 DEF HoldsSlot
    <3>2. \A i \in Job : i # j => (HoldsSlot(i)' <=> HoldsSlot(i))
      BY <1>26 DEF Release, Works, HoldsSlot, TypeInv
    <3>3. free' = free + 1 /\ free \in Nat
      BY <1>26 DEF Release, Works, TypeInv
    <3> QED
      BY <3>1, <3>2, <3>3, Countable, SlotReturned
  <2>9. TableInv'
    <3>1. \A i \in Job : References(i)' <=> References(i)
      BY <1>26 DEF Release, Works, References, TypeInv, SubmittedInv,
         FutureInv, WorkerInv, Active, Terminal, Finished, Between
    <3> QED
      BY <1>26, <3>1, TableStutter DEF Release, Works
  <2> QED
    BY <2>1, <2>2, <2>3, <2>4, <2>5, <2>6, <2>7, <2>8, <2>9 DEF JobInv
<1>27. ASSUME NEW j \in Job, Withdrawn(j) PROVE JobInv'
  <2>a. References(j) /\ ~ References(j)'
    BY <1>27 DEF Withdrawn, Accepted, Withdraw, References, TypeInv,
       SubmittedInv, FutureInv, WorkerInv, Active, Terminal, Finished
  <2>b. \A i \in Job : i # j => (References(i)' <=> References(i))
    BY <1>27 DEF Withdrawn, Accepted, Withdraw, References, TypeInv
  <2>c. locks' = Dereferenced(j) /\ mine' = mine
    BY <1>27 DEF Withdrawn, Accepted, Withdraw
  <2>d. TableInv' /\ locks' \in [Key -> [lock : Job \cup {None}, refs : Nat]]
    BY <2>a, <2>b, <2>c, Countable, ReferencesReturned
  <2>1. GotInv' /\ ResultInv' /\ FiniteInv'
    BY <1>27, <2>d DEF Withdrawn, Accepted, Withdraw, GotInv, Owning,
       ResultInv, Before, FiniteInv
  <2>2. TypeInv'
    BY <1>27, <2>d DEF Withdrawn, Accepted, Withdraw, TypeInv, Active, Terminal
  <2>3. SubmittedInv'
    BY <1>27, <2>d DEF Withdrawn, Accepted, Withdraw, TypeInv, Active,
       Terminal, SubmittedInv
  <2>4. FutureInv'
    BY <1>27, <2>d DEF Withdrawn, Accepted, Withdraw, TypeInv, Active,
       Terminal, FutureInv
  <2>5. WorkerInv'
    BY <1>27, <2>d DEF Withdrawn, Accepted, Withdraw, WorkerInv, Active,
       Terminal, Finished, Between, FutureInv
  <2>6. ResultsReleasedOnce'
    BY <1>27, <2>d DEF Withdrawn, Accepted, Withdraw, ResultsReleasedOnce,
       Terminal, FutureInv, ResultInv, Before
  <2>7. AcceptedNeverCompletes'
    BY <1>27, <2>d DEF Withdrawn, Accepted, Withdraw, TypeInv, Active,
       Terminal, AcceptedNeverCompletes
  <2>8. StopInv'
    BY <1>27, <2>d DEF Withdrawn, Accepted, Withdraw, TypeInv, Active,
       Terminal, StopInv
  <2>9. SlotInv'
    <3>1. HoldsSlot(j) /\ ~ HoldsSlot(j)'
      BY <1>27 DEF Withdrawn, Accepted, Withdraw, HoldsSlot, TypeInv,
         SubmittedInv, FutureInv
    <3>2. \A i \in Job : i # j => (HoldsSlot(i)' <=> HoldsSlot(i))
      BY <1>27 DEF Withdrawn, Accepted, Withdraw, HoldsSlot, TypeInv
    <3>3. free' = free + 1 /\ free \in Nat
      BY <1>27 DEF Withdrawn, Accepted, Withdraw, TypeInv
    <3> QED
      BY <3>1, <3>2, <3>3, Countable, SlotReturned
  <2>10. TableInv'
    BY <2>d
  <2> QED
    BY <2>1, <2>2, <2>3, <2>4, <2>5, <2>6, <2>7, <2>8, <2>9, <2>10 DEF JobInv
<1>28. ASSUME NEW j \in Job, Noted(j) PROVE JobInv'
  <2>1. SubmittedInv' /\ FutureInv' /\ WorkerInv' /\ GotInv' /\ ResultInv' /\
       ResultsReleasedOnce' /\ FiniteInv'
    BY <1>28 DEF Noted, Accepted, SubmittedInv, FutureInv, WorkerInv, Active,
       Terminal, Finished, Between, GotInv, Owning, ResultInv, Before,
       ResultsReleasedOnce, FiniteInv
  <2>2. TypeInv'
    BY <1>28 DEF Noted, Accepted, TypeInv, Active, Terminal
  <2>3. AcceptedNeverCompletes'
    BY <1>28 DEF Noted, Accepted, TypeInv, Active, Terminal,
       AcceptedNeverCompletes
  <2>4. StopInv'
    BY <1>28 DEF Noted, Accepted, TypeInv, Active, Terminal, StopInv
  <2>5. SlotInv'
    <3>1. \A i \in Job : HoldsSlot(i)' <=> HoldsSlot(i)
      BY <1>28 DEF Noted, Accepted, HoldsSlot, TypeInv, SubmittedInv, FutureInv
    <3> QED
      BY <1>28, <3>1, SlotStutter DEF Noted, Accepted
  <2>6. TableInv'
    <3>1. \A i \in Job : References(i)' <=> References(i)
      BY <1>28 DEF Noted, Accepted, References, TypeInv, SubmittedInv,
         FutureInv, WorkerInv, Active, Terminal, Finished, Between
    <3> QED
      BY <1>28, <3>1, TableStutter DEF Noted, Accepted
  <2> QED
    BY <2>1, <2>2, <2>3, <2>4, <2>5, <2>6 DEF JobInv
<1>29. ASSUME NEW j \in Job, Skipped(j) PROVE JobInv'
  <2>1. SubmittedInv' /\ FutureInv' /\ WorkerInv' /\ GotInv' /\ ResultInv' /\
       ResultsReleasedOnce' /\ AcceptedNeverCompletes' /\ FiniteInv'
    BY <1>29 DEF Skipped, SubmittedInv, FutureInv, WorkerInv, Active, Terminal,
       Finished, Between, GotInv, Owning, ResultInv, Before,
       ResultsReleasedOnce, AcceptedNeverCompletes, FiniteInv
  <2>2. TypeInv'
    BY <1>29 DEF Skipped, TypeInv, Active, Terminal
  <2>3. StopInv'
    BY <1>29 DEF Skipped, TypeInv, Active, Terminal, StopInv
  <2>4. SlotInv'
    <3>1. \A i \in Job : HoldsSlot(i)' <=> HoldsSlot(i)
      BY <1>29 DEF Skipped, HoldsSlot, TypeInv, SubmittedInv, FutureInv
    <3> QED
      BY <1>29, <3>1, SlotStutter DEF Skipped
  <2>5. TableInv'
    <3>1. \A i \in Job : References(i)' <=> References(i)
      BY <1>29 DEF Skipped, References, TypeInv, SubmittedInv, FutureInv,
         WorkerInv, Active, Terminal, Finished, Between
    <3> QED
      BY <1>29, <3>1, TableStutter DEF Skipped
  <2> QED
    BY <2>1, <2>2, <2>3, <2>4, <2>5 DEF JobInv
<1>30. ASSUME NEW j \in Job, Request(j) PROVE JobInv'
  <2>1. SubmittedInv' /\ FutureInv' /\ WorkerInv' /\ GotInv' /\ ResultInv' /\
       ResultsReleasedOnce' /\ AcceptedNeverCompletes' /\ FiniteInv'
    BY <1>30 DEF Request, SubmittedInv, FutureInv, WorkerInv, Active, Terminal,
       Finished, Between, GotInv, Owning, ResultInv, Before,
       ResultsReleasedOnce, AcceptedNeverCompletes, FiniteInv
  <2>2. TypeInv'
    BY <1>30 DEF Request, TypeInv, Active, Terminal
  <2>3. StopInv'
    BY <1>30 DEF Request, TypeInv, Active, Terminal, StopInv
  <2>4. SlotInv'
    <3>1. \A i \in Job : HoldsSlot(i)' <=> HoldsSlot(i)
      BY <1>30 DEF Request, HoldsSlot, TypeInv, SubmittedInv, FutureInv
    <3> QED
      BY <1>30, <3>1, SlotStutter DEF Request
  <2>5. TableInv'
    <3>1. \A i \in Job : References(i)' <=> References(i)
      BY <1>30 DEF Request, References, TypeInv, SubmittedInv, FutureInv,
         WorkerInv, Active, Terminal, Finished, Between
    <3> QED
      BY <1>30, <3>1, TableStutter DEF Request
  <2> QED
    BY <2>1, <2>2, <2>3, <2>4, <2>5 DEF JobInv
<1>31. ASSUME NEW j \in Job, Discard(j) PROVE JobInv'
  <2>a. /\ result' \in [Job -> {"none", "returned", "retained", "gone"}]
        /\ cleanups' \in [Job -> Nat]
        /\ \A i \in Job : IF i = j /\ result[i] = "retained"
                            THEN result'[i] = "gone" /\ cleanups'[i] = cleanups[i] + 1
                            ELSE result'[i] = result[i] /\ cleanups'[i] = cleanups[i]
    <3>1. CASE result[j] = "retained"
      BY <1>31, <3>1, DroppedEffect DEF Discard, HasResult
    <3>2. CASE result[j] # "retained"
      BY <1>31, <3>2 DEF Discard, TypeInv
    <3> QED
      BY <3>1, <3>2
  <2>1. SubmittedInv' /\ FutureInv' /\ WorkerInv' /\ GotInv' /\
       AcceptedNeverCompletes' /\ FiniteInv'
    BY <1>31, <2>a DEF Discard, SubmittedInv, FutureInv, WorkerInv, Active,
       Terminal, Finished, Between, GotInv, Owning, AcceptedNeverCompletes,
       FiniteInv
  <2>2. TypeInv'
    BY <1>31, <2>a DEF Discard, TypeInv
  <2>3. ResultInv'
    BY <1>31, <2>a DEF Discard, TypeInv, ResultInv, Before
  <2>4. ResultsReleasedOnce'
    BY <1>31, <2>a DEF Discard, TypeInv, ResultsReleasedOnce
  <2>5. StopInv'
    BY <1>31, <2>a DEF Discard, TypeInv, Active, Terminal, StopInv
  <2>6. SlotInv'
    <3>1. \A i \in Job : HoldsSlot(i)' <=> HoldsSlot(i)
      BY <1>31 DEF Discard, HoldsSlot, TypeInv, SubmittedInv, FutureInv
    <3> QED
      BY <1>31, <3>1, SlotStutter DEF Discard
  <2>7. TableInv'
    <3>1. \A i \in Job : References(i)' <=> References(i)
      BY <1>31 DEF Discard, References, TypeInv, SubmittedInv, FutureInv,
         WorkerInv, Active, Terminal, Finished, Between
    <3> QED
      BY <1>31, <3>1, TableStutter DEF Discard
  <2> QED
    BY <2>1, <2>2, <2>3, <2>4, <2>5, <2>6, <2>7 DEF JobInv
<1>32. ASSUME Close PROVE JobInv'
  <2> DEFINE G == {i \in Cleaned : state[i] # "absent"}
             R == {i \in G : result[i] = "retained"}
  <2>a. /\ result' \in [Job -> {"none", "returned", "retained", "gone"}]
        /\ cleanups' \in [Job -> Nat]
        /\ \A i \in Job : IF i \in R
                            THEN result'[i] = "gone" /\ cleanups'[i] = cleanups[i] + 1
                            ELSE result'[i] = result[i] /\ cleanups'[i] = cleanups[i]
    <3>1. R \in SUBSET Job /\ Dropped(R)
      BY <1>32 DEF Close
    <3>2. \A i \in R : HasResult(i)
      BY DEF HasResult
    <3> QED
      BY <3>1, <3>2, DroppedEffect
  <2>b. discarded' = discarded \cup G /\ G \subseteq Job
    BY <1>32 DEF Close
  <2>c. /\ closed' = TRUE /\ stopping' = "scanned" /\ stopping = "no"
        /\ UNCHANGED <<down, listed, submission, execution, slots, state, cancels>>
    BY <1>32 DEF Close, StopInv, TypeInv
  <2>1. SubmittedInv' /\ FutureInv' /\ WorkerInv' /\ GotInv' /\
       AcceptedNeverCompletes' /\ FiniteInv'
    BY <1>32, <2>a, <2>b, <2>c DEF Close, SubmittedInv, FutureInv, WorkerInv,
       Active, Terminal, Finished, Between, GotInv, Owning,
       AcceptedNeverCompletes, FiniteInv
  <2>2. TypeInv'
    BY <2>a, <2>b, <2>c DEF TypeInv
  <2>3. ResultInv'
    BY <2>a, <2>c DEF TypeInv, ResultInv, Before
  <2>4. ResultsReleasedOnce'
    BY <2>a, <2>b, <2>c DEF TypeInv, ResultsReleasedOnce
  <2>5. StopInv'
    BY <2>a, <2>b, <2>c DEF StopInv
  <2>6. SlotInv'
    <3>1. \A i \in Job : HoldsSlot(i)' <=> HoldsSlot(i)
      BY <1>32 DEF Close, HoldsSlot, TypeInv, SubmittedInv, FutureInv
    <3> QED
      BY <1>32, <3>1, SlotStutter DEF Close
  <2>7. TableInv'
    <3>1. \A i \in Job : References(i)' <=> References(i)
      BY <1>32 DEF Close, References, TypeInv, SubmittedInv, FutureInv,
         WorkerInv, Active, Terminal, Finished, Between
    <3> QED
      BY <1>32, <3>1, TableStutter DEF Close
  <2> QED
    BY <2>1, <2>2, <2>3, <2>4, <2>5, <2>6, <2>7 DEF JobInv
<1>33. ASSUME ListActive PROVE JobInv'
  <2>1. SubmittedInv' /\ FutureInv' /\ WorkerInv' /\ GotInv' /\ ResultInv' /\
       ResultsReleasedOnce' /\ AcceptedNeverCompletes' /\ FiniteInv'
    BY <1>33 DEF ListActive, SubmittedInv, FutureInv, WorkerInv, Active,
       Terminal, Finished, Between, GotInv, Owning, ResultInv, Before,
       ResultsReleasedOnce, AcceptedNeverCompletes, FiniteInv
  <2>2. TypeInv'
    BY <1>33 DEF ListActive, TypeInv, Active, Terminal
  <2>3. StopInv'
    BY <1>33 DEF ListActive, TypeInv, Active, Terminal, StopInv
  <2>4. SlotInv'
    <3>1. \A i \in Job : HoldsSlot(i)' <=> HoldsSlot(i)
      BY <1>33 DEF ListActive, HoldsSlot, TypeInv, SubmittedInv, FutureInv
    <3> QED
      BY <1>33, <3>1, SlotStutter DEF ListActive
  <2>5. TableInv'
    <3>1. \A i \in Job : References(i)' <=> References(i)
      BY <1>33 DEF ListActive, References, TypeInv, SubmittedInv, FutureInv,
         WorkerInv, Active, Terminal, Finished, Between
    <3> QED
      BY <1>33, <3>1, TableStutter DEF ListActive
  <2> QED
    BY <2>1, <2>2, <2>3, <2>4, <2>5 DEF JobInv
<1>34. ASSUME ShutExecutor PROVE JobInv'
  <2>1. SubmittedInv' /\ FutureInv' /\ WorkerInv' /\ GotInv' /\ ResultInv' /\
       ResultsReleasedOnce' /\ AcceptedNeverCompletes' /\ FiniteInv'
    BY <1>34 DEF ShutExecutor, SubmittedInv, FutureInv, WorkerInv, Active,
       Terminal, Finished, Between, GotInv, Owning, ResultInv, Before,
       ResultsReleasedOnce, AcceptedNeverCompletes, FiniteInv
  <2>2. TypeInv'
    BY <1>34 DEF ShutExecutor, TypeInv, Active, Terminal
  <2>3. StopInv'
    BY <1>34 DEF ShutExecutor, TypeInv, Active, Terminal, StopInv
  <2>4. SlotInv'
    <3>1. \A i \in Job : HoldsSlot(i)' <=> HoldsSlot(i)
      BY <1>34 DEF ShutExecutor, HoldsSlot, TypeInv, SubmittedInv, FutureInv
    <3> QED
      BY <1>34, <3>1, SlotStutter DEF ShutExecutor
  <2>5. TableInv'
    <3>1. \A i \in Job : References(i)' <=> References(i)
      BY <1>34 DEF ShutExecutor, References, TypeInv, SubmittedInv, FutureInv,
         WorkerInv, Active, Terminal, Finished, Between
    <3> QED
      BY <1>34, <3>1, TableStutter DEF ShutExecutor
  <2> QED
    BY <2>1, <2>2, <2>3, <2>4, <2>5 DEF JobInv
<1>35. CASE UNCHANGED vars
  BY <1>35, SMTT(60) DEF vars, JobInv, TypeInv, Active, Terminal, SubmittedInv,
     FutureInv, WorkerInv, Finished, Between, GotInv, Owning, ResultInv,
     Before, ResultsReleasedOnce, AcceptedNeverCompletes, StopInv, FiniteInv,
     SlotInv, Holders, HoldsSlot, TableInv, Users, References
<1> QED
  BY <1>1, <1>2, <1>3, <1>4, <1>5, <1>6, <1>7, <1>8, <1>9, <1>10, <1>11, <1>12,
     <1>13, <1>14, <1>15, <1>16, <1>17, <1>18, <1>19, <1>20, <1>21, <1>22,
     <1>23, <1>24, <1>25, <1>26, <1>27, <1>28, <1>29, <1>30, <1>31, <1>32,
     <1>33, <1>34, <1>35, CancelCases, TakeCases DEF Next, Submit, Execute

(* The initial state.                                                      *)
LEMMA InitJob == Init => JobInv
<1> SUFFICES ASSUME Init PROVE JobInv
  OBVIOUS
<1> USE JobManagerAssumption DEF Init
<1>1. TypeInv
  <2> DEFINE f(j) == [k \in Keys[j] |-> None]
  <2>1. mine = [j \in Job |-> f(j)] /\ \A j \in Job : f(j) \in Mines
    BY DEF Mines
  <2> HIDE DEF f, Init
  <2>2. mine \in [Job -> Mines]
    BY <2>1
  <2>3. /\ locks \in [Key -> [lock : Job \cup {None}, refs : Nat]]
        /\ free \in Nat
    BY DEF Init
  <2>4. /\ got \in [Job -> SUBSET Key]
        /\ \A j \in Job : got[j] \subseteq Keys[j]
        /\ queue \in Seq(Job) /\ cleanups \in [Job -> Nat]
    BY DEF Init
  <2>5. /\ submitter \in [Job -> {"new", "slot", "admitted", "enqueued", "done", "refused"}]
        /\ future \in [Job -> {"none", "pending", "running", "cancelled", "done"}]
        /\ worker \in [Job -> {"idle", "locking", "starting", "body", "returned", "cancelling",
                               "failing", "completing", "unlocking", "dereferencing",
                               "releasing", "done"}]
        /\ state \in [Job -> {"absent"} \cup Active \cup Terminal]
        /\ result \in [Job -> {"none", "returned", "retained", "gone"}]
    BY DEF Init
  <2>6. /\ known = {} /\ accepted = {} /\ calls = {} /\ token = {} /\ discarded = {}
        /\ listed = {} /\ stopping = "no" /\ closed = FALSE /\ down = FALSE
    BY DEF Init
  <2> QED
    BY <2>2, <2>3, <2>4, <2>5, <2>6 DEF TypeInv
<1>2. SubmittedInv /\ FutureInv /\ WorkerInv
  BY DEF SubmittedInv, FutureInv, WorkerInv, Between, Finished
<1>3. GotInv /\ ResultInv
  BY DEF GotInv, ResultInv, Owning
<1>4. ResultsReleasedOnce /\ AcceptedNeverCompletes /\ StopInv
  BY DEF ResultsReleasedOnce, AcceptedNeverCompletes, StopInv, Terminal
<1>5. FiniteInv
  <2>1. {j \in Job : submitter[j] # "new"} = {}
    OBVIOUS
  <2> QED
    BY <2>1, FS_EmptySet DEF FiniteInv
<1>6. SlotInv
  <2>1. Holders = {}
    BY DEF Holders, HoldsSlot
  <2> QED
    BY <2>1, FS_EmptySet DEF SlotInv
<1>7. TableInv
  <2>1. \A k \in Key : Users(k) = {}
    BY DEF Users, References
  <2> QED
    BY <2>1, FS_EmptySet DEF TableInv
<1> QED
  BY <1>1, <1>2, <1>3, <1>4, <1>5, <1>6, <1>7 DEF JobInv

(* Two workers that own all their locks share no key: they would have the  *)
(* one lock object the table names for it.                                 *)
LEMMA OwnersExclude == JobInv => ResourcesExclude
<1> SUFFICES ASSUME JobInv, NEW i \in Job, NEW j \in Job, i # j,
                    {worker[i], worker[j]} \subseteq Owning,
                    NEW k \in Keys[i] \cap Keys[j]
             PROVE  FALSE
  BY DEF ResourcesExclude, Owning
<1>1. k \in got[i] \cap got[j] /\ k \in Key
  BY DEF JobInv, GotInv, Key
<1>2. mine[i][k] # mine[j][k]
  BY <1>1 DEF JobInv, GotInv
<1>3. worker[i] \in {"starting", "body", "returned"}
      /\ worker[j] \in {"starting", "body", "returned"}
  BY DEF Owning
<1>4. References(i) /\ References(j)
  BY <1>3 DEF JobInv, FutureInv, WorkerInv, References, Active, Between
<1>5. i \in Users(k) /\ j \in Users(k)
  BY <1>4 DEF Users
<1>6. mine[i][k] = locks[k].lock /\ mine[j][k] = locks[k].lock
  BY <1>1, <1>5 DEF JobInv, TableInv
<1> QED
  BY <1>2, <1>6

(* What a job takes it gives back exactly once, and what its callers were  *)
(* told stays true: the slots of _capacity, the table of resource locks,   *)
(* the results with a cleanup, accepted cancellations and shutdown.        *)
THEOREM JobsCorrect == Spec => []JobsHold
<1>1. JobInv => JobsHold
  <2> SUFFICES ASSUME JobInv PROVE JobsHold
    OBVIOUS
  <2>1. NothingLeaks
    BY DEF JobInv, SlotInv, Holders, NothingLeaks, SlotsAccounted
  <2>2. ResourcesExact
    BY OwnersExclude DEF JobInv, TableInv, Users, ResourcesExact, LockTableExact
  <2>3. ShutdownReachesAll
    BY JobManagerAssumption
       DEF JobInv, StopInv, ResultsReleasedOnce, TypeInv, ShutdownReachesAll
  <2> QED
    BY <2>1, <2>2, <2>3 DEF JobInv, CancellationsHold, JobsHold
<1> QED
  BY InitJob, JobStep, <1>1, PTL DEF Spec
===============================================================================
