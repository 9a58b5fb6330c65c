------------------------------ MODULE JobManager ------------------------------
(***************************************************************************)
(* JobManager and CancellationToken (core/jobs.py, core/cancellation.py):  *)
(* a bounded thread pool whose jobs serialise on the resources they name.  *)
(* A submitting thread, a worker, cancelling threads, discarding threads   *)
(* and the one that shuts the manager down meet on every job; each action  *)
(* is what one of them does under one lock, or between two.                *)
(***************************************************************************)
EXTENDS Integers, FiniteSets, Sequences

CONSTANTS
  Job,        \* jobs that may be submitted
  Keys,       \* Keys[j]: resource keys of j, numbers in their sorted order
  Cleaned,    \* jobs submitted with a result_cleanup (other results are not tracked)
  Protects,   \* jobs whose function has a protected section
  Stops,      \* whether the manager is shut down
  MaxWorkers, \* max_workers
  MaxPending, \* max_pending
  None        \* no lock

ASSUME JobManagerAssumption ==
  /\ \A j \in Job : Keys[j] \subseteq Nat
  /\ Cleaned \subseteq Job
  /\ Protects \subseteq Job
  /\ Stops \in BOOLEAN
  /\ MaxWorkers \in Nat \ {0}
  /\ MaxPending \in Nat \ {0}
  /\ None \notin Job

VARIABLES
  closed,     \* _closed
  down,       \* the executor refuses new work
  free,       \* free slots of the _capacity semaphore
  locks,      \* _resource_locks: lock object and references of every key
  mine,       \* mine[j]: lock objects of j's record, by key
  submitter,  \* control state of the thread that submits j
  queue,      \* work items of the executor, in order
  future,     \* future[j]: state of j's future
  known,      \* jobs whose record.future is set
  worker,     \* control state of _execute for j
  got,        \* got[j]: keys whose lock _execute has acquired
  state,      \* state of j's snapshot, or "absent"
  accepted,   \* jobs with cancellation_accepted_at
  calls,      \* jobs on which a cancel is between its lock and the token
  token,      \* jobs whose cancellation token is requested
  deferring,  \* jobs inside a protected section
  result,     \* result[j]: what the function returned and where it is
  discarded,  \* jobs with result_discarded
  cleanups,   \* cleanups[j]: calls of j's result_cleanup
  stopping,   \* control state of shutdown
  listed      \* active jobs shutdown has still to cancel

submission == <<submitter, known>>
execution == <<queue, future, worker, got>>
slots == <<free, locks, mine>>
cancels == <<accepted, calls, token, deferring>>
results == <<result, discarded, cleanups>>
ending == <<closed, down, stopping, listed>>
vars == <<closed, down, free, locks, mine, submitter, queue, future, known,
          worker, got, state, accepted, calls, token, deferring, result,
          discarded, cleanups, stopping, listed>>

Key == UNION {Keys[j] : j \in Job}
Active == {"queued", "running"}
Terminal == {"completed", "failed", "cancelled"}

Init ==
  /\ closed = FALSE /\ down = FALSE
  /\ free = MaxPending
  /\ locks = [k \in Key |-> [lock |-> None, refs |-> 0]]
  /\ mine = [j \in Job |-> [k \in Keys[j] |-> None]]
  /\ submitter = [j \in Job |-> "new"]
  /\ queue = <<>>
  /\ future = [j \in Job |-> "none"]
  /\ known = {}
  /\ worker = [j \in Job |-> "idle"]
  /\ got = [j \in Job |-> {}]
  /\ state = [j \in Job |-> "absent"]
  /\ accepted = {} /\ calls = {} /\ token = {} /\ deferring = {}
  /\ result = [j \in Job |-> "none"]
  /\ discarded = {}
  /\ cleanups = [j \in Job |-> 0]
  /\ stopping = "no" /\ listed = {}

Submits(j, here, next) ==
  submitter[j] = here /\ submitter' = [submitter EXCEPT ![j] = next]

-------------------------------------------------------------------------------
(* _submit takes a slot of the queue, ...                                  *)
TakeSlot(j) ==
  /\ ~ closed /\ free > 0
  /\ Submits(j, "new", "slot")
  /\ free' = free - 1
  /\ UNCHANGED <<locks, mine, known, execution, state, cancels, results, ending>>

SubmitRefused(j) ==
  /\ closed \/ free = 0
  /\ Submits(j, "new", "refused")
  /\ UNCHANGED <<known, execution, slots, state, cancels, results, ending>>

(* The lock object of a key is made by the first job that references it;   *)
(* it is named after that job here.                                        *)
LockFor(j, k) == IF locks[k].refs = 0 THEN j ELSE locks[k].lock

Referenced(j) ==
  [k \in Key |-> IF k \in Keys[j]
                   THEN [lock |-> LockFor(j, k), refs |-> locks[k].refs + 1]
                   ELSE locks[k]]

(* Mutant: the manager may have been closed since the first check.         *)
AdmitLate(j) ==
  /\ Submits(j, "slot", "admitted")
  /\ mine' = [mine EXCEPT ![j] = [k \in Keys[j] |-> LockFor(j, k)]]
  /\ locks' = Referenced(j)
  /\ state' = [state EXCEPT ![j] = "queued"]
  /\ UNCHANGED <<free, known, execution, cancels, results, ending>>

(* ... checks admission again and makes the record, ...                    *)
Admit(j) ==
  /\ ~ closed
  /\ Submits(j, "slot", "admitted")
  /\ mine' = [mine EXCEPT ![j] = [k \in Keys[j] |-> LockFor(j, k)]]
  /\ locks' = Referenced(j)
  /\ state' = [state EXCEPT ![j] = "queued"]
  /\ UNCHANGED <<free, known, execution, cancels, results, ending>>

AdmitRefused(j) ==
  /\ closed
  /\ Submits(j, "slot", "refused")
  /\ free' = free + 1
  /\ UNCHANGED <<locks, mine, known, execution, state, cancels, results, ending>>

(* ... hands it to the executor, ...                                       *)
Enqueue(j) ==
  /\ ~ down
  /\ Submits(j, "admitted", "enqueued")
  /\ queue' = Append(queue, j)
  /\ future' = [future EXCEPT ![j] = "pending"]
  /\ UNCHANGED <<known, worker, got, slots, state, cancels, results, ending>>

(* Mutant: the last reference is not told from the others.                 *)
DereferencedAll(j) ==
  [k \in Key |-> IF k \in Keys[j] THEN [lock |-> None, refs |-> 0] ELSE locks[k]]

(* _release_resource_locks                                                 *)
Dereferenced(j) ==
  [k \in Key |->
     IF k \notin Keys[j] THEN locks[k]
     ELSE IF locks[k].refs = 1 THEN [lock |-> None, refs |-> 0]
     ELSE [locks[k] EXCEPT !.refs = @ - 1]]

EnqueueFails(j) ==
  /\ down
  /\ Submits(j, "admitted", "refused")
  /\ state' = [state EXCEPT ![j] = "absent"]
  /\ locks' = Dereferenced(j)
  /\ free' = free + 1
  /\ UNCHANGED <<mine, known, execution, cancels, results, ending>>

(* ... and notes its future.                                               *)
NoteFuture(j) ==
  /\ Submits(j, "enqueued", "done")
  /\ known' = known \cup {j}
  /\ UNCHANGED <<execution, slots, state, cancels, results, ending>>

-------------------------------------------------------------------------------
Busy == {j \in Job : worker[j] \notin {"idle", "done"}}

(* A free thread of the pool takes the next item; a cancelled one it drops.*)
Take ==
  /\ queue # <<>>
  /\ Cardinality(Busy) < MaxWorkers
  /\ queue' = Tail(queue)
  /\ LET j == Head(queue) IN
       IF future[j] = "pending"
         THEN /\ future' = [future EXCEPT ![j] = "running"]
              /\ worker' = [worker EXCEPT ![j] = "locking"]
         ELSE UNCHANGED <<future, worker>>
  /\ UNCHANGED <<got, submission, slots, state, cancels, results, ending>>

Works(j, here, next) ==
  worker[j] = here /\ worker' = [worker EXCEPT ![j] = next]

(* raise_if_cancelled                                                      *)
Cancelled(j) == j \in token /\ j \notin deferring

Missing(j) == Keys[j] \ got[j]

(* Another job holds the very lock object.                                 *)
Taken(j, k) ==
  \E i \in Job \ {j} : k \in got[i] /\ mine[i][k] = mine[j][k]

(* The next key in sorted order.                                           *)
IsNext(j, k) == k \in Missing(j) /\ \A l \in Missing(j) : k <= l

(* Mutant: the locks are taken in any order.                               *)
LockAnyNext(j) ==
  /\ worker[j] = "locking"
  /\ \E k \in Missing(j) : ~ Taken(j, k) /\ got' = [got EXCEPT ![j] = @ \cup {k}]
  /\ UNCHANGED <<queue, future, worker, submission, slots, state, cancels, results, ending>>

(* _execute acquires the locks in sorted order, ...                        *)
LockNext(j) ==
  /\ worker[j] = "locking"
  /\ \E k \in Missing(j) :
       /\ IsNext(j, k)
       /\ ~ Taken(j, k)
       /\ got' = [got EXCEPT ![j] = @ \cup {k}]
  /\ UNCHANGED <<queue, future, worker, submission, slots, state, cancels, results, ending>>

(* ... looks for a cancellation while it waits and when it has them, ...   *)
GiveUpLocking(j) ==
  /\ Cancelled(j)
  /\ \A k \in Missing(j) : IsNext(j, k) => Taken(j, k)
  /\ Works(j, "locking", "cancelling")
  /\ UNCHANGED <<queue, future, got, submission, slots, state, cancels, results, ending>>

Locked(j) ==
  /\ Missing(j) = {} /\ ~ Cancelled(j)
  /\ Works(j, "locking", "starting")
  /\ UNCHANGED <<queue, future, got, submission, slots, state, cancels, results, ending>>

(* ... and starts.                                                         *)
Start(j) ==
  /\ Works(j, "starting", "body")
  /\ state' = [state EXCEPT ![j] = "running"]
  /\ UNCHANGED <<queue, future, got, submission, slots, cancels, results, ending>>

(* The function enters a protected section, unless it is cancelled, ...    *)
Protect(j) ==
  /\ worker[j] = "body"
  /\ j \in Protects \ (deferring \cup token)
  /\ deferring' = deferring \cup {j}
  /\ UNCHANGED <<accepted, calls, token, execution, submission, slots, state, results, ending>>

(* ... leaves it, by an error or normally, ...                             *)
Unprotect(j) ==
  /\ worker[j] = "body" /\ j \in deferring
  /\ deferring' = deferring \ {j}
  /\ \E next \in {"failing", IF j \in token THEN "cancelling" ELSE "body"} :
       Works(j, "body", next)
  /\ UNCHANGED <<accepted, calls, token, queue, future, got, submission, slots,
                 state, results, ending>>

(* ... stops at a checkpoint, or when its provider does, ...               *)
Stop(j) ==
  /\ j \notin deferring /\ j \in token
  /\ Works(j, "body", "cancelling")
  /\ UNCHANGED <<queue, future, got, submission, slots, state, cancels, results, ending>>

Raise(j) ==
  /\ j \notin deferring
  /\ Works(j, "body", "failing")
  /\ UNCHANGED <<queue, future, got, submission, slots, state, cancels, results, ending>>

(* ... or returns, perhaps with a result.                                  *)
Return(j) ==
  /\ j \notin deferring
  /\ Works(j, "body", "returned")
  /\ \E r \in {"none"} \cup {"returned" : i \in Cleaned \cap {j}} :
       result' = [result EXCEPT ![j] = r]
  /\ UNCHANGED <<queue, future, got, submission, slots, state, cancels, discarded,
                 cleanups, ending>>

(* What becomes of results: they are gone for good, after their cleanup    *)
(* was called if the job has one, or retained.                             *)
HasResult(j) == result[j] \in {"returned", "retained"}

Dropped(J) ==
  LET R == {j \in J : HasResult(j)} IN
  /\ result' = [j \in Job |-> IF j \in R THEN "gone" ELSE result[j]]
  /\ cleanups' = [j \in Job |-> cleanups[j] + (IF j \in R THEN 1 ELSE 0)]

Retained(j) ==
  /\ result' = [result EXCEPT ![j] = IF HasResult(j) THEN "retained" ELSE @]
  /\ UNCHANGED cleanups

(* The checkpoint after the function.                                      *)
StopReturned(j) ==
  /\ Cancelled(j)
  /\ Works(j, "returned", "cancelling")
  /\ Dropped({j})
  /\ UNCHANGED <<queue, future, got, submission, slots, state, cancels, discarded, ending>>

PassReturned(j) ==
  /\ ~ Cancelled(j)
  /\ Works(j, "returned", "completing")
  /\ UNCHANGED <<queue, future, got, submission, slots, state, cancels, results, ending>>

(* _transition to a terminal state: an accepted cancellation wins over a   *)
(* completion, and a result nobody may have any more is cleaned up.        *)
Finish(j, here, outcome) ==
  /\ Works(j, here, "unlocking")
  /\ state' = [state EXCEPT ![j] = outcome]
  /\ UNCHANGED <<queue, future, got, submission, slots, cancels, discarded, ending>>

FinishCancelled(j) ==
  /\ Finish(j, "cancelling", "cancelled")
  /\ UNCHANGED <<result, cleanups>>

FinishFailed(j) ==
  /\ Finish(j, "failing", "failed")
  /\ UNCHANGED <<result, cleanups>>

FinishCompleted(j) ==
  /\ Finish(j, "completing", IF j \in accepted THEN "cancelled" ELSE "completed")
  /\ IF j \in accepted \cup discarded THEN Dropped({j}) ELSE Retained(j)

(* The worker gives back locks, references and slot, one after the other.  *)
Unlock(j) ==
  /\ Works(j, "unlocking", "dereferencing")
  /\ got' = [got EXCEPT ![j] = {}]
  /\ UNCHANGED <<queue, future, submission, slots, state, cancels, results, ending>>

Dereference(j) ==
  /\ Works(j, "dereferencing", "releasing")
  /\ locks' = Dereferenced(j)
  /\ UNCHANGED <<queue, future, got, submission, free, mine, state, cancels, results, ending>>

Release(j) ==
  /\ Works(j, "releasing", "done")
  /\ free' = free + 1
  /\ future' = [future EXCEPT ![j] = "done"]
  /\ UNCHANGED <<queue, got, submission, locks, mine, state, cancels, results, ending>>

-------------------------------------------------------------------------------
(* Mutant: the future need not be there yet.                               *)
WithdrawUnnoted(j) ==
  /\ state[j] = "queued"
  /\ future' = [future EXCEPT ![j] = "cancelled"]
  /\ state' = [state EXCEPT ![j] = "cancelled"]
  /\ locks' = Dereferenced(j)
  /\ free' = free + 1
  /\ UNCHANGED mine

(* cancel, under the manager's lock: a job that has not started is taken   *)
(* back from the executor; any other has to notice its token.              *)
Withdraw(j) ==
  /\ state[j] = "queued" /\ j \in known /\ future[j] = "pending"
  /\ future' = [future EXCEPT ![j] = "cancelled"]
  /\ state' = [state EXCEPT ![j] = "cancelled"]
  /\ locks' = Dereferenced(j)
  /\ free' = free + 1
  /\ UNCHANGED mine

Accept(j) ==
  /\ state[j] \in Active
  /\ accepted' = accepted \cup {j}
  /\ calls' = calls \cup {j}
  /\ \/ Withdraw(j)
     \/ /\ ~ (state[j] = "queued" /\ j \in known /\ future[j] = "pending")
        /\ UNCHANGED <<future, state, slots>>
  /\ UNCHANGED <<token, deferring, queue, worker, got, submission, results>>

Cancel(j) ==
  /\ j \notin calls
  /\ Accept(j)
  /\ UNCHANGED ending

(* cancel, afterwards: the token.                                          *)
Request(j) ==
  /\ j \in calls
  /\ calls' = calls \ {j}
  /\ token' = token \cup {j}
  /\ UNCHANGED <<accepted, deferring, execution, submission, slots, state, results, ending>>

(* discard_result, now or for when there is one.                           *)
Discard(j) ==
  /\ j \in Cleaned \ discarded /\ state[j] # "absent"
  /\ discarded' = discarded \cup {j}
  /\ IF result[j] = "retained" THEN Dropped({j}) ELSE UNCHANGED <<result, cleanups>>
  /\ UNCHANGED <<submission, execution, slots, state, cancels, ending>>

(* shutdown(cancel=True): closing and the scan for results, ...            *)
Close ==
  LET J == {j \in Cleaned : state[j] # "absent"} IN
  /\ Stops /\ ~ closed
  /\ closed' = TRUE
  /\ stopping' = "scanned"
  /\ discarded' = discarded \cup J
  /\ Dropped({j \in J : result[j] = "retained"})
  /\ UNCHANGED <<down, listed, submission, execution, slots, state, cancels>>

(* ... the list of active jobs, ...                                        *)
ListActive ==
  /\ stopping = "scanned"
  /\ stopping' = "cancelling"
  /\ listed' = {j \in Job : state[j] \in Active}
  /\ UNCHANGED <<closed, down, submission, execution, slots, state, cancels, results>>

(* ... their cancellation one by one (a job that is over, or gone because  *)
(* another cancellation was faster, is left as it is), ...                 *)
CancelListed(j) ==
  /\ j \in listed
  /\ listed' = listed \ {j}
  /\ \/ j \notin calls /\ Accept(j)
     \/ /\ state[j] \notin Active \/ j \in calls
        /\ UNCHANGED <<submission, execution, slots, state, cancels, results>>
  /\ UNCHANGED <<closed, down, stopping>>

(* ... and the end of the executor.                                        *)
ShutExecutor ==
  /\ stopping = "cancelling" /\ listed = {}
  /\ stopping' = "over"
  /\ down' = TRUE
  /\ UNCHANGED <<closed, listed, submission, execution, slots, state, cancels, results>>

Execute(j) ==
  \/ LockNext(j) \/ GiveUpLocking(j) \/ Locked(j) \/ Start(j)
  \/ Unprotect(j) \/ Stop(j) \/ Raise(j) \/ Return(j)
  \/ StopReturned(j) \/ PassReturned(j)
  \/ FinishCancelled(j) \/ FinishFailed(j) \/ FinishCompleted(j)
  \/ Unlock(j) \/ Dereference(j) \/ Release(j)

Submit(j) ==
  \/ TakeSlot(j) \/ SubmitRefused(j) \/ Admit(j) \/ AdmitRefused(j)
  \/ Enqueue(j) \/ EnqueueFails(j) \/ NoteFuture(j)

Next ==
  \/ \E j \in Job : Submit(j) \/ Execute(j) \/ Protect(j) \/ Cancel(j) \/ Request(j)
                     \/ Discard(j) \/ CancelListed(j)
  \/ Take \/ Close \/ ListActive \/ ShutExecutor

Spec == Init /\ [][Next]_vars

(* Threads are scheduled, and the functions they run end.                  *)
Ends(j) == Stop(j) \/ Raise(j) \/ Return(j)

LiveSpec ==
  /\ Spec
  /\ WF_vars(Take)
  /\ \A j \in Job :
       /\ WF_vars(Submit(j))
       /\ WF_vars(Execute(j))
       /\ SF_vars(Ends(j))

-------------------------------------------------------------------------------
(* Types of the variables.                                                 *)
TypeOK ==
  /\ closed \in BOOLEAN /\ down \in BOOLEAN
  /\ free \in 0..MaxPending
  /\ locks \in [Key -> [lock : Job \cup {None}, refs : 0..Cardinality(Job)]]
  /\ \A j \in Job : mine[j] \in [Keys[j] -> Job \cup {None}]
  /\ submitter \in [Job -> {"new", "slot", "admitted", "enqueued", "done", "refused"}]
  /\ queue \in Seq(Job)
  /\ future \in [Job -> {"none", "pending", "running", "cancelled", "done"}]
  /\ worker \in [Job -> {"idle", "locking", "starting", "body", "returned", "cancelling",
                         "failing", "completing", "unlocking", "dereferencing",
                         "releasing", "done"}]
  /\ \A j \in Job : got[j] \subseteq Keys[j]
  /\ state \in [Job -> {"absent"} \cup Active \cup Terminal]
  /\ result \in [Job -> {"none", "returned", "retained", "gone"}]
  /\ cleanups \in [Job -> Nat]
  /\ {known, accepted, calls, token, deferring, discarded, listed} \subseteq SUBSET Job
  /\ stopping \in {"no", "scanned", "cancelling", "over"}

(* Two running jobs never share a resource key, although the lock of a key *)
(* is made and thrown away as the jobs that name it come and go.           *)
ResourcesExclude ==
  \A i, j \in Job : i # j /\ {worker[i], worker[j]} \subseteq {"starting", "body", "returned"}
                      => Keys[i] \cap Keys[j] = {}

(* The threads that hold a slot of the queue: a submitting one, or the one *)
(* that executes, until the job is withdrawn or over.                      *)
HoldsSlot(j) ==
  \/ submitter[j] \in {"slot", "admitted"}
  \/ submitter[j] \in {"enqueued", "done"} /\ future[j] # "cancelled" /\ worker[j] # "done"

(* Every slot is given back exactly once, by the submission that fails,    *)
(* the cancellation that withdraws a job or the worker that ends it.       *)
SlotsAccounted == free + Cardinality({j \in Job : HoldsSlot(j)}) = MaxPending

(* The lock of a key stays the same object while a job references it (the  *)
(* manager's RuntimeError is never raised), and none stays behind when the *)
(* jobs are over.                                                          *)
References(j) ==
  /\ state[j] # "absent"
  /\ future[j] # "cancelled" /\ worker[j] \notin {"releasing", "done"}

LockTableExact ==
  \A k \in Key :
    LET Users == {j \in Job : k \in Keys[j] /\ References(j)} IN
    /\ locks[k].refs = Cardinality(Users)
    /\ \A j \in Users : mine[j][k] = locks[k].lock

(* A cancellation that cancel has accepted is never followed by success,   *)
(* however late its token is requested.                                    *)
AcceptedNeverCompletes == \A j \in accepted : state[j] # "completed"

(* A result with a cleanup is either retained or cleaned up, once, in      *)
(* whatever order completion, cancellation, discarding and shutdown come;  *)
(* and nobody retains what was discarded.                                  *)
ResultsReleasedOnce ==
  \A j \in Job :
    /\ cleanups[j] = (IF result[j] = "gone" THEN 1 ELSE 0)
    /\ result[j] = "retained" => state[j] = "completed" /\ j \notin discarded
    /\ state[j] \in Terminal => result[j] # "returned"

(* Shutdown misses no job: once the executor is down every job that is     *)
(* still active has been told to stop, and no result needs a cleanup.      *)
ShutdownReachesAll ==
  stopping = "over" =>
    /\ \A j \in Job : state[j] \in Active => j \in accepted
    /\ \A j \in Cleaned : result[j] # "retained"

(* Slots and results: both are released exactly once, by whichever of the  *)
(* threads that meet over a job comes first.                               *)
NothingLeaks == SlotsAccounted /\ ResultsReleasedOnce

(* Locks: running jobs exclude each other, and the table of the locks knows*)
(* exactly who refers to them.                                             *)
ResourcesExact == ResourcesExclude /\ LockTableExact

(* A cancellation that was accepted holds, that of a shutdown included.    *)
CancellationsHold == AcceptedNeverCompletes /\ ShutdownReachesAll

(* All of them: what a job takes it gives back, whatever threads meet over *)
(* it, and what its callers were told stays true.                          *)
JobsHold == NothingLeaks /\ ResourcesExact /\ CancellationsHold

(* Every admitted job is over some day, also when it needs several         *)
(* resources that others hold (the locks are taken in one order).          *)
JobsEnd == \A j \in Job : state[j] = "queued" ~> state[j] \in Terminal \cup {"absent"}
===============================================================================
