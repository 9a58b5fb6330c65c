----------------------------- MODULE JobLifecycle -----------------------------
(***************************************************************************)
(* JobLifecycleService and its repository (application/jobs.py,            *)
(* storage/job_events.py) between a JobManager and the clients of the job  *)
(* routes (api/app.py): every snapshot of a job is delivered by the thread *)
(* that made it, after it has left the manager's lock, and recorded in an  *)
(* event log that outlives the process.  What JobManager.tla says of slots *)
(* and resource locks is left out; a job's snapshots are kept.             *)
(***************************************************************************)
EXTENDS Integers, FiniteSets, SequencesExt

CONSTANTS
  MaxId,     \* bound of the job numbers
  MaxStarts, \* bound of the starts of the process
  MaxProgress, \* bound of the progress reports of a job
  Reader,    \* clients that stream the events of a job
  Watched,   \* Watched[r]: the job of client r
  Retained,  \* max_events_per_job
  QueueSize, \* subscriber_queue_size
  Faulty,    \* starts of the process in which the repository may fail to write
  None       \* no snapshot

Id == 1..MaxId

ASSUME JobLifecycleAssumption ==
  /\ {MaxId, MaxStarts, Retained, QueueSize} \subseteq Nat \ {0}
  /\ MaxProgress \in Nat
  /\ Watched \in [Reader -> Id]
  /\ Faulty \subseteq 1..MaxStarts

VARIABLES
  starts,    \* starts of the process so far
  service,   \* "down", "open", "closed" (service), "shut" (service and manager)
  nextId,    \* _next_id of the manager
  core,      \* core[j]: the manager's snapshot of j, or None
  work,      \* control state of the thread that submits and of the one that runs j
  token,     \* jobs whose token is requested
  deferring, \* jobs inside a protected section
  accepted,  \* jobs with cancellation_accepted_at
  call,      \* control state of the thread that cancels j
  notice,    \* notice[t][j]: snapshot the thread t of j has still to deliver
  log,       \* log[j]: all events recorded for j; the repository keeps the last
  sub,       \* sub[r]: stream of client r
  seen,      \* seen[r]: sequence of the last event client r has
  outcome,   \* history: how j ended in the manager, or None
  promised   \* history: jobs that were over when safe_to_quit was granted

Thread == {"submitter", "worker", "canceller"}
manager == <<nextId, core, work, token, deferring, accepted, call>>
history == <<outcome, promised>>
vars == <<starts, service, nextId, core, work, token, deferring, accepted, call,
          notice, log, sub, seen, outcome, promised>>

CoreTerminal == {"completed", "failed", "cancelled"}
Terminal == CoreTerminal \cup {"interrupted"}

Over(j) == log[j] # <<>> /\ Last(log[j]).state \in Terminal

NoStream == [mode |-> "off", upto |-> 0, queue |-> <<>>, overflowed |-> FALSE]
Quiet == [t \in Thread |-> [j \in Id |-> None]]

Init ==
  /\ starts = 1 /\ service = "open"
  /\ nextId = 1
  /\ core = [j \in Id |-> None]
  /\ work = [j \in Id |-> "none"]
  /\ token = {} /\ deferring = {} /\ accepted = {}
  /\ call = [j \in Id |-> "idle"]
  /\ notice = Quiet
  /\ log = [j \in Id |-> <<>>]
  /\ sub = [r \in Reader |-> NoStream]
  /\ seen = [r \in Reader |-> 0]
  /\ outcome = [j \in Id |-> None]
  /\ promised = {}

-------------------------------------------------------------------------------
(* What a snapshot shows of the job.                                       *)
PublicState(s) ==
  IF s.state # "running" THEN s.state
  ELSE IF s.pending THEN "pending-safe-point"
  ELSE IF s.requested THEN "cancelling" ELSE "running"

Public(s) == [state |-> PublicState(s), requested |-> s.requested, progress |-> s.progress]

(* Mutant: a late snapshot reopens the job.                                *)
RecordedLate(j, s) ==
  IF log[j] # <<>> /\ Last(log[j]) = Public(s)
    THEN log[j] ELSE Append(log[j], Public(s))

(* record_core: nothing after a terminal event, and no event twice.        *)
Recorded(j, s) ==
  IF log[j] # <<>> /\ (Over(j) \/ Last(log[j]) = Public(s))
    THEN log[j] ELSE Append(log[j], Public(s))

Streams(r) == sub[r].mode \in {"replaying", "checking", "live"} /\ ~ sub[r].overflowed

(* Mutant: a full queue forgets its oldest event.                          *)
OfferedDropping(r, n) ==
  IF Len(sub[r].queue) < QueueSize
    THEN [sub[r] EXCEPT !.queue = Append(@, n)]
    ELSE [sub[r] EXCEPT !.queue = Append(Tail(@), n)]

(* Every stream of the job gets the event, or falls behind.                *)
Offered(r, n) ==
  IF Len(sub[r].queue) < QueueSize
    THEN [sub[r] EXCEPT !.queue = Append(@, n)]
    ELSE [sub[r] EXCEPT !.overflowed = TRUE]

(* _on_snapshot                                                            *)
Deliver(t, j) ==
  /\ notice[t][j] # None
  /\ notice' = [notice EXCEPT ![t][j] = None]
  /\ LET after == Recorded(j, notice[t][j]) IN
       \/ /\ service = "open"
          /\ log' = [log EXCEPT ![j] = after]
          /\ sub' = [r \in Reader |->
                       IF after # log[j] /\ Watched[r] = j /\ Streams(r)
                         THEN Offered(r, Len(after)) ELSE sub[r]]
       \/ /\ service # "open" \/ starts \in Faulty
          /\ UNCHANGED <<log, sub>>
  /\ UNCHANGED <<starts, service, manager, seen, history>>

Silent(t, j) == notice[t][j] = None

Tell(t, j, s) == notice' = [notice EXCEPT ![t][j] = s]

-------------------------------------------------------------------------------
(* The manager: _submit makes the record, tells, and hands over.           *)
Submit(j) ==
  LET s == [state |-> "queued", requested |-> FALSE, pending |-> FALSE, progress |-> 0] IN
  /\ service \in {"open", "closed"}
  /\ j = nextId /\ j \in Id
  /\ nextId' = nextId + 1
  /\ core' = [core EXCEPT ![j] = s]
  /\ work' = [work EXCEPT ![j] = "submitting"]
  /\ Tell("submitter", j, s)
  /\ outcome' = [outcome EXCEPT ![j] = None]
  /\ promised' = promised \ {j}
  /\ UNCHANGED <<starts, service, token, deferring, accepted, call, log, sub, seen>>

Enqueue(j) ==
  /\ work[j] = "submitting" /\ Silent("submitter", j)
  /\ work' = [work EXCEPT ![j] = "pending"]
  /\ UNCHANGED <<starts, service, nextId, core, token, deferring, accepted, call, notice,
                 log, sub, seen, history>>

EnqueueFails(j) ==
  /\ work[j] = "submitting" /\ Silent("submitter", j)
  /\ service = "shut"
  /\ work' = [work EXCEPT ![j] = "none"]
  /\ core' = [core EXCEPT ![j] = None]
  /\ UNCHANGED <<starts, service, nextId, token, deferring, accepted, call, notice,
                 log, sub, seen, history>>

(* _execute: the worker goes on when it has delivered what it told.        *)
Works(j, here) == work[j] = here /\ Silent("worker", j)

Begin(j) ==
  /\ Works(j, "pending")
  /\ j \notin token
  /\ LET s == [core[j] EXCEPT !.state = "running"] IN
       core' = [core EXCEPT ![j] = s] /\ Tell("worker", j, s)
  /\ work' = [work EXCEPT ![j] = "body"]
  /\ UNCHANGED <<starts, service, nextId, token, deferring, accepted, call,
                 log, sub, seen, history>>

Report(j) ==
  /\ Works(j, "body")
  /\ core[j].progress < MaxProgress
  /\ LET s == [core[j] EXCEPT !.progress = @ + 1] IN
       core' = [core EXCEPT ![j] = s] /\ Tell("worker", j, s)
  /\ UNCHANGED <<starts, service, nextId, work, token, deferring, accepted, call,
                 log, sub, seen, history>>

Protect(j) ==
  /\ Works(j, "body")
  /\ j \notin deferring \cup token
  /\ deferring' = deferring \cup {j}
  /\ UNCHANGED <<starts, service, nextId, core, work, token, accepted, call, notice,
                 log, sub, seen, history>>

(* The end of a protected section tells that nothing is deferred any more. *)
Unprotect(j) ==
  /\ Works(j, "body") /\ j \in deferring
  /\ deferring' = deferring \ {j}
  /\ IF j \in token
       THEN LET s == [core[j] EXCEPT !.requested = TRUE, !.pending = FALSE] IN
            core' = [core EXCEPT ![j] = s] /\ Tell("worker", j, s)
       ELSE UNCHANGED <<core, notice>>
  /\ UNCHANGED <<starts, service, nextId, work, token, accepted, call, log, sub, seen, history>>

(* _transition to a terminal state                                         *)
Ended(j, result) ==
  IF result = "failed" THEN [core[j] EXCEPT !.state = result]
  ELSE IF result = "completed" /\ j \notin accepted THEN [core[j] EXCEPT !.state = result]
  ELSE [core[j] EXCEPT !.state = "cancelled", !.requested = TRUE, !.pending = FALSE]

End(j) ==
  /\ \/ Works(j, "body") /\ j \notin deferring
     \/ Works(j, "pending") /\ j \in token
  /\ \E result \in {"failed", "completed", "cancelled"} :
       /\ result = "cancelled" => j \in token
       /\ work[j] = "pending" => result = "cancelled"
       /\ LET s == Ended(j, result) IN
            /\ core' = [core EXCEPT ![j] = s]
            /\ Tell("worker", j, s)
            /\ outcome' = [outcome EXCEPT ![j] = s.state]
  /\ work' = [work EXCEPT ![j] = "over"]
  /\ UNCHANGED <<starts, service, nextId, token, deferring, accepted, call, log, sub, seen,
                 promised>>

(* cancel: the acceptance, perhaps with the job withdrawn, ...             *)
CoreActive(j) == core[j] # None /\ core[j].state \in {"queued", "running"}

Accept(j) ==
  /\ service # "down" /\ call[j] = "idle" /\ Silent("canceller", j)
  /\ CoreActive(j)
  /\ accepted' = accepted \cup {j}
  /\ core' = [core EXCEPT ![j].requested = TRUE]
  /\ call' = [call EXCEPT ![j] = "accepted"]
  /\ UNCHANGED <<starts, service, nextId, work, token, deferring, notice, log, sub, seen,
                 history>>

Withdraw(j) ==
  /\ service # "down" /\ call[j] = "idle" /\ Silent("canceller", j)
  /\ work[j] = "pending" /\ Silent("worker", j)
  /\ accepted' = accepted \cup {j}
  /\ core' = [core EXCEPT ![j].state = "cancelled", ![j].requested = TRUE]
  /\ work' = [work EXCEPT ![j] = "over"]
  /\ call' = [call EXCEPT ![j] = "withdrawn"]
  /\ outcome' = [outcome EXCEPT ![j] = "cancelled"]
  /\ UNCHANGED <<starts, service, nextId, token, deferring, notice, log, sub, seen, promised>>

(* ... the token, whose state is read before the listener has the lock, ...*)
Request(j) ==
  /\ call[j] = "accepted"
  /\ token' = token \cup {j}
  /\ call' = [call EXCEPT ![j] = IF j \in token THEN "idle"
                                 ELSE IF j \in deferring THEN "deferred" ELSE "requested"]
  /\ UNCHANGED <<starts, service, nextId, core, work, deferring, accepted, notice, log, sub,
                 seen, history>>

RequestWithdrawn(j) ==
  /\ call[j] = "withdrawn"
  /\ token' = token \cup {j}
  /\ call' = [call EXCEPT ![j] = "idle"]
  /\ Tell("canceller", j, core[j])
  /\ UNCHANGED <<starts, service, nextId, core, work, deferring, accepted, log, sub, seen,
                 history>>

(* ... and _sync_cancellation.                                             *)
Sync(j) ==
  /\ call[j] \in {"requested", "deferred"}
  /\ call' = [call EXCEPT ![j] = "idle"]
  /\ IF CoreActive(j)
       THEN LET s == [core[j] EXCEPT !.requested = TRUE, !.pending = (call[j] = "deferred")] IN
            core' = [core EXCEPT ![j] = s] /\ Tell("canceller", j, s)
       ELSE UNCHANGED <<core, notice>>
  /\ UNCHANGED <<starts, service, nextId, work, token, deferring, accepted, log, sub, seen,
                 history>>

-------------------------------------------------------------------------------
(* The stream of a client: subscribe replays what it has not acknowledged  *)
(* and registers in one step, ...                                          *)
Oldest(j) == IF Len(log[j]) > Retained THEN Len(log[j]) - Retained + 1 ELSE 1

Subscribe(r) ==
  LET j == Watched[r] IN
  /\ service = "open" /\ sub[r].mode = "off"
  /\ log[j] # <<>> /\ seen[r] >= Oldest(j) - 1
  /\ sub' = [sub EXCEPT ![r] = [NoStream EXCEPT !.mode = "replaying", !.upto = Len(log[j])]]
  /\ UNCHANGED <<starts, service, manager, notice, log, seen, history>>

(* ... an expired gap makes the client fetch the snapshot, ...             *)
SubscribeExpired(r) ==
  /\ service = "open" /\ sub[r].mode = "off"
  /\ seen[r] < Oldest(Watched[r]) - 1
  /\ seen' = [seen EXCEPT ![r] = Len(log[Watched[r]])]
  /\ UNCHANGED <<starts, service, manager, notice, log, sub, history>>

Has(r, n) == log[Watched[r]][n].state \in Terminal

(* ... event_stream sends the replay, ...                                  *)
SendReplay(r) ==
  /\ sub[r].mode = "replaying"
  /\ seen' = [seen EXCEPT ![r] = sub[r].upto]
  /\ sub' = [sub EXCEPT ![r].mode =
               IF seen[r] < sub[r].upto /\ Has(r, sub[r].upto) THEN "finished" ELSE "checking"]
  /\ UNCHANGED <<starts, service, manager, notice, log, history>>

(* ... stops if the job is over, ...                                       *)
CheckEnded(r) ==
  /\ sub[r].mode = "checking"
  /\ sub' = [sub EXCEPT ![r].mode = IF Over(Watched[r]) THEN "stopped" ELSE "live"]
  /\ UNCHANGED <<starts, service, manager, notice, log, seen, history>>

(* ... and sends the events one by one to the last.                        *)
SendEvent(r) ==
  /\ sub[r].mode = "live" /\ ~ sub[r].overflowed /\ sub[r].queue # <<>>
  /\ LET n == Head(sub[r].queue) IN
       /\ seen' = [seen EXCEPT ![r] = n]
       /\ sub' = [sub EXCEPT ![r].queue = Tail(@),
                             ![r].mode = IF Has(r, n) THEN "finished" ELSE @]
  /\ UNCHANGED <<starts, service, manager, notice, log, history>>

(* A stream that fell behind, one that stopped: the client fetches the     *)
(* snapshot of the job.                                                    *)
Resync(r) ==
  /\ service = "open"
  /\ sub[r].mode = "stopped" \/ (sub[r].mode = "live" /\ sub[r].overflowed)
  /\ sub' = [sub EXCEPT ![r] = NoStream]
  /\ seen' = [seen EXCEPT ![r] = Len(log[Watched[r]])]
  /\ UNCHANGED <<starts, service, manager, notice, log, history>>

(* The connection is lost.                                                 *)
Disconnect(r) ==
  /\ sub[r].mode \in {"replaying", "checking", "live"}
  /\ sub' = [sub EXCEPT ![r] = NoStream]
  /\ UNCHANGED <<starts, service, manager, notice, log, seen, history>>

-------------------------------------------------------------------------------
(* prepare_shutdown: safe_to_quit when no job of the manager is active.    *)
PrepareShutdown ==
  /\ service = "open"
  /\ \A j \in Id : ~ CoreActive(j)
  /\ promised' = promised \cup {j \in Id : core[j] # None}
  /\ UNCHANGED <<starts, service, manager, notice, log, sub, seen, outcome>>

(* close: the service, its subscribers, and then the manager.              *)
Close ==
  /\ service = "open" /\ starts < MaxStarts
  /\ service' = "closed"
  /\ sub' = [r \in Reader |-> IF sub[r].mode \in {"replaying", "checking", "live"}
                                THEN NoStream ELSE sub[r]]
  /\ UNCHANGED <<starts, manager, notice, log, seen, history>>

Shut ==
  /\ service = "closed"
  /\ service' = "shut"
  /\ UNCHANGED <<starts, manager, notice, log, sub, seen, history>>

Gone ==
  /\ service' = "down"
  /\ core' = [j \in Id |-> None]
  /\ work' = [j \in Id |-> "none"]
  /\ call' = [j \in Id |-> "idle"]
  /\ token' = {} /\ deferring' = {} /\ accepted' = {}
  /\ notice' = Quiet
  /\ sub' = [r \in Reader |-> IF sub[r].mode \in {"replaying", "checking", "live"}
                                THEN NoStream ELSE sub[r]]
  /\ UNCHANGED <<starts, nextId, log, seen, history>>

(* The process ends when its threads have, ...                             *)
Quit ==
  /\ service = "shut"
  /\ \A j \in Id : /\ work[j] \in {"none", "over"} /\ call[j] = "idle"
                   /\ \A t \in Thread : Silent(t, j)
  /\ Gone

(* ... or is killed.                                                       *)
Crash == service # "down" /\ starts < MaxStarts /\ Gone

(* Mutant: only jobs that had started are reconciled.                      *)
InterruptedStarted(j) ==
  IF log[j] = <<>> \/ Over(j) \/ Last(log[j]).state = "queued" THEN log[j]
  ELSE Append(log[j], [Last(log[j]) EXCEPT !.state = "interrupted"])

(* reconcile_active and next_job_number, at the next start.                *)
Interrupted(j) ==
  IF log[j] = <<>> \/ Over(j) THEN log[j]
  ELSE Append(log[j], [Last(log[j]) EXCEPT !.state = "interrupted"])

(* Mutant: jobs that are over do not count.                                *)
NextNumberActive == CHOOSE n \in 1..(MaxId + 1) :
                      /\ \A j \in Id : log[j] # <<>> /\ ~ Over(j) => j < n
                      /\ n = 1 \/ (log[n - 1] # <<>> /\ ~ Over(n - 1))

NextNumber == CHOOSE n \in 1..(MaxId + 1) :
                /\ \A j \in Id : log[j] # <<>> => j < n
                /\ n = 1 \/ log[n - 1] # <<>>

Start ==
  /\ service = "down" /\ starts < MaxStarts
  /\ service' = "open" /\ starts' = starts + 1
  /\ nextId' = NextNumber
  /\ log' = [j \in Id |-> Interrupted(j)]
  /\ UNCHANGED <<core, work, token, deferring, accepted, call, notice, sub, seen, history>>

Run(j) == Enqueue(j) \/ EnqueueFails(j) \/ Begin(j) \/ End(j)
Stream(r) == CheckEnded(r) \/ SendEvent(r) \/ Resync(r)

Next ==
  \/ \E j \in Id : \/ Submit(j) \/ Run(j) \/ Report(j) \/ Protect(j) \/ Unprotect(j)
                   \/ Accept(j) \/ Withdraw(j) \/ Request(j) \/ RequestWithdrawn(j) \/ Sync(j)
                   \/ \E t \in Thread : Deliver(t, j)
  \/ \E r \in Reader : \/ Subscribe(r) \/ SubscribeExpired(r) \/ SendReplay(r)
                       \/ Stream(r) \/ Disconnect(r)
  \/ PrepareShutdown \/ Close \/ Shut \/ Quit \/ Crash \/ Start

Spec == Init /\ [][Next]_vars

(* Threads are scheduled, functions end, every process but the last ends   *)
(* some day and is started again, and a client that lost its stream opens  *)
(* it again.                                                               *)
LiveSpec ==
  /\ Spec
  /\ \A j \in Id : /\ WF_vars(Run(j)) /\ SF_vars(End(j)) /\ WF_vars(Unprotect(j))
                   /\ WF_vars(Request(j)) /\ WF_vars(RequestWithdrawn(j)) /\ WF_vars(Sync(j))
                   /\ \A t \in Thread : WF_vars(Deliver(t, j))
  /\ \A r \in Reader : /\ WF_vars(Subscribe(r)) /\ WF_vars(SubscribeExpired(r))
                       /\ SF_vars(SendReplay(r)) /\ WF_vars(Stream(r))
  /\ WF_vars(Shut) /\ WF_vars(Quit) /\ WF_vars(Crash) /\ WF_vars(Start)

-------------------------------------------------------------------------------
Snapshot == [state : {"queued", "running"} \cup CoreTerminal, requested : BOOLEAN,
             pending : BOOLEAN, progress : 0..MaxProgress]
Event == [state : {"queued", "running", "cancelling", "pending-safe-point"} \cup Terminal,
          requested : BOOLEAN, progress : 0..MaxProgress]

(* None stands for no snapshot.                                            *)
ASSUME NoSnapshot == None \notin Snapshot

(* Types of the variables.                                                 *)
TypeOK ==
  /\ starts \in 1..MaxStarts
  /\ service \in {"down", "open", "closed", "shut"}
  /\ nextId \in 1..(MaxId + 1)
  /\ core \in [Id -> Snapshot \cup {None}]
  /\ work \in [Id -> {"none", "submitting", "pending", "body", "over"}]
  /\ {token, deferring, accepted, promised} \subseteq SUBSET Id
  /\ call \in [Id -> {"idle", "accepted", "withdrawn", "requested", "deferred"}]
  /\ notice \in [Thread -> [Id -> Snapshot \cup {None}]]
  /\ log \in [Id -> Seq(Event)]
  /\ \A r \in Reader :
       /\ sub[r].mode \in {"off", "replaying", "checking", "live", "finished", "stopped"}
       /\ sub[r].upto \in Nat /\ sub[r].overflowed \in BOOLEAN
       /\ sub[r].queue \in Seq(Nat) /\ Len(sub[r].queue) <= QueueSize
       /\ seen[r] \in Nat
  /\ outcome \in [Id -> CoreTerminal \cup {None}]

(* A job has at most one terminal event, it is the last one, and it is what*)
(* became of the job, whatever late snapshot of another thread is delivered*)
(* after it; and it is no success if a client was shown a cancellation.    *)
OneOutcome ==
  \A j \in Id :
    /\ \A n \in 1..(Len(log[j]) - 1) : log[j][n].state \notin Terminal
    /\ Over(j) /\ Last(log[j]).state # "interrupted" => Last(log[j]).state = outcome[j]
    /\ (\E n \in 1..Len(log[j]) : log[j][n].state \in {"cancelling", "pending-safe-point"})
         => Last(log[j]).state # "completed"

(* Replay and queue together give a stream every event once, unless it is  *)
(* marked as having fallen behind.                                         *)
StreamsContiguous ==
  \A r \in Reader :
    Streams(r) =>
      LET base == IF sub[r].mode = "replaying" THEN sub[r].upto ELSE seen[r] IN
      sub[r].queue = [i \in 1..(Len(log[Watched[r]]) - base) |-> base + i]

(* Both: an event tells the truth, and a stream tells every event.         *)
EventsAreTold == OneOutcome /\ StreamsContiguous

(* A job number that the log knows is not given to another job.            *)
NumbersAreFresh ==
  [][\A j \in Id : core[j] = None /\ core'[j] # None => log[j] = <<>>]_vars

(* Every job that is in the log is over there some day, also when the      *)
(* process dies or its last snapshot was dropped.                          *)
JobsAreReported == \A j \in Id : log[j] # <<>> ~> Over(j)

(* A client that reconnects and fetches learns how its job ended.          *)
ClientsLearn ==
  \A r \in Reader : Over(Watched[r]) ~> Over(Watched[r]) /\ seen[r] = Len(log[Watched[r]])

(* Both: the log learns the end of a job, and a client learns it from it.  *)
EndsAreLearnt == JobsAreReported /\ ClientsLearn

(* ShutdownAssessment promises that the sidecar can be terminated: a job   *)
(* that was over then is not reported as interrupted later.                *)
SafeToQuitIsSafe ==
  \A j \in promised : Over(j) => Last(log[j]).state # "interrupted"

(* The client tells that updates ended before the task finished when the   *)
(* stream stops and it has no terminal event: then the job is not over.    *)
StopsOnlyWhenTold ==
  \A r \in Reader :
    sub[r].mode = "stopped" => seen[r] # 0 /\ Has(r, seen[r])
===============================================================================
