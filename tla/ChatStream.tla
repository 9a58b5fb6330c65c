------------------------------ MODULE ChatStream ------------------------------
(***************************************************************************)
(* Chat runs that stream (llm/chat_streaming.py, llm/chat.py, the streamed *)
(* half of llm/service.py, llm/async_stream.py): one event loop, in which  *)
(* tasks consume what provider threads produce, clients follow and cancel  *)
(* runs, and every run leaves an audit row and an operation receipt in the *)
(* database.                                                               *)
(*                                                                         *)
(* A coroutine gives the loop away only where it waits.  Between two such  *)
(* points it commits to the database more than once, and the process can   *)
(* die between two commits; agenda holds what the running coroutine has    *)
(* still to do before another one can run.  Threads run at any time.       *)
(***************************************************************************)
EXTENDS Integers, FiniteSets, SequencesExt

CONSTANTS
  Run,       \* run identifiers, each of which is given once
  Session,   \* session identifiers, each of which is given once
  Of,        \* Of[r]: the session that run r belongs to
  Reader,    \* clients that follow the events of a run
  Watched,   \* Watched[u]: the run that client u follows
  MaxStarts, \* bound: starts of the process
  MaxChunks, \* bound: chunks of a provider's answer
  MaxCancels, \* bound: cancellations of one run
  MaxPairs,  \* message pairs of a session, CHAT_MAX_MESSAGES / 2
  MaxRuns,   \* runs the service keeps, CHAT_MAX_ACTIVE_SESSIONS
  Replay,    \* events of a run that the replay bytes have room for
  QueueSize  \* items of a provider's queue

ASSUME ChatStreamAssumption ==
  /\ Of \in [Run -> Session]
  /\ Watched \in [Reader -> Run]
  /\ {MaxStarts, MaxPairs, MaxRuns, Replay, QueueSize} \subseteq Nat \ {0}
  /\ {MaxChunks, MaxCancels} \subseteq Nat

(* The mark of a synchronous request in pairs is no run.                   *)
ASSUME NoSync == "sync" \notin Run

VARIABLES
  starts,   \* starts of the process so far
  service,  \* "down", "starting", "open", "closing", "shut"
  agenda,   \* rest of the running coroutine, up to where it waits
  row,      \* row[r]: status of the audit row (durable)
  receipt,  \* receipt[r]: outcome of the operation receipt (durable)
  session,  \* session[s]: "new", "open" or "gone"
  pairs,    \* pairs[s]: runs whose messages the session holds, in order
  busy,     \* sessions with a request in progress
  syncing,  \* sessions whose request is a synchronous one
  known,    \* runs in _runs
  events,   \* events[r]: all events of r; the replay keeps the last ones
  said,     \* said[r]: what the answer consists of so far
  task,     \* control state of the task of r
  producer, \* producer[r]: the provider thread's state, or the item it waits to put
  chan,     \* chan[r]: the bridge's queue
  stop,     \* runs whose provider thread is told to stop
  mode,     \* mode[u]: state of the stream of client u
  pend,     \* pend[u]: event numbers the stream is about to send
  seen      \* seen[u]: the last event number client u has

durable == <<row, receipt>>
sessions == <<session, pairs, busy, syncing>>
threads == <<producer, chan>>
readers == <<mode, pend, seen>>
vars == <<starts, service, agenda, row, receipt, session, pairs, busy, syncing, known,
          events, said, task, producer, chan, stop, mode, pend, seen>>

Terminal == {"completed", "interrupted", "failed"}
Outcome == {"succeeded", "failed", "timed_out", "cancelled", "recovered"}
Chunk == {"text", "blank"}
Item == Chunk \cup {"fail", "end"}

Over(r) == events[r] # <<>> /\ Last(events[r]) \in Terminal

Init ==
  /\ starts = 1 /\ service = "open" /\ agenda = <<>>
  /\ row = [r \in Run |-> "none"]
  /\ receipt = [r \in Run |-> "none"]
  /\ session = [s \in Session |-> "new"]
  /\ busy = {} /\ syncing = {}
  /\ pairs = [s \in Session |-> <<>>]
  /\ known = {}
  /\ events = [r \in Run |-> <<>>]
  /\ said = [r \in Run |-> "nothing"]
  /\ task = [r \in Run |-> "none"]
  /\ producer = [r \in Run |-> "none"]
  /\ chan = [r \in Run |-> <<>>]
  /\ stop = {}
  /\ mode = [u \in Reader |-> "off"]
  /\ pend = [u \in Reader |-> <<>>]
  /\ seen = [u \in Reader |-> 0]

(* The loop is free for another coroutine.                                 *)
Idle == service \in {"open", "closing"} /\ agenda = <<>>

Todo(does, r, what) == [does |-> does, run |-> r, what |-> what]

Doing(does, r) == agenda # <<>> /\ Head(agenda).does = does /\ Head(agenda).run = r

Done == agenda' = Tail(agenda)

(* _publish: nothing follows a terminal event.                             *)
Published(r, type) ==
  [events EXCEPT ![r] = IF Over(r) THEN @ ELSE Append(@, type)]

-------------------------------------------------------------------------------
(* ChatService.start and teardown, in threads of the pool.                 *)
OpenSession(s) ==
  /\ service = "open" /\ session[s] = "new"
  /\ session' = [session EXCEPT ![s] = "open"]
  /\ UNCHANGED <<starts, service, agenda, durable, pairs, busy, syncing, known, events, said,
                 task, threads, stop, readers>>

TeardownSession(s) ==
  /\ service \in {"open", "closing"} /\ session[s] = "open" /\ s \notin busy
  /\ session' = [session EXCEPT ![s] = "gone"]
  /\ pairs' = [pairs EXCEPT ![s] = <<>>]
  /\ UNCHANGED <<starts, service, agenda, durable, busy, syncing, known, events, said,
                 task, threads, stop, readers>>

(* _reserve_run                                                            *)
Reservable(s) == session[s] = "open" /\ s \notin busy /\ Len(pairs[s]) < MaxPairs

(* ChatService.run, in a thread: the answer is added unless the service    *)
(* has been closed meanwhile.                                              *)
BeginSync(s) ==
  /\ service \in {"open", "closing"} /\ Reservable(s)
  /\ busy' = busy \cup {s}
  /\ syncing' = syncing \cup {s}
  /\ UNCHANGED <<starts, service, agenda, durable, session, pairs, known, events, said,
                 task, threads, stop, readers>>

EndSync(s) ==
  /\ s \in syncing
  /\ busy' = busy \ {s}
  /\ syncing' = syncing \ {s}
  /\ \/ session[s] = "open" /\ pairs' = [pairs EXCEPT ![s] = Append(@, "sync")]
     \/ UNCHANGED pairs
  /\ UNCHANGED <<starts, service, agenda, durable, session, known, events, said,
                 task, threads, stop, readers>>

-------------------------------------------------------------------------------
(* start: room among the known runs, for which one that is over goes ...   *)
Evict(x) ==
  /\ Cardinality(known) >= MaxRuns
  /\ x \in known /\ Over(x)
  /\ known' = known \ {x}

(* ... also when the session then turns out not to be free, ...            *)
Refuse(x) ==
  /\ service = "open" /\ Idle
  /\ Evict(x)
  /\ UNCHANGED <<starts, service, agenda, durable, sessions, events, said, task, threads,
                 stop, readers>>

(* ... the session, the receipt, ...                                       *)
Begin(r) ==
  /\ service = "open" /\ Idle
  /\ receipt[r] = "none" /\ Reservable(Of[r])
  /\ \/ Cardinality(known) < MaxRuns /\ UNCHANGED known
     \/ \E x \in Run : Evict(x)
  /\ busy' = busy \cup {Of[r]}
  /\ receipt' = [receipt EXCEPT ![r] = "pending"]
  /\ agenda' = <<Todo("open", r, "none")>>
  /\ UNCHANGED <<starts, service, row, session, pairs, syncing, events, said, task,
                 threads, stop, readers>>

(* ... the audit row, the first event and the task.                        *)
Open(r) ==
  /\ Doing("open", r) /\ Done
  /\ row' = [row EXCEPT ![r] = "running"]
  /\ known' = known \cup {r}
  /\ events' = Published(r, "active")
  /\ task' = [task EXCEPT ![r] = "reading"]
  /\ producer' = [producer EXCEPT ![r] = "running"]
  /\ UNCHANGED <<starts, service, receipt, sessions, said, chan, stop, readers>>

-------------------------------------------------------------------------------
Chunks(r) == Len(SelectSeq(events[r] \o chan[r], LAMBDA e : e \in Chunk \cup {"delta"}))

(* The provider thread takes the answer from its provider, waits for room  *)
(* in the queue, ...                                                       *)
Produce(r) ==
  /\ producer[r] = "running" /\ r \notin stop
  /\ \E i \in Item :
       /\ i \in Chunk => Chunks(r) < MaxChunks
       /\ producer' = [producer EXCEPT ![r] = i]
  /\ UNCHANGED <<starts, service, agenda, durable, sessions, known, events, said, task, chan,
                 stop, readers>>

(* Within put, the loop's own coroutine adds the item.                     *)
Put(r) ==
  /\ Idle
  /\ producer[r] \in Item /\ r \notin stop
  /\ Len(chan[r]) < QueueSize
  /\ chan' = [chan EXCEPT ![r] = Append(@, producer[r])]
  /\ producer' = [producer EXCEPT ![r] = IF @ \in Chunk THEN "running" ELSE "gone"]
  /\ UNCHANGED <<starts, service, agenda, durable, sessions, known, events, said, task, stop, readers>>

(* Mutant: a thread that waits for room does not look at the stop event.   *)
GiveUpBetween(r) ==
  /\ r \in stop /\ producer[r] = "running"
  /\ producer' = [producer EXCEPT ![r] = "gone"]
  /\ UNCHANGED <<starts, service, agenda, durable, sessions, known, events, said, task, chan, stop, readers>>

(* ... and gives up when it is told to stop.                               *)
GiveUp(r) ==
  /\ r \in stop /\ producer[r] \in Item \cup {"running"}
  /\ producer' = [producer EXCEPT ![r] = "gone"]
  /\ UNCHANGED <<starts, service, agenda, durable, sessions, known, events, said, task, chan, stop, readers>>

-------------------------------------------------------------------------------
Reads(r) == Idle /\ task[r] = "reading"

(* The task publishes a chunk, ...                                         *)
ReceiveChunk(r) ==
  /\ Reads(r) /\ chan[r] # <<>> /\ Head(chan[r]) \in Chunk
  /\ chan' = [chan EXCEPT ![r] = Tail(@)]
  /\ events' = Published(r, "delta")
  /\ said' = [said EXCEPT ![r] = IF @ = "text" THEN @ ELSE Head(chan[r])]
  /\ UNCHANGED <<starts, service, agenda, durable, sessions, known, task, producer,
                 stop, readers>>

(* The bridge is cancelled; its queue goes with it.                        *)
Closed(r) ==
  /\ stop' = stop \cup {r}
  /\ chan' = [chan EXCEPT ![r] = <<>>]

(* ... or ends the provider's stream and records how: the row unless it    *)
(* has a status, then the receipt, then the terminal event.                *)
Fail(r, outcome, type) ==
  /\ Closed(r)
  /\ row' = [row EXCEPT ![r] = IF @ # "running" THEN @
                               ELSE IF said[r] # "nothing" \/ outcome = "cancelled"
                                 THEN "aborted" ELSE "failed"]
  /\ agenda' = <<Todo("receipt", r, outcome), Todo("tell", r, type)>>
  /\ UNCHANGED <<starts, service, receipt, sessions, known, events, said, task,
                 producer, readers>>

Stopped(r) == IF said[r] = "nothing" THEN "failed" ELSE "interrupted"

(* The provider failed, or its answer is empty or a chunk is too large.    *)
ReceiveFailure(r) ==
  /\ Reads(r) /\ chan[r] # <<>>
  /\ Head(chan[r]) = "fail" \/ (Head(chan[r]) = "end" /\ said[r] = "nothing")
  /\ Fail(r, "failed", Stopped(r))

(* The deadline passes.                                                    *)
TimeOut(r) ==
  /\ Reads(r)
  /\ Fail(r, "timed_out", Stopped(r))

(* Mutant: the task's own end is recorded over a status there is.          *)
InterruptAgain(r) ==
  /\ Idle /\ task[r] = "cancelled"
  /\ Closed(r)
  /\ row' = [row EXCEPT ![r] = "failed"]
  /\ agenda' = <<Todo("receipt", r, "cancelled"), Todo("tell", r, "interrupted")>>
  /\ UNCHANGED <<starts, service, receipt, sessions, known, events, said, task,
                 producer, readers>>

(* The cancellation of the task is thrown where it waits.                  *)
Interrupt(r) ==
  /\ Idle /\ task[r] = "cancelled"
  /\ Fail(r, "cancelled", "interrupted")

(* The answer is complete: the row, then the receipt, ...                  *)
ReceiveEnd(r) ==
  /\ Reads(r) /\ chan[r] # <<>> /\ Head(chan[r]) = "end" /\ said[r] # "nothing"
  /\ Closed(r)
  /\ row' = [row EXCEPT ![r] = IF @ = "running" THEN "succeeded" ELSE @]
  /\ agenda' = <<Todo("receipt", r, "succeeded"), Todo("commit", r, "none")>>
  /\ UNCHANGED <<starts, service, receipt, sessions, known, events, said, task,
                 producer, readers>>

(* finalize keeps the first outcome.                                       *)
FinalizeReceipt(r) ==
  /\ Doing("receipt", r) /\ Done
  /\ receipt' = [receipt EXCEPT ![r] = IF @ = "pending" THEN Head(agenda).what ELSE @]
  /\ UNCHANGED <<starts, service, row, sessions, known, events, said, task, threads, stop, readers>>

(* _release_run and the end of the task, with its local variables.         *)
Released(r) ==
  /\ busy' = busy \ {Of[r]}
  /\ task' = [task EXCEPT ![r] = "done"]
  /\ said' = [said EXCEPT ![r] = "nothing"]

(* Mutant: the messages are kept also when they are no valid answer.       *)
CommitBlank(r) ==
  /\ Doing("commit", r) /\ Done
  /\ IF session[Of[r]] = "open"
       THEN /\ pairs' = [pairs EXCEPT ![Of[r]] = Append(@, r)]
            /\ events' = Published(r, IF said[r] = "text" THEN "completed" ELSE "interrupted")
       ELSE /\ UNCHANGED pairs
            /\ events' = Published(r, "interrupted")
  /\ Released(r)
  /\ UNCHANGED <<starts, service, durable, session, syncing, known, threads, stop, readers>>

(* ... and the messages; an answer of white space only is no message.      *)
Commit(r) ==
  /\ Doing("commit", r) /\ Done
  /\ IF said[r] = "text" /\ session[Of[r]] = "open"
       THEN /\ pairs' = [pairs EXCEPT ![Of[r]] = Append(@, r)]
            /\ events' = Published(r, "completed")
       ELSE /\ UNCHANGED pairs
            /\ events' = Published(r, "interrupted")
  /\ Released(r)
  /\ UNCHANGED <<starts, service, durable, session, syncing, known, threads, stop, readers>>

(* _execute: the terminal event of a run that has not completed.           *)
Tell(r) ==
  /\ Doing("tell", r) /\ Done
  /\ events' = Published(r, Head(agenda).what)
  /\ Released(r)
  /\ UNCHANGED <<starts, service, durable, session, pairs, syncing, known, threads, stop,
                 readers>>

-------------------------------------------------------------------------------
(* What cancel and shutdown do with a run: an event, the row, the receipt  *)
(* if the row had no status yet, and the task.                             *)
Cancelling(r, rest) ==
  /\ events' = Published(r, "cancelling")
  /\ row' = [row EXCEPT ![r] = IF @ = "running" THEN "aborted" ELSE @]
  /\ agenda' = (IF row[r] = "running" THEN <<Todo("receipt", r, "cancelled")>> ELSE <<>>)
                 \o <<Todo("stop", r, "none")>> \o rest

Cancel(r) ==
  /\ service = "open" /\ Idle
  /\ r \in known /\ ~ Over(r)
  /\ Len(SelectSeq(events[r], LAMBDA e : e = "cancelling")) < MaxCancels
  /\ Cancelling(r, <<>>)
  /\ UNCHANGED <<starts, service, receipt, sessions, known, said, task, threads, stop, readers>>

(* task.cancel                                                             *)
StopTask(r) ==
  /\ Doing("stop", r) /\ Done
  /\ task' = [task EXCEPT ![r] = IF @ = "reading" THEN "cancelled" ELSE @]
  /\ UNCHANGED <<starts, service, durable, sessions, known, events, said, threads, stop, readers>>

(* ChatService.close, or the end of the process: no session outlives it.   *)
Discarded ==
  /\ session' = [s \in Session |-> IF session[s] = "open" THEN "gone" ELSE session[s]]
  /\ pairs' = [s \in Session |-> <<>>]

(* shutdown, run by run, ...                                               *)
Shutdown ==
  /\ service = "open" /\ Idle /\ starts < MaxStarts
  /\ service' = "closing"
  /\ LET Rest == SetToSeq({r \in known : ~ Over(r)}) IN
       agenda' = [i \in 1..Len(Rest) |-> Todo("cancel", Rest[i], "none")]
  /\ UNCHANGED <<starts, durable, sessions, known, events, said, task, threads, stop, readers>>

ShutdownRun(r) ==
  /\ Doing("cancel", r)
  /\ Cancelling(r, Tail(agenda))
  /\ UNCHANGED <<starts, service, receipt, sessions, known, said, task, threads, stop, readers>>

(* ... until their tasks are done; then ChatService.close.                 *)
ShutdownDone ==
  /\ service = "closing" /\ Idle
  /\ \A r \in known : task[r] = "done"
  /\ service' = "shut"
  /\ Discarded
  /\ UNCHANGED <<starts, agenda, durable, busy, syncing, known, events, said, task, threads,
                 stop, readers>>

(* The process ends, or is killed.                                         *)
Gone ==
  /\ service' = "down" /\ agenda' = <<>>
  /\ Discarded /\ busy' = {} /\ syncing' = {}
  /\ known' = {}
  /\ events' = [r \in Run |-> <<>>]
  /\ said' = [r \in Run |-> "nothing"]
  /\ task' = [r \in Run |-> "none"]
  /\ producer' = [r \in Run |-> "none"]
  /\ chan' = [r \in Run |-> <<>>]
  /\ stop' = {}
  /\ mode' = [u \in Reader |-> "off"]
  /\ pend' = [u \in Reader |-> <<>>]
  /\ seen' = [u \in Reader |-> 0]
  /\ UNCHANGED <<starts, durable>>

Quit == service = "shut" /\ Gone

Crash == service \notin {"down", "shut"} /\ starts < MaxStarts /\ Gone

(* startup: reconcile_interrupted_stream_runs commits the rows and then    *)
(* the receipt of each of them.                                            *)
Start ==
  LET Left == SetToSeq({r \in Run : row[r] = "running"}) IN
  /\ service = "down" /\ starts < MaxStarts
  /\ service' = "starting" /\ starts' = starts + 1
  /\ row' = [r \in Run |-> IF row[r] = "running" THEN "aborted" ELSE row[r]]
  /\ agenda' = [i \in 1..Len(Left) |-> Todo("receipt", Left[i], "recovered")]
  /\ UNCHANGED <<receipt, sessions, known, events, said, task, threads, stop, readers>>

Started ==
  /\ service = "starting" /\ agenda = <<>>
  /\ service' = "open"
  /\ UNCHANGED <<starts, agenda, durable, sessions, known, events, said, task, threads, stop,
                 readers>>

-------------------------------------------------------------------------------
(* The replay of a run.                                                    *)
Oldest(r) == IF Len(events[r]) > Replay THEN Len(events[r]) - Replay + 1 ELSE 1

Expired(u) == seen[u] < Oldest(Watched[u]) - 1

(* The retained events after a cursor.                                     *)
After(u) ==
  LET first == IF Expired(u) THEN Oldest(Watched[u]) ELSE seen[u] + 1 IN
  [i \in 1..(Len(events[Watched[u]]) - first + 1) |-> first + i - 1]

(* subscribe                                                               *)
Subscribe(u) ==
  /\ service = "open" /\ Idle
  /\ mode[u] = "off" /\ Watched[u] \in known
  /\ mode' = [mode EXCEPT ![u] = IF Expired(u) THEN "expired" ELSE "live"]
  /\ pend' = [pend EXCEPT ![u] = IF Expired(u) THEN <<>> ELSE After(u)]
  /\ UNCHANGED <<starts, service, agenda, durable, sessions, known, events, said, task, threads,
                 stop, seen>>

Send(u) ==
  /\ Idle
  /\ mode[u] = "live" /\ pend[u] # <<>>
  /\ seen' = [seen EXCEPT ![u] = Head(pend[u])]
  /\ pend' = [pend EXCEPT ![u] = Tail(@)]
  /\ UNCHANGED <<starts, service, agenda, durable, sessions, known, events, said, task, threads,
                 stop, mode>>

(* The subscription has sent what it had: it ends with the run, fails when *)
(* the replay has moved on, takes the next events or waits.                *)
Check(u) ==
  /\ Idle
  /\ mode[u] = "live" /\ pend[u] = <<>>
  /\ \/ /\ Over(Watched[u]) /\ seen[u] >= Len(events[Watched[u]])
        /\ mode' = [mode EXCEPT ![u] = "finished"] /\ UNCHANGED pend
     \/ /\ Expired(u)
        /\ mode' = [mode EXCEPT ![u] = "expired"] /\ UNCHANGED pend
     \/ /\ seen[u] < Len(events[Watched[u]]) /\ ~ Expired(u)
        /\ pend' = [pend EXCEPT ![u] = After(u)] /\ UNCHANGED mode
  /\ UNCHANGED <<starts, service, agenda, durable, sessions, known, events, said, task, threads,
                 stop, seen>>

(* The connection is lost.                                                 *)
Disconnect(u) ==
  /\ mode[u] = "live"
  /\ mode' = [mode EXCEPT ![u] = "off"]
  /\ pend' = [pend EXCEPT ![u] = <<>>]
  /\ UNCHANGED <<starts, service, agenda, durable, sessions, known, events, said, task, threads,
                 stop, seen>>

-------------------------------------------------------------------------------
Proceed(r) ==
  Open(r) \/ FinalizeReceipt(r) \/ Commit(r) \/ Tell(r) \/ StopTask(r) \/ ShutdownRun(r)

Read(r) == ReceiveChunk(r) \/ ReceiveFailure(r) \/ ReceiveEnd(r) \/ TimeOut(r) \/ Interrupt(r)

Next ==
  \/ \E s \in Session : OpenSession(s) \/ TeardownSession(s) \/ BeginSync(s) \/ EndSync(s)
  \/ \E r \in Run : \/ Refuse(r) \/ Begin(r) \/ Proceed(r) \/ Produce(r) \/ Put(r) \/ GiveUp(r)
                    \/ Read(r) \/ Cancel(r)
  \/ \E u \in Reader : Subscribe(u) \/ Send(u) \/ Check(u) \/ Disconnect(u)
  \/ Shutdown \/ ShutdownDone \/ Quit \/ Crash \/ Start \/ Started

Spec == Init /\ [][Next]_vars

(* The loop runs what is ready, deadlines pass, a provider call returns,   *)
(* and a process that has ended is started again.                          *)
LiveSpec ==
  /\ Spec
  /\ WF_vars(\E r \in Run : Proceed(r))
  /\ \A r \in Run : WF_vars(Read(r)) /\ WF_vars(GiveUp(r))
  /\ \A u \in Reader : WF_vars(Send(u) \/ Check(u))
  /\ WF_vars(ShutdownDone \/ Quit \/ Start \/ Started)

-------------------------------------------------------------------------------
(* Types of the variables.                                                 *)
TypeOK ==
  /\ starts \in 1..MaxStarts
  /\ service \in {"down", "starting", "open", "closing", "shut"}
  /\ agenda \in Seq([does : {"open", "receipt", "commit", "tell", "cancel", "stop"}, run : Run,
                     what : Outcome \cup Terminal \cup {"none"}])
  /\ row \in [Run -> {"none", "running", "succeeded", "aborted", "failed"}]
  /\ receipt \in [Run -> {"none", "pending"} \cup Outcome]
  /\ session \in [Session -> {"new", "open", "gone"}]
  /\ {busy, syncing} \subseteq SUBSET Session
  /\ pairs \in [Session -> Seq(Run \cup {"sync"})]
  /\ {known, stop} \subseteq SUBSET Run
  /\ events \in [Run -> Seq({"active", "delta", "cancelling"} \cup Terminal)]
  /\ said \in [Run -> {"nothing", "blank", "text"}]
  /\ task \in [Run -> {"none", "reading", "cancelled", "done"}]
  /\ producer \in [Run -> Item \cup {"none", "running", "gone"}]
  /\ chan \in [Run -> Seq(Item)] /\ \A r \in Run : Len(chan[r]) <= QueueSize
  /\ mode \in [Reader -> {"off", "live", "finished", "expired"}]
  /\ pend \in [Reader -> Seq(Nat)]
  /\ seen \in [Reader -> Nat]

(* A run that is told to have completed was audited as a success, and      *)
(* only such runs have left their messages in the session: no failed,      *)
(* cancelled or half-received answer is in the history of the next.        *)
CompletedIsCommitted ==
  \A r \in known :
    Over(r) => IF Last(events[r]) = "completed"
                 THEN /\ row[r] = "succeeded" /\ receipt[r] = "succeeded"
                      /\ "cancelling" \notin {events[r][n] : n \in DOMAIN events[r]}
                 ELSE r \notin {pairs[Of[r]][n] : n \in DOMAIN pairs[Of[r]]}

(* A session is busy exactly while one request is under way in it, and no  *)
(* end of a run leaves it busy.                                            *)
Holds(r) == Doing("open", r) \/ task[r] \in {"reading", "cancelled"}

BusyExact ==
  \A s \in Session :
    Cardinality({r \in Run : Of[r] = s /\ Holds(r)} \cup {x \in {s} : x \in syncing})
      = (IF s \in busy THEN 1 ELSE 0)

(* While the service is open, every audit row that is running is that of a *)
(* task: nothing is left running by a crash, a cancellation or a failure.  *)
RunningIsLive ==
  service = "open" /\ agenda = <<>> =>
    \A r \in Run : row[r] = "running" => r \in known /\ task[r] = "reading"

(* History, sessions and audit agree about the runs.                       *)
RunsAgree == CompletedIsCommitted /\ BusyExact /\ RunningIsLive

(* The first terminal status of a row and outcome of a receipt stay, of    *)
(* whichever of the task, its cancellation and the next start they are.    *)
FirstOutcomeStays ==
  [][\A r \in Run :
       /\ row[r] \notin {"none", "running"} => row'[r] = row[r]
       /\ receipt[r] \notin {"none", "pending"} => receipt'[r] = receipt[r]]_durable

(* A client is never sent an event without the one before it, although the *)
(* replay forgets, and its stream ends only with the run's last event.     *)
StreamsExact ==
  [][\A u \in Reader :
       /\ seen'[u] \in {0, seen[u], seen[u] + 1}
       /\ mode'[u] = "finished" => Over(Watched[u]) /\ seen[u] = Len(events[Watched[u]])]_readers

(* What was recorded or sent is not taken back, in the audit and for the   *)
(* clients.                                                                *)
NothingIsTakenBack == FirstOutcomeStays /\ StreamsExact

(* Every run that has begun ends in the audit, also when the process dies, *)
(* and the thread of its provider ends with it, also when it waits for     *)
(* room in a queue that nobody reads any more.                             *)
RunsEnd ==
  \A r \in Run : row[r] = "running"
                 ~> row[r] # "running" /\ producer[r] \in {"none", "gone"}

(* Every stream ends: with its run or because it has fallen behind.        *)
StreamsEnd == \A u \in Reader : mode[u] = "live" ~> mode[u] # "live"

(* Both.                                                                   *)
EverythingEnds == RunsEnd /\ StreamsEnd

(* "Pending receipts are retained until reconciliation produces a terminal *)
(* outcome" (PRIVACY_AND_CONSENT.md): after the reconciliation, a pending  *)
(* receipt is that of a run under way.                                     *)
ReceiptsResolve ==
  service = "open" /\ agenda = <<>> =>
    \A r \in Run : receipt[r] = "pending" => row[r] = "running"
===============================================================================
