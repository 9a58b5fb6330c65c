------------------------------- MODULE TaskCenter -------------------------------
(***************************************************************************)
(* The task center of the desktop (renderer/src/TaskCenter.tsx and         *)
(* task-center-state.ts): jobs are listed, watched by one stream of events *)
(* each, and fetched again when events are missed or a stream fails.  The  *)
(* main process owns the streams (main/ipc-handlers.ts) and reads them     *)
(* from the local service (main/sidecar-client.ts).                        *)
(*                                                                         *)
(* What the renderer asks of the main process is served in the order of    *)
(* the requests, as one step with the request where the main process       *)
(* answers by itself; requests to the service are served later.  Answers   *)
(* and events reach the renderer in the order in which they were sent.     *)
(* An effect of React runs some time after the state it depends on has     *)
(* changed (dirty).  A snapshot of a job is its sequence number and        *)
(* whether the job has ended.                                              *)
(***************************************************************************)
EXTENDS Naturals, Sequences, SequencesExt, FiniteSets, TLC

CONSTANTS
  Jobs,
  Ids,        \* identifiers of subscriptions, drawn afresh
  Loads,      \* times that the jobs are listed: as the view opens, and as the user asks
  Slots,      \* MAX_JOB_SUBSCRIPTIONS
  MaxEvents,  \* bound on the events of a job
  MaxFaults,  \* bound on broken streams and refused requests
  MaxSkips,   \* bound on events that the service passes over
  MaxCancels  \* bound on the cancellations the user asks for

VARIABLES
  job,      \* job[j]: what the service knows
  streams,  \* jobSubscriptions of the main process: [id, job, last]
  wire,     \* answers and deliveries on their way to the renderer
  view,     \* the jobs shown, with their snapshots
  seen,     \* stateRef.current: the jobs as of the last effect
  resync,   \* needsResync with its targets
  sub,      \* subscriptionsRef
  refresh,  \* refreshingRef: how far refreshJob of a job has come
  load,     \* load[l]: how far loadJobs has come
  blocked,  \* blockedSubscriptionsRef
  failing,  \* streamFailures: the failures shown
  tries,    \* streamRecoveryAttemptsRef
  dirty, mounted, faults, skips, cancels
service == <<job, skips, cancels>>
shown == <<view, seen, resync>>
guards == <<blocked, failing, tries>>
vars == <<service, streams, wire, shown, sub, refresh, load, guards, dirty, mounted, faults>>

Snapshot(seq, end) == [seq |-> seq, end |-> end]
Now(j) == Snapshot(job[j].seq, job[j].end)
Without(f, S) == [x \in DOMAIN f \ S |-> f[x]]
With(f, x, y) == (x :> y) @@ f

Init ==
  /\ job = [j \in Jobs |-> [seq |-> 1, end |-> FALSE, floor |-> 0, kept |-> TRUE]]
  /\ streams = {} /\ wire = <<>>
  /\ view = <<>> /\ seen = <<>> /\ resync = <<>> /\ sub = <<>>
  /\ refresh = [j \in Jobs |-> "idle"]
  /\ load = [l \in Loads |-> IF l = 1 THEN "asked" ELSE "idle"]
  /\ blocked = {} /\ failing = {} /\ tries = [j \in Jobs |-> 0]
  /\ dirty = FALSE /\ mounted = TRUE
  /\ faults = 0 /\ skips = 0 /\ cancels = 0

-------------------------------------------------------------------------------
(* The service: a job goes on and ends, old events and ended jobs are let  *)
(* go.                                                                     *)
Happens(j, end) ==
  /\ ~ job[j].end /\ job[j].seq < MaxEvents
  /\ job' = [job EXCEPT ![j].seq = @ + 1, ![j].end = end]
Proceed(j) ==
  /\ \E end \in BOOLEAN : Happens(j, end)
  /\ UNCHANGED <<skips, cancels, streams, wire, shown, sub, refresh, load, guards, dirty, mounted, faults>>
Forget(j) ==
  /\ \/ job[j].floor < job[j].seq /\ job' = [job EXCEPT ![j].floor = job[j].seq]
     \/ job[j].end /\ job[j].kept /\ job' = [job EXCEPT ![j].kept = FALSE]
  /\ UNCHANGED <<skips, cancels, streams, wire, shown, sub, refresh, load, guards, dirty, mounted, faults>>

Fault == faults < MaxFaults /\ faults' = faults + 1
Served == UNCHANGED faults
Message(j, kind) == [job |-> j, kind |-> kind]
Sent(message) == wire' = Append(wire, message)

-------------------------------------------------------------------------------
(* The main process.  deliverJobEvent passes on an event that is newer     *)
(* than the last, and a stream ends with the event that ends its job; a    *)
(* stream that ends otherwise is told as a failure.                        *)
Event(x, n) ==
  LET end == job[x.job].end /\ n = job[x.job].seq
  IN /\ job[x.job].kept /\ job[x.job].floor <= x.last /\ n <= job[x.job].seq
     /\ Sent([id |-> x.id, snapshot |-> Snapshot(n, end)] @@ Message(x.job, "event"))
     /\ streams' = (streams \ {x}) \cup IF end THEN {} ELSE {[x EXCEPT !.last = n]}
Failure(x) == streams' = streams \ {x} /\ Sent([id |-> x.id] @@ Message(x.job, "failure"))
Cut(x) ==
  \/ ~ job[x.job].kept \/ job[x.job].floor > x.last
  \/ job[x.job].end /\ x.last = job[x.job].seq

Stream(x) ==
  /\ Event(x, x.last + 1) \/ (Cut(x) /\ Failure(x))
  /\ UNCHANGED <<service, shown, sub, refresh, load, guards, dirty, mounted, faults>>
Disturb(x) ==
  /\ \/ Fault /\ Failure(x) /\ UNCHANGED skips
     \/ skips < MaxSkips /\ skips' = skips + 1 /\ Event(x, x.last + 2) /\ Served
  /\ UNCHANGED <<job, cancels, shown, sub, refresh, load, guards, dirty, mounted>>

(* getJob and listJobs are answered by the service.                        *)
Read(j) ==
  /\ refresh[j] = "asked" /\ refresh' = [refresh EXCEPT ![j] = "served"]
  /\ \/ job[j].kept /\ Sent([snapshot |-> Now(j)] @@ Message(j, "answered")) /\ Served
     \/ ~ job[j].kept /\ Sent(Message(j, "refused")) /\ Served
     \/ Sent(Message(j, "refused")) /\ Fault
  /\ UNCHANGED <<service, streams, shown, sub, load, guards, dirty, mounted>>
ReadAll(l) ==
  /\ load[l] = "asked" /\ load' = [load EXCEPT ![l] = "served"]
  /\ \/ Sent([load |-> l, kind |-> "listed", jobs |-> [j \in {k \in Jobs : job[k].kept} |-> Now(j)]]) /\ Served
     \/ Sent([load |-> l, kind |-> "unlisted"]) /\ Fault
  /\ UNCHANGED <<service, streams, shown, sub, refresh, guards, dirty, mounted>>

-------------------------------------------------------------------------------
(* taskCenterReducer.                                                      *)
Target(j) == IF j \in DOMAIN resync THEN resync[j] ELSE 0
Shown(j) == j \in DOMAIN view
Stale(j, s) == Shown(j) /\ (view[j].seq > s.seq \/ (view[j].end /\ ~ s.end))
Marked(j, s) ==
  /\ resync' = With(resync, j, IF Target(j) > s.seq THEN Target(j) ELSE s.seq)
  /\ UNCHANGED <<view, seen>>
Set(j, s, resolved) ==
  /\ view' = With(view, j, s)
  /\ resync' = IF resolved THEN Without(resync, {j}) ELSE resync
  /\ UNCHANGED seen
Same == UNCHANGED shown

Told(j, s) ==
  IF Stale(j, s) \/ (Shown(j) /\ view[j].seq = s.seq) THEN Same
  ELSE IF s.seq # (IF Shown(j) THEN view[j].seq ELSE 0) + 1 THEN Marked(j, s)
  ELSE Set(j, s, s.seq >= Target(j))
Refreshed(j, s) ==
  IF Stale(j, s) THEN Same
  ELSE IF Shown(j) /\ view[j].seq = s.seq THEN resync' = Without(resync, {j}) /\ UNCHANGED <<view, seen>>
  ELSE Set(j, s, TRUE)
NewerListed(j, s) == s
Newer(j, s) == IF Stale(j, s) THEN view[j] ELSE s
Loaded(listed) ==
  /\ view' = [j \in DOMAIN listed |-> Newer(j, listed[j])]
  /\ resync' = Without(resync, {j \in Jobs : j \notin DOMAIN listed \/ listed[j].seq >= Target(j)})
  /\ UNCHANGED seen
Dirties == dirty' = (dirty \/ view' # view \/ resync' # resync)

-------------------------------------------------------------------------------
(* The renderer.  closeSubscription of some jobs, and refreshJob of some:  *)
(* one at a time for each job, which is fetched once its stream is closed. *)
Mine(j, id) == <<j, id>> \in {<<k, sub[k]>> : k \in DOMAIN sub}
ClosedLocally(js) == sub' = Without(sub, js) /\ UNCHANGED streams
Closed(js) ==
  /\ streams' = {x \in streams : ~ (x.job \in js /\ Mine(x.job, x.id))}
  /\ sub' = Without(sub, js)
Starts(js) == {j \in js : refresh[j] = "idle"}
Refreshing(js) ==
  [j \in Jobs |-> IF j \in Starts(js) THEN (IF j \in DOMAIN sub THEN "closing" ELSE "asked") ELSE refresh[j]]
Closings(js, kind) == SetToSeq({Message(j, kind) : j \in js \cap DOMAIN sub})

(* The listener of the deliveries: one failure of a stream is met with a   *)
(* refresh, the next one is shown.                                         *)
Hear(d) ==
  LET j == d.job
      mine == mounted /\ Mine(j, d.id)
  IN \/ /\ ~ mine
        /\ wire' = Tail(wire) /\ Same /\ UNCHANGED <<streams, sub, refresh, guards, dirty>>
     \/ /\ mine /\ d.kind = "event"
        /\ wire' = Tail(wire) /\ Told(j, d.snapshot) /\ Dirties
        /\ UNCHANGED <<streams, sub, refresh, guards>>
     \/ /\ mine /\ d.kind = "failure" /\ tries[j] = 0
        /\ tries' = [tries EXCEPT ![j] = 1]
        /\ wire' = Tail(wire) \o Closings(Starts({j}), "closed")
        /\ refresh' = Refreshing({j}) /\ Closed(Starts({j}))
        /\ Same /\ UNCHANGED <<blocked, failing, dirty>>
     \/ /\ mine /\ d.kind = "failure" /\ tries[j] = 1
        /\ blocked' = blocked \cup {j} /\ failing' = failing \cup {j} /\ Closed({j})
        /\ wire' = Tail(wire) /\ Same /\ UNCHANGED <<refresh, tries, dirty>>
Receive ==
  /\ wire # <<>> /\ Head(wire).kind \in {"event", "failure"} /\ Hear(Head(wire))
  /\ UNCHANGED <<service, load, mounted, faults>>

(* The answer to a subscription.                                           *)
Opened ==
  /\ wire # <<>> /\ Head(wire).kind \in {"subscribed", "limit", "failed"} /\ wire' = Tail(wire)
  /\ LET d == Head(wire)
         j == d.job
         mine == mounted /\ Mine(j, d.id)
     IN \/ /\ ~ mine
           /\ streams' = {x \in streams : x.id # d.id \/ d.kind # "subscribed"}
           /\ UNCHANGED <<sub, blocked, failing>>
        \/ /\ mine /\ d.kind = "subscribed" /\ failing' = failing \ {j}
           /\ UNCHANGED <<streams, sub, blocked>>
        \/ /\ mine /\ d.kind # "subscribed"
           /\ sub' = Without(sub, {j}) /\ failing' = failing \cup {j}
           /\ blocked' = IF d.kind = "limit" THEN blocked ELSE blocked \cup {j}
           /\ UNCHANGED streams
  /\ UNCHANGED <<service, shown, refresh, load, tries, dirty, mounted, faults>>

(* The answers that refreshJob awaits.                                     *)
Proceeds(j, step) == refresh' = [refresh EXCEPT ![j] = step]
Unsubscribed ==
  /\ wire # <<>> /\ Head(wire).kind \in {"closed", "awake"} /\ wire' = Tail(wire)
  /\ IF Head(wire).kind = "closed" THEN Proceeds(Head(wire).job, "asked") /\ UNCHANGED dirty
     ELSE dirty' = (dirty \/ mounted) /\ UNCHANGED refresh
  /\ UNCHANGED <<service, streams, shown, sub, load, guards, mounted, faults>>
Fetched ==
  /\ wire # <<>> /\ Head(wire).kind \in {"answered", "refused"} /\ wire' = Tail(wire)
  /\ LET j == Head(wire).job
     IN /\ Proceeds(j, "idle")
        /\ IF ~ mounted THEN Same /\ UNCHANGED <<blocked, failing, dirty>>
           ELSE IF Head(wire).kind = "refused"
           THEN blocked' = blocked \cup {j} /\ failing' = failing \cup {j} /\ Same /\ UNCHANGED dirty
           ELSE /\ blocked' = blocked \ {j} /\ failing' = failing \ {j}
                /\ Refreshed(j, Head(wire).snapshot) /\ dirty' = TRUE
  /\ UNCHANGED <<service, streams, sub, load, tries, mounted, faults>>

(* The effect of the jobs shown: refresh what needs it, close what has     *)
(* ended, and subscribe to the others, as far as the main process takes    *)
(* subscriptions.                                                          *)
ToSubscribe == {j \in DOMAIN view \ (DOMAIN resync \cup DOMAIN sub \cup blocked) : ~ view[j].end}
ToClose == {j \in DOMAIN view \ DOMAIN resync : view[j].end}
Used == {x.id : x \in streams} \cup {sub[j] : j \in DOMAIN sub}
          \cup {wire[i].id : i \in {k \in DOMAIN wire : "id" \in DOMAIN wire[k]}}
Fresh(js) == CHOOSE f \in [js -> Ids \ Used] : \A a, b \in js : a # b => f[a] # f[b]
Answers(order, left, failed) ==
  [i \in DOMAIN order |->
     IF Cardinality({k \in 1..i : order[k] \notin failed}) > left THEN "limit"
     ELSE IF order[i] \in failed THEN "failed" ELSE "subscribed"]
Effect ==
  /\ mounted /\ dirty /\ dirty' = FALSE
  /\ LET again == DOMAIN view \cap DOMAIN resync
         gone == Starts(again) \cup ToClose
         left == {x \in streams : ~ (x.job \in gone /\ Mine(x.job, x.id))}
         new == Fresh(ToSubscribe)
         order == SetToSeq(ToSubscribe)
     IN \E failed \in {{}} \cup {{j} : j \in ToSubscribe} :
          LET answer == Answers(order, Slots - Cardinality(left), failed)
              told == [i \in DOMAIN order |-> [id |-> new[order[i]]] @@ Message(order[i], answer[i])]
          IN /\ IF failed = {} THEN Served ELSE Fault
             /\ refresh' = Refreshing(again)
             /\ sub' = new @@ Without(sub, gone)
             /\ streams' = left \cup {[id |-> told[i].id, job |-> order[i], last |-> view[order[i]].seq] :
                                        i \in {k \in DOMAIN order : answer[k] = "subscribed"}}
             /\ wire' = wire \o Closings(Starts(again), "closed") \o Closings(ToClose, "awake") \o told
  /\ seen' = view
  /\ UNCHANGED <<service, view, resync, load, guards, mounted>>

-------------------------------------------------------------------------------
(* loadJobs: the button is disabled while jobs are listed, the action of   *)
(* an error is not.                                                        *)
Ask(l) ==
  /\ mounted /\ load[l] = "idle" /\ load' = [load EXCEPT ![l] = "asked"]
  /\ (\A k \in Loads : load[k] \in {"idle", "done"}) \/ failing # {}
  /\ UNCHANGED <<service, streams, wire, shown, sub, refresh, guards, dirty, mounted, faults>>

(* Jobs that are watched and not listed stay as long as they go on; the    *)
(* other streams are closed first.                                         *)
Finished(listed) ==
  IF mounted
  THEN /\ blocked' = {} /\ failing' = {} /\ tries' = [j \in Jobs |-> 0]
       /\ Loaded(listed) /\ dirty' = TRUE
  ELSE Same /\ UNCHANGED <<guards, dirty>>
Listed(d) ==
  LET missing == DOMAIN sub \ DOMAIN d.jobs
      kept == {j \in missing \cap DOMAIN seen : ~ seen[j].end}
      all == d.jobs @@ [j \in kept |-> seen[j]]
  IN /\ Closed(missing \ kept)
     /\ IF missing = kept
        THEN wire' = Tail(wire) /\ Finished(all) /\ load' = [load EXCEPT ![d.load] = "done"]
        ELSE /\ wire' = Append(Tail(wire), [load |-> d.load, kind |-> "emptied", jobs |-> all])
             /\ Same /\ UNCHANGED <<load, guards, dirty>>
Finish ==
  /\ wire # <<>>
  /\ \/ Head(wire).kind = "listed" /\ Listed(Head(wire))
     \/ /\ Head(wire).kind \in {"emptied", "unlisted"} /\ wire' = Tail(wire)
        /\ load' = [load EXCEPT ![Head(wire).load] = "done"]
        /\ IF Head(wire).kind = "emptied" THEN Finished(Head(wire).jobs) ELSE Same /\ UNCHANGED <<guards, dirty>>
        /\ UNCHANGED <<streams, sub>>
  /\ UNCHANGED <<service, refresh, mounted, faults>>

(* requestCancellation: the service notes it as an event of the job.       *)
Cancel(j) ==
  /\ mounted /\ Shown(j) /\ ~ view[j].end /\ cancels < MaxCancels /\ cancels' = cancels + 1
  /\ \/ Happens(j, FALSE) /\ Sent([snapshot |-> Snapshot(job[j].seq + 1, FALSE)] @@ Message(j, "cancelled"))
     \/ job[j].end /\ job[j].kept /\ UNCHANGED job /\ Sent([snapshot |-> Now(j)] @@ Message(j, "cancelled"))
  /\ UNCHANGED <<skips, streams, shown, sub, refresh, load, guards, dirty, mounted, faults>>
Cancelled ==
  /\ wire # <<>> /\ Head(wire).kind = "cancelled" /\ wire' = Tail(wire)
  /\ IF mounted THEN Refreshed(Head(wire).job, Head(wire).snapshot) /\ Dirties ELSE Same /\ UNCHANGED dirty
  /\ UNCHANGED <<service, streams, sub, refresh, load, guards, mounted, faults>>

(* The user leaves the view.                                               *)
Leave ==
  /\ mounted /\ mounted' = FALSE /\ Closed(Jobs) /\ dirty' = FALSE
  /\ UNCHANGED <<service, wire, shown, refresh, load, guards, faults>>

Work ==
  \/ \E x \in streams : Stream(x)
  \/ Receive \/ Opened \/ Unsubscribed \/ Fetched \/ Finish \/ Cancelled \/ Effect
  \/ \E j \in Jobs : Read(j)
  \/ \E l \in Loads : ReadAll(l)
Next ==
  \/ Work
  \/ \E j \in Jobs : Proceed(j) \/ Forget(j) \/ Cancel(j)
  \/ \E x \in streams : Disturb(x)
  \/ \E l \in Loads : Ask(l)
  \/ Leave

Spec == Init /\ [][Next]_vars /\ WF_vars(Work)

-------------------------------------------------------------------------------
(* Whatever is shown of a job is what the service said at that number.     *)
ViewIsTrue ==
  \A j \in DOMAIN view : view[j].seq <= job[j].seq /\ (view[j].end <=> job[j].end /\ view[j].seq = job[j].seq)

(* Each stream of the main process is watched by the renderer, by one      *)
(* subscription of its job, and none is left as the view is closed.        *)
StreamsAreWatched ==
  /\ Cardinality(streams) <= Slots
  /\ \A x \in streams : x.job \in DOMAIN sub /\ sub[x.job] = x.id
  /\ ~ mounted => streams = {}

(* A job that goes on and is neither watched nor fetched, after a failure, *)
(* says so.                                                                *)
BlockedIsShown ==
  mounted => \A j \in {k \in blocked \ DOMAIN sub : refresh[k] = "idle"} :
               j \in failing \cup {k \in DOMAIN view : view[k].end}

(* What is shown of a job never goes back.                                 *)
NeverBack ==
  [][\A j \in DOMAIN view \cap DOMAIN view' : view'[j].seq >= view[j].seq /\ (view[j].end => view'[j].end)]_vars

(* The end of a job that is shown is learnt, unless a failure is shown or  *)
(* all slots are taken: a job that found no slot gets one as another job   *)
(* ends.                                                                   *)
Unlearnt == {j \in DOMAIN view : job[j].end /\ ~ view[j].end}
Learns == \A j \in Jobs : []<> (mounted /\ j \in Unlearnt => blocked # {} \/ Cardinality(streams) = Slots)
================================================================================
