-------------------------- MODULE ProviderExecution --------------------------
(***************************************************************************)
(* LLMService.generate and stream (llm/service.py) over the lanes and the  *)
(* result cache of llm/execution.py.  A request is admitted to its lane,   *)
(* joins or opens a flight when its result may be cached, waits for one of *)
(* the lane's slots, calls its provider, retries, and is accounted for in  *)
(* an audit row and a receipt.  A step is what one thread does while it    *)
(* holds one lock, or one commit; threads, deadlines, cancellations and    *)
(* LLMService.close interleave between them.                               *)
(***************************************************************************)
EXTENDS Naturals, FiniteSets, Sequences

CONSTANTS
  Req,            \* requests, each made once by a thread of its own
  Kinds,          \* what the requests may be: functions from Req to "cached",
                  \* "plain" (both are made by generate) and "stream"
  Key,            \* Key[r]: exact cache key of r
  Lane,           \* Lane[r]: route of r (provider, profile, endpoint, model)
  None,           \* no request
  MaxConcurrency, \* slots of a lane
  MaxPending,     \* admitted requests of a lane
  MaxEntries,     \* cached results
  Retries,        \* Retries[r]: max_safe_retries of r
  Cancellable     \* requests that may be cancelled

VARIABLES
  kind,      \* kind[r]: what r is, given by its request
  at,        \* control state of a request
  cancelled, \* requests whose cancellation was asked for
  tries,     \* retry_attempt
  joined,    \* joined[r]: owner of the flight that r opened or waits for
  outcome,   \* what r has come to: "ok", "hit" or an error code
  answer,    \* answer[r]: request whose call produced r's result
  lanes,     \* counters and flag of each lane
  closed,    \* ProviderExecutionCoordinator._closed
  toClose,   \* lanes that the running close has still to visit
  flights,   \* flights[k]: owner of the registered flight of a key
  flight,    \* flight[o]: state of the flight that o opened
  entries,   \* cached results, the least recently used first
  shut,      \* ExactResultCache._closed
  audit,     \* audit row of a request
  receipt,   \* its operation receipt
  called     \* history: requests that called their provider

accounts == <<audit, receipt>>
cache == <<flights, flight, entries, shut>>
closing == <<closed, toClose>>
vars == <<kind, at, cancelled, tries, joined, outcome, answer, lanes, closing, cache,
          accounts, called>>

Routes == {Lane[r] : r \in Req}
Keys == {Key[r] : r \in Req}
Errors == {"closed", "full", "timeout", "cancelled", "failed"}
Waiting == {"queued", "waiting", "backoff"}

Init ==
  /\ kind \in Kinds
  /\ at = [r \in Req |-> "new"]
  /\ cancelled = {}
  /\ tries = [r \in Req |-> 0]
  /\ joined = [r \in Req |-> None]
  /\ outcome = [r \in Req |-> "none"]
  /\ answer = [r \in Req |-> None]
  /\ lanes = [l \in Routes |-> [admitted |-> 0, active |-> 0, waiting |-> 0, closed |-> FALSE]]
  /\ closed = FALSE
  /\ toClose = {}
  /\ flights = [k \in Keys |-> None]
  /\ flight = [r \in Req |-> "none"]
  /\ entries = <<>>
  /\ shut = FALSE
  /\ audit = [r \in Req |-> "none"]
  /\ receipt = [r \in Req |-> "none"]
  /\ called = {}

lane(r) == lanes[Lane[r]]
To(r, next) == at' = [at EXCEPT ![r] = next]
Count(r, counter, n) == lanes' = [lanes EXCEPT ![Lane[r]][counter] = n]
Full(r) == lane(r).active >= MaxConcurrency

(* An exception unwinds through the flight, if r has opened one, and       *)
(* through the admission, if r has got that far.                           *)
Unwind(r) ==
  IF joined[r] = r THEN "landing"
  ELSE IF at[r] \in {"new", "admitting"} THEN "refused" ELSE "leaving"

Raise(r, code) ==
  /\ outcome' = [outcome EXCEPT ![r] = code]
  /\ To(r, Unwind(r))

(* The receipt is durable before anything else is tried; then admission    *)
(* looks at the coordinator, under its lock, ...                           *)
Begin(r) ==
  /\ at[r] = "new"
  /\ receipt' = [receipt EXCEPT ![r] = "pending"]
  /\ IF closed THEN Raise(r, "closed")
               ELSE To(r, "admitting") /\ UNCHANGED outcome
  /\ UNCHANGED <<kind, cancelled, tries, joined, answer, lanes, closing, cache, audit, called>>

(* ... and, under the lane's, at the lane.                                 *)
Admit(r) ==
  /\ at[r] = "admitting"
  /\ ~ lane(r).closed /\ lane(r).admitted < MaxPending
  /\ Count(r, "admitted", lane(r).admitted + 1)
  /\ To(r, CASE kind[r] = "cached" -> "lookup"
             [] kind[r] = "plain" -> "attempt"
             [] kind[r] = "stream" -> "claim")
  /\ UNCHANGED <<kind, cancelled, tries, joined, outcome, answer, closing, cache, accounts, called>>

AdmitRefused(r) ==
  /\ at[r] = "admitting"
  /\ lane(r).closed \/ lane(r).admitted >= MaxPending
  /\ Raise(r, IF lane(r).closed THEN "closed" ELSE "full")
  /\ UNCHANGED <<kind, cancelled, tries, joined, answer, lanes, closing, cache, accounts, called>>

Cached(k, es) == \E i \in DOMAIN es : es[i].key = k
Drop(k, es) == SelectSeq(es, LAMBDA e : e.key # k)

(* get_or_execute with what has not expired by now.                        *)
Hit(r, es) ==
  /\ \E i \in DOMAIN es :
       /\ es[i].key = Key[r]
       /\ answer' = [answer EXCEPT ![r] = es[i].by]
       /\ entries' = Append(Drop(Key[r], es), es[i])
  /\ outcome' = [outcome EXCEPT ![r] = "hit"]
  /\ To(r, "leaving")
  /\ UNCHANGED <<joined, flights, flight>>

OpenFlight(r, es) ==
  /\ ~ Cached(Key[r], es) /\ flights[Key[r]] = None
  /\ entries' = es
  /\ flights' = [flights EXCEPT ![Key[r]] = r]
  /\ flight' = [flight EXCEPT ![r] = "open"]
  /\ joined' = [joined EXCEPT ![r] = r]
  /\ To(r, "attempt")
  /\ UNCHANGED <<outcome, answer>>

JoinFlight(r, es) ==
  /\ ~ Cached(Key[r], es) /\ flights[Key[r]] # None
  /\ entries' = es
  /\ joined' = [joined EXCEPT ![r] = flights[Key[r]]]
  /\ To(r, "waiting")
  /\ UNCHANGED <<outcome, answer, flights, flight>>

Lookup(r) ==
  /\ at[r] = "lookup" /\ ~ shut
  /\ \E expired \in SUBSET Keys :
       LET live == SelectSeq(entries, LAMBDA e : e.key \notin expired)
       IN Hit(r, live) \/ OpenFlight(r, live) \/ JoinFlight(r, live)
  /\ UNCHANGED <<kind, cancelled, tries, lanes, closing, shut, accounts, called>>

LookupRefused(r) ==
  /\ at[r] = "lookup" /\ shut
  /\ Raise(r, "closed")
  /\ UNCHANGED <<kind, cancelled, tries, joined, answer, lanes, closing, cache, accounts, called>>

(* A follower wakes up.                                                    *)
FollowOutcome(r) ==
  /\ at[r] = "waiting"
  /\ flight[joined[r]] # "open" /\ r \notin cancelled
  /\ To(r, "leaving")
  /\ IF flight[joined[r]] = "done"
       THEN /\ outcome' = [outcome EXCEPT ![r] = "hit"]
            /\ answer' = [answer EXCEPT ![r] = answer[joined[r]]]
       ELSE /\ outcome' = [outcome EXCEPT ![r] = outcome[joined[r]]]
            /\ UNCHANGED answer
  /\ UNCHANGED <<kind, cancelled, tries, joined, lanes, closing, cache, accounts, called>>

FollowFails(r) ==
  /\ at[r] = "waiting"
  /\ flight[joined[r]] = "open" \/ r \in cancelled
  /\ Raise(r, IF r \in cancelled THEN "cancelled" ELSE IF shut THEN "closed" ELSE "timeout")
  /\ UNCHANGED <<kind, cancelled, tries, joined, answer, lanes, closing, cache, accounts, called>>

(* _generate_uncached: the head of the retry loop, and capacity's look at  *)
(* the coordinator.                                                        *)
Attempt(r) ==
  /\ at[r] = "attempt"
  /\ IF r \in cancelled THEN Raise(r, "cancelled")
     ELSE IF closed THEN Raise(r, "closed")
     ELSE To(r, "claim") /\ UNCHANGED outcome
  /\ UNCHANGED <<kind, cancelled, tries, joined, answer, lanes, closing, cache, accounts, called>>

(* capacity, on arrival in the lane.                                       *)
Claim(r) ==
  /\ at[r] = "claim"
  /\ ~ lane(r).closed
  /\ IF Full(r)
       THEN To(r, "queued") /\ Count(r, "waiting", lane(r).waiting + 1)
       ELSE r \notin cancelled /\ To(r, "calling") /\ Count(r, "active", lane(r).active + 1)
  /\ called' = IF Full(r) THEN called ELSE called \cup {r}
  /\ UNCHANGED <<kind, cancelled, tries, joined, outcome, answer, closing, cache, accounts>>

ClaimFails(r) ==
  /\ at[r] = "claim"
  /\ lane(r).closed \/ (~ Full(r) /\ r \in cancelled)
  /\ Raise(r, IF lane(r).closed THEN "closed" ELSE "cancelled")
  /\ UNCHANGED <<kind, cancelled, tries, joined, answer, lanes, closing, cache, accounts, called>>

(* capacity, after a wait: the flag is looked at while the lane is full.   *)
Dequeue(r) ==
  /\ at[r] = "queued"
  /\ ~ Full(r) /\ r \notin cancelled
  /\ lanes' = [lanes EXCEPT ![Lane[r]].waiting = @ - 1, ![Lane[r]].active = @ + 1]
  /\ called' = called \cup {r}
  /\ To(r, "calling")
  /\ UNCHANGED <<kind, cancelled, tries, joined, outcome, answer, closing, cache, accounts>>

(* Mutant: a request that gives up does not leave the count of waiters.    *)
QueueFailsCounted(r) ==
  /\ at[r] = "queued"
  /\ Full(r) \/ r \in cancelled
  /\ Raise(r, IF r \in cancelled THEN "cancelled" ELSE IF lane(r).closed THEN "closed" ELSE "timeout")
  /\ UNCHANGED <<kind, cancelled, tries, joined, answer, lanes, closing, cache, accounts, called>>

QueueFails(r) ==
  /\ at[r] = "queued"
  /\ Full(r) \/ r \in cancelled
  /\ Raise(r, IF r \in cancelled THEN "cancelled" ELSE IF lane(r).closed THEN "closed" ELSE "timeout")
  /\ Count(r, "waiting", lane(r).waiting - 1)
  /\ UNCHANGED <<kind, cancelled, tries, joined, answer, closing, cache, accounts, called>>

(* The provider answers, the slot is given back, and a cancellation that   *)
(* came meanwhile wins.                                                    *)
Answered(r) ==
  /\ at[r] = "calling"
  /\ Count(r, "active", lane(r).active - 1)
  /\ IF r \in cancelled
       THEN Raise(r, "cancelled") /\ UNCHANGED answer
       ELSE /\ outcome' = [outcome EXCEPT ![r] = "ok"]
            /\ answer' = [answer EXCEPT ![r] = r]
            /\ To(r, Unwind(r))
  /\ UNCHANGED <<kind, cancelled, tries, joined, closing, cache, accounts, called>>

(* It fails, or the consumer of a stream leaves.                           *)
CallFails(r) ==
  /\ at[r] = "calling"
  /\ Count(r, "active", lane(r).active - 1)
  /\ Raise(r, IF r \in cancelled THEN "cancelled" ELSE "failed")
  /\ UNCHANGED <<kind, cancelled, tries, joined, answer, closing, cache, accounts, called>>

(* It fails in a way that may be retried.                                  *)
BackOff(r) ==
  /\ at[r] = "calling" /\ kind[r] # "stream"
  /\ tries[r] < Retries[r]
  /\ Count(r, "active", lane(r).active - 1)
  /\ To(r, "backoff")
  /\ UNCHANGED <<kind, cancelled, tries, joined, outcome, answer, closing, cache, accounts, called>>

Retry(r) ==
  /\ at[r] = "backoff"
  /\ IF r \in cancelled
       THEN Raise(r, "cancelled") /\ UNCHANGED tries
       ELSE /\ To(r, "attempt")
            /\ tries' = [tries EXCEPT ![r] = @ + 1]
            /\ UNCHANGED outcome
  /\ UNCHANGED <<kind, cancelled, joined, answer, lanes, closing, cache, accounts, called>>

(* Stored by its key, the oldest ones make room.                           *)
Store(r) ==
  LET all == Append(Drop(Key[r], entries), [key |-> Key[r], by |-> r])
      excess == IF Len(all) > MaxEntries THEN Len(all) - MaxEntries ELSE 0
  IN SubSeq(all, excess + 1, Len(all))

(* The owner's flight ends; a result that fits its schema is kept.         *)
Land(r) ==
  /\ at[r] = "landing"
  /\ flights' = [flights EXCEPT ![Key[r]] = None]
  /\ flight' = [flight EXCEPT ![r] = IF outcome[r] = "ok" THEN "done" ELSE "failed"]
  /\ \/ outcome[r] = "ok" /\ ~ shut /\ entries' = Store(r)
     \/ UNCHANGED entries
  /\ To(r, "leaving")
  /\ UNCHANGED <<kind, cancelled, tries, joined, outcome, answer, lanes, closing, shut, accounts, called>>

(* _record_run, then _finalize_receipt.                                    *)
Account(r) ==
  /\ audit' = [audit EXCEPT ![r] =
       CASE outcome[r] = "ok" -> "succeeded"
         [] outcome[r] = "hit" -> "cache_hit"
         [] outcome[r] = "cancelled" -> "aborted"
         [] OTHER -> "failed"]
  /\ receipt' = [receipt EXCEPT ![r] =
       CASE outcome[r] \in {"ok", "hit"} -> "succeeded"
         [] outcome[r] = "cancelled" -> "cancelled"
         [] OTHER -> "failed"]
  /\ To(r, "done")
  /\ UNCHANGED <<kind, cancelled, tries, joined, outcome, answer, closing, cache, called>>

(* The admission ends; what follows is the request's own.                  *)
Leave(r) ==
  /\ at[r] = "leaving"
  /\ Count(r, "admitted", lane(r).admitted - 1)
  /\ Account(r)

LeaveRefused(r) ==
  /\ at[r] = "refused"
  /\ Account(r)
  /\ UNCHANGED lanes

Cancel(r) ==
  /\ at[r] \notin {"new", "leaving", "refused", "done"}
  /\ r \in Cancellable \ cancelled
  /\ cancelled' = cancelled \cup {r}
  /\ UNCHANGED <<kind, at, tries, joined, outcome, answer, lanes, closing, cache, accounts, called>>

(* LLMService.close: the coordinator, its lanes one by one, the cache.     *)
CloseCoordinator ==
  /\ ~ closed
  /\ closed' = TRUE
  /\ toClose' = Routes
  /\ UNCHANGED <<kind, at, cancelled, tries, joined, outcome, answer, lanes, cache, accounts, called>>

CloseLane(l) ==
  /\ l \in toClose
  /\ lanes' = [lanes EXCEPT ![l].closed = TRUE]
  /\ toClose' = toClose \ {l}
  /\ UNCHANGED <<kind, at, cancelled, tries, joined, outcome, answer, closed, cache, accounts, called>>

CloseCache ==
  /\ closed /\ toClose = {} /\ ~ shut
  /\ shut' = TRUE
  /\ entries' = <<>>
  /\ UNCHANGED <<kind, at, cancelled, tries, joined, outcome, answer, lanes, closing, flights, flight,
                 accounts, called>>

Step(r) ==
  \/ Admit(r) \/ AdmitRefused(r) \/ Lookup(r) \/ LookupRefused(r)
  \/ FollowOutcome(r) \/ FollowFails(r) \/ Attempt(r) \/ Claim(r) \/ ClaimFails(r)
  \/ Dequeue(r) \/ QueueFails(r) \/ Answered(r) \/ CallFails(r) \/ BackOff(r)
  \/ Retry(r) \/ Land(r) \/ Leave(r) \/ LeaveRefused(r)

Next ==
  \/ \E r \in Req : Begin(r) \/ Step(r) \/ Cancel(r)
  \/ CloseCoordinator \/ CloseCache
  \/ \E l \in Routes : CloseLane(l)

Spec == Init /\ [][Next]_vars

(* A thread goes on: every wait of the code has a deadline, and a provider *)
(* call ends by the timeout of its client.                                 *)
Fairness == \A r \in Req : WF_vars(Step(r))

LiveSpec == Spec /\ Fairness

-------------------------------------------------------------------------------
(* Types of the variables.                                                 *)
TypeOK ==
  /\ kind \in Kinds
  /\ at \in [Req -> Waiting \cup {"new", "admitting", "lookup", "attempt", "claim",
                                  "calling", "landing", "leaving", "refused", "done"}]
  /\ cancelled \subseteq Req
  /\ \A r \in Req : tries[r] \in 0 .. Retries[r]
  /\ joined \in [Req -> Req \cup {None}]
  /\ outcome \in [Req -> Errors \cup {"none", "ok", "hit"}]
  /\ answer \in [Req -> Req \cup {None}]
  /\ lanes \in [Routes -> [admitted : Nat, active : Nat, waiting : Nat, closed : BOOLEAN]]
  /\ closed \in BOOLEAN /\ shut \in BOOLEAN
  /\ toClose \subseteq Routes
  /\ flights \in [Keys -> Req \cup {None}]
  /\ flight \in [Req -> {"none", "open", "done", "failed"}]
  /\ entries \in Seq([key : Keys, by : Req])
  /\ audit \in [Req -> {"none", "succeeded", "cache_hit", "aborted", "failed"}]
  /\ receipt \in [Req -> {"none", "pending", "succeeded", "cancelled", "failed"}]
  /\ called \subseteq Req

(* The counters of a lane are the requests that are there, in every        *)
(* interleaving of arrivals, deadlines, cancellations, retries and the     *)
(* shutdown: a slot that leaks blocks the route for ever, one that is      *)
(* given back twice lets too many calls through.                           *)
Inside(l, states) == Cardinality({r \in Req : Lane[r] = l /\ at[r] \in states})

LanesExact ==
  \A l \in Routes :
    /\ lanes[l].active = Inside(l, {"calling"})
    /\ lanes[l].waiting = Inside(l, {"queued"})
    /\ lanes[l].admitted = Inside(l, Waiting \cup {"lookup", "attempt", "claim", "calling",
                                                   "landing", "leaving"})
    /\ lanes[l].active <= MaxConcurrency
    /\ lanes[l].admitted <= MaxPending

(* "Collapses identical concurrent work with single-flight": two requests  *)
(* for one key are never executed side by side, and whoever waits for a    *)
(* flight waits for the registered one, which is going to end.             *)
SingleFlight ==
  /\ \A r \in Req : flight[r] = "open" => flights[Key[r]] = r
  /\ \A r \in Req : flight[r] = "open" =>
       at[r] \in {"attempt", "claim", "queued", "calling", "backoff", "landing"}

(* The cache keeps results of successful calls only, one for a key, no     *)
(* more than it may, and none after the shutdown.  A served result is one  *)
(* of the same key, and only its own caller is charged for a call.         *)
CacheHonest ==
  /\ Len(entries) <= MaxEntries
  /\ \A i, j \in DOMAIN entries : entries[i].key = entries[j].key => i = j
  /\ \A i \in DOMAIN entries : outcome[entries[i].by] = "ok"
  /\ shut => entries = <<>>
  /\ \A r \in Req : outcome[r] = "hit" =>
       /\ outcome[answer[r]] = "ok" /\ Key[answer[r]] = Key[r] /\ kind[answer[r]] = "cached"
       /\ r \notin called
  /\ \A r \in Req : audit[r] = "succeeded" => r \in called

(* Every request is answered, recorded and receipted, however it was       *)
(* queued, joined, retried, cancelled or shut out.                         *)
RequestsSettle ==
  \A r \in Req : at[r] # "new" ~> at[r] = "done" /\ receipt[r] \notin {"none", "pending"}

(* "Stop queued work": what waits in a lane when it is closed makes no     *)
(* provider call any more (docstring of LLMService.close).                 *)
QueuedWorkStops ==
  [][\A r \in Req : at[r] = "queued" /\ at'[r] = "calling" => ~ lane(r).closed]_vars
===============================================================================
