-------------------------- MODULE JobLifecycleProofs --------------------------
(***************************************************************************)
(* EventsAreTold and NumbersAreFresh, for any jobs, clients, starts and    *)
(* queue sizes.  What a thread has still to deliver agrees with the job it *)
(* is about (WorkInv, NoticeInv): a snapshot that ends the job is the one  *)
(* outcome, and one that shows a cancellation is of a job whose            *)
(* cancellation is accepted, so that it cannot complete.  The log, which   *)
(* outlives the process, then never learns two ends (LogInv).              *)
(***************************************************************************)
EXTENDS JobLifecycle, WellFoundedInduction, TLAPS

Modes == {"off", "replaying", "checking", "live", "finished", "stopped"}

StreamType == [mode : Modes, upto : Nat, queue : Seq(Nat), overflowed : BOOLEAN]

TypeInv ==
  /\ service \in {"down", "open", "closed", "shut"}
  /\ nextId \in 1..(MaxId + 1)
  /\ core \in [Id -> Snapshot \cup {None}]
  /\ work \in [Id -> {"none", "submitting", "pending", "body", "over"}]
  /\ token \subseteq Id /\ deferring \subseteq Id /\ accepted \subseteq Id
  /\ call \in [Id -> {"idle", "accepted", "withdrawn", "requested", "deferred"}]
  /\ notice \in [Thread -> [Id -> Snapshot \cup {None}]]
  /\ log \in [Id -> Seq(Event)]
  /\ sub \in [Reader -> StreamType]
  /\ seen \in [Reader -> Nat]
  /\ outcome \in [Id -> CoreTerminal \cup {None}]

(* What a snapshot may say of its job.                                     *)
Truthful(j, s) ==
  /\ s.state \in CoreTerminal => work[j] = "over" /\ s.state = outcome[j]
  /\ s.state = "completed" => j \notin accepted
  /\ s.requested \/ s.pending => j \in accepted

(* The manager's snapshot and the thread that works on the job.            *)
WorkInv ==
  \A j \in Id :
    /\ service = "down" => work[j] = "none"
    /\ work[j] = "none" <=> core[j] = None
    /\ work[j] # "none" =>
         /\ j < nextId
         /\ Truthful(j, core[j])
         /\ work[j] \in {"submitting", "pending"} => core[j].state = "queued"
         /\ work[j] = "body" => core[j].state = "running"
         /\ work[j] = "over" => core[j].state \in CoreTerminal

(* The threads that cancel, and the tokens they have requested.            *)
CallInv ==
  \A j \in Id :
    /\ call[j] # "idle" => j \in accepted /\ service # "down"
    /\ call[j] = "withdrawn" => work[j] = "over"
    /\ j \in token => j \in accepted

(* What is still to be delivered.                                          *)
NoticeInv ==
  \A t \in Thread, j \in Id :
    notice[t][j] # None => /\ service # "down"
                           /\ j < nextId
                           /\ Truthful(j, notice[t][j])

Shown(j) == \E n \in 1..Len(log[j]) : log[j][n].state \in {"cancelling", "pending-safe-point"}

(* The log and what became of its jobs.                                    *)
LogInv ==
  \A j \in Id :
    /\ log[j] # <<>> => j < nextId
    /\ \A n \in 1..(Len(log[j]) - 1) : log[j][n].state \notin Terminal
    /\ Over(j) => /\ work[j] \in {"none", "over"}
                  /\ Last(log[j]).state # "interrupted" => Last(log[j]).state = outcome[j]
                  /\ Last(log[j]).state = "completed" => ~ Shown(j)
    /\ Shown(j) => Over(j) \/ j \in accepted \/ service = "down"

Base(r) == IF sub[r].mode = "replaying" THEN sub[r].upto ELSE seen[r]

(* The m numbers after b.                                                  *)
Numbers(b, m) == [i \in 1..m |-> b + i]

(* What a stream has sent, will replay and has queued.                     *)
StreamInv ==
  \A r \in Reader :
    /\ seen[r] <= Len(log[Watched[r]])
    /\ sub[r].mode \in {"replaying", "checking", "live"} => service = "open"
    /\ sub[r].mode = "replaying" => sub[r].upto <= Len(log[Watched[r]])
    /\ Streams(r) =>
         /\ Base(r) <= Len(log[Watched[r]])
         /\ sub[r].queue = Numbers(Base(r), Len(log[Watched[r]]) - Base(r))

JobInv ==
  /\ TypeInv /\ WorkInv /\ CallInv /\ NoticeInv /\ LogInv /\ StreamInv

(* Induction on the naturals, as a fact about sets: a bounded set has a    *)
(* greatest number.                                                        *)
LEMMA Greatest ==
  ASSUME NEW N \in Nat, NEW S \in SUBSET (1..N), S # {}
  PROVE  \E n \in S : \A m \in S : m <= n
<1> DEFINE T == {u \in Nat : N - u \in S}
<1>1. T \subseteq Nat /\ T # {}
  <2>1. PICK n \in S : TRUE
    OBVIOUS
  <2>2. N - n \in Nat /\ N - (N - n) = n
    BY <2>1
  <2> QED
    BY <2>1, <2>2
<1>2. PICK t \in T : \A u \in T : <<u, t>> \notin OpToRel(<, Nat)
  BY <1>1, NatLessThanWellFounded, WFMin, Zenon
<1>3. \A u \in T : ~ (u < t)
  BY <1>1, <1>2 DEF OpToRel
<1>4. t \in Nat /\ N - t \in S
  BY <1>2
<1>5. \A m \in S : m <= N - t
  <2> TAKE m \in S
  <2>1. N - m \in Nat /\ N - (N - m) = m
    OBVIOUS
  <2>2. ~ (N - m < t)
    BY <2>1, <1>3
  <2> QED
    BY <1>4, <2>2
<1> QED
  BY <1>4, <1>5

(* The next number is beyond all that the log knows.                       *)
LEMMA NextIsFresh ==
  ASSUME TypeInv
  PROVE  NextNumber \in 1..(MaxId + 1) /\ \A j \in Id : log[j] # <<>> => j < NextNumber
<1> USE JobLifecycleAssumption DEF Id
<1> DEFINE S == {j \in 1..MaxId : log[j] # <<>>}
           Good(n) == /\ \A j \in Id : log[j] # <<>> => j < n
                      /\ n = 1 \/ log[n - 1] # <<>>
<1>1. \E n \in 1..(MaxId + 1) : Good(n)
  <2>1. CASE S = {}
    BY <2>1
  <2>2. CASE S # {}
    <3>1. MaxId \in Nat /\ S \in SUBSET (1..MaxId)
      OBVIOUS
    <3>2. PICK g \in S : \A m \in S : m <= g
      BY <2>2, <3>1, Greatest
    <3>3. g + 1 \in 1..(MaxId + 1) /\ (g + 1) - 1 = g
      BY <3>2
    <3>4. log[g] # <<>> /\ \A j \in Id : log[j] # <<>> => j <= g
      BY <3>2
    <3>5. Good(g + 1)
      BY <3>3, <3>4
    <3> QED
      BY <3>3, <3>5
  <2> QED
    BY <2>1, <2>2
<1>2. NextNumber \in 1..(MaxId + 1) /\ Good(NextNumber)
  <2>1. NextNumber = CHOOSE n \in 1..(MaxId + 1) : Good(n)
    BY DEF NextNumber
  <2> HIDE DEF Good
  <2> QED
    BY <1>1, <2>1
<1> QED
  BY <1>2

(* What Append makes of a log.                                             *)
LEMMA Appended ==
  ASSUME NEW q \in Seq(Event), NEW e \in Event
  PROVE  /\ Append(q, e) \in Seq(Event) /\ Append(q, e) # <<>> /\ Append(q, e) # q
         /\ Len(Append(q, e)) = Len(q) + 1 /\ Last(Append(q, e)) = e
         /\ \A n \in 1..Len(q) : Append(q, e)[n] = q[n]
<1>1. /\ Append(q, e) \in Seq(Event) /\ Len(Append(q, e)) = Len(q) + 1
      /\ Append(q, e)[Len(q) + 1] = e
      /\ \A n \in 1..Len(q) : Append(q, e)[n] = q[n]
  OBVIOUS
<1>2. Append(q, e) # <<>> /\ Append(q, e) # q
  BY <1>1
<1> QED
  BY <1>1, <1>2 DEF Last

(* The event a snapshot is recorded as.                                    *)
LEMMA PublicIsEvent ==
  ASSUME NEW s \in Snapshot
  PROVE  /\ Public(s) \in Event
         /\ Public(s).state \in CoreTerminal => s.state = Public(s).state
         /\ Public(s).state # "interrupted"
         /\ Public(s).state \in {"cancelling", "pending-safe-point"} => s.requested \/ s.pending
  BY DEF Public, PublicState, Snapshot, Event, Terminal, CoreTerminal

(* An event that is recorded is the next of a job that is not over.        *)
Learning(t, j) ==
  /\ service = "open"
  /\ ~ Over(j)
  /\ log' = [log EXCEPT ![j] = Append(log[j], Public(notice[t][j]))]
  /\ sub' = [r \in Reader |-> IF Watched[r] = j /\ Streams(r)
                                THEN Offered(r, Len(log[j]) + 1) ELSE sub[r]]

(* Deliver, by its effect.                                                *)
LEMMA DeliverEffect ==
  ASSUME TypeInv, NEW t \in Thread, NEW j \in Id, Deliver(t, j)
  PROVE  /\ notice[t][j] \in Snapshot
         /\ notice' = [notice EXCEPT ![t][j] = None]
         /\ UNCHANGED <<starts, service, manager, seen, history>>
         /\ UNCHANGED <<log, sub>> \/ Learning(t, j)
<1>1. notice[t][j] \in Snapshot /\ log[j] \in Seq(Event)
  BY DEF Deliver, TypeInv
<1>2. Public(notice[t][j]) \in Event
  BY <1>1, PublicIsEvent
<1> DEFINE after == Recorded(j, notice[t][j])
<1>3. CASE UNCHANGED <<log, sub>>
  BY <1>1, <1>3 DEF Deliver
<1>4. CASE service = "open" /\ log' = [log EXCEPT ![j] = after] /\
           sub' = [r \in Reader |-> IF after # log[j] /\ Watched[r] = j /\ Streams(r)
                                      THEN Offered(r, Len(after)) ELSE sub[r]]
  <2>1. CASE after = log[j]
    <3>1. log' = log
      BY <1>4, <2>1 DEF TypeInv
    <3>2. sub' = sub
      BY <1>4, <2>1 DEF TypeInv
    <3> QED
      BY <3>1, <3>2, <1>3
  <2>2. CASE after # log[j]
    <3>1. ~ Over(j) /\ after = Append(log[j], Public(notice[t][j]))
      BY <2>2 DEF Recorded, Over
    <3>2. Len(after) = Len(log[j]) + 1
      BY <1>1, <1>2, <3>1, Appended
    <3> QED
      BY <1>1, <1>4, <2>2, <3>1, <3>2 DEF Deliver, Learning
  <2> QED
    BY <2>1, <2>2
<1> QED
  BY <1>3, <1>4 DEF Deliver

(* A stream that is not there.                                             *)
LEMMA NoStreamTyped == NoStream \in StreamType /\ NoStream.mode = "off"
BY DEF NoStream, StreamType, Modes

(* No numbers.                                                             *)
LEMMA NoNumbers == \A b : Numbers(b, 0) = <<>>
BY DEF Numbers

(* One more at the end.                                                    *)
LEMMA NumbersGrow ==
  ASSUME NEW b \in Nat, NEW m \in Nat
  PROVE  Append(Numbers(b, m), b + m + 1) = Numbers(b, m + 1)
<1> DEFINE q == [i \in 1..m |-> b + i]
<1>1. q \in Seq(Nat) /\ Len(q) = m
  OBVIOUS
<1>2. Append(q, b + m + 1) = [i \in 1..(m + 1) |-> IF i <= m THEN q[i] ELSE b + m + 1]
  BY <1>1
<1>3. \A i \in 1..(m + 1) : (IF i <= m THEN q[i] ELSE b + m + 1) = b + i
  OBVIOUS
<1> QED
  BY <1>2, <1>3 DEF Numbers

(* The first one gone.                                                     *)
LEMMA NumbersShrink ==
  ASSUME NEW b \in Nat, NEW m \in Nat, Numbers(b, m) # <<>>
  PROVE  /\ m - 1 \in Nat
         /\ Head(Numbers(b, m)) = b + 1
         /\ Tail(Numbers(b, m)) = Numbers(b + 1, m - 1)
<1> DEFINE q == [i \in 1..m |-> b + i]
<1>1. q \in Seq(Nat) /\ Len(q) = m /\ q # <<>>
  BY DEF Numbers
<1>2. m - 1 \in Nat
  BY <1>1
<1>3. Head(q) = b + 1
  BY <1>1, <1>2
<1>4. Tail(q) = [i \in 1..(m - 1) |-> q[i + 1]]
  BY <1>1, <1>2
<1>5. \A i \in 1..(m - 1) : q[i + 1] = (b + 1) + i
  BY <1>2
<1> QED
  BY <1>2, <1>3, <1>4, <1>5 DEF Numbers

(* What the next start makes of a log.                                     *)
LEMMA InterruptedEffect ==
  ASSUME TypeInv, NEW j \in Id
  PROVE  \/ Interrupted(j) = log[j] /\ (log[j] = <<>> \/ Over(j))
         \/ /\ log[j] # <<>> /\ ~ Over(j)
            /\ \E e \in Event : e.state = "interrupted" /\ Interrupted(j) = Append(log[j], e)
<1>1. CASE log[j] = <<>> \/ Over(j)
  BY <1>1 DEF Interrupted
<1>2. CASE log[j] # <<>> /\ ~ Over(j)
  <2>1. log[j] \in Seq(Event) /\ Last(log[j]) \in Event
    BY <1>2 DEF TypeInv, Last
  <2> DEFINE e == [Last(log[j]) EXCEPT !.state = "interrupted"]
  <2>2. e \in Event /\ e.state = "interrupted"
    BY <2>1 DEF Event, Terminal
  <2>3. Interrupted(j) = Append(log[j], e)
    BY <1>2 DEF Interrupted
  <2> QED
    BY <1>2, <2>2, <2>3
<1> QED
  BY <1>1, <1>2

(* The log of a job that is not over has no terminal event.                *)
LEMMA NotOver ==
  ASSUME LogInv, NEW j \in Id, log[j] \in Seq(Event), ~ Over(j)
  PROVE  \A n \in 1..Len(log[j]) : log[j][n].state \notin Terminal
<1> TAKE n \in 1..Len(log[j])
<1>1. CASE n = Len(log[j])
  <2>1. log[j] # <<>> /\ Last(log[j]) = log[j][n]
    BY <1>1 DEF Last
  <2> QED
    BY <2>1 DEF Over
<1>2. CASE n # Len(log[j])
  BY <1>2 DEF LogInv
<1> QED
  BY <1>1, <1>2

(* Every step keeps the invariant.                                         *)
LEMMA JobStep == JobInv /\ [Next]_vars => JobInv'
<1> SUFFICES ASSUME TypeInv, WorkInv, CallInv, NoticeInv, LogInv, StreamInv,
                  [Next]_vars
             PROVE JobInv'
  BY DEF JobInv
<1> USE JobLifecycleAssumption, NoSnapshot DEF manager, history
<1>1. ASSUME NEW j \in Id, Submit(j) PROVE JobInv'
  <2> DEFINE s == [state |-> "queued", requested |-> FALSE, pending |-> FALSE, progress |-> 0]
  <2>a. nextId \in Nat /\ j = nextId /\ ~ (j < nextId) /\ nextId' = nextId + 1
        /\ nextId' \in 1..(MaxId + 1)
    BY <1>1 DEF Submit, Tell, WorkInv, TypeInv, Id
  <2>b. s \in Snapshot /\ s.state = "queued" /\ ~ s.requested /\ ~ s.pending
    BY DEF Snapshot, CoreTerminal
  <2>c. /\ core' = [core EXCEPT ![j] = s]
        /\ work' = [work EXCEPT ![j] = "submitting"]
        /\ notice' = [notice EXCEPT !["submitter"][j] = s]
        /\ outcome' = [outcome EXCEPT ![j] = None]
        /\ UNCHANGED <<starts, service, token, deferring, accepted, call, log, sub, seen>>
    BY <1>1 DEF Submit, Tell
  <2> HIDE DEF s
  <2>1. StreamInv'
    BY <1>1 DEF Submit, Tell, StreamInv, Streams, Base
  <2>2. TypeInv'
    BY <2>a, <2>b, <2>c DEF TypeInv, Thread, CoreTerminal
  <2>3. WorkInv'
    <3> SUFFICES ASSUME NEW i \in Id PROVE WorkInv!(i)'
      BY DEF WorkInv
    <3>1. CASE i = j
      <4>1. service # "down" /\ j < nextId'
        BY <1>1, <2>a DEF Submit
      <4>2. core'[j] = s /\ work'[j] = "submitting" /\ s # None
        BY <2>b, <2>c DEF TypeInv
      <4> QED
        BY <2>b, <2>c, <3>1, <4>1, <4>2 DEF Truthful, CoreTerminal
    <3>2. CASE i # j
      BY <2>a, <2>c, <3>2 DEF TypeInv, WorkInv, Truthful, Id
    <3> QED
      BY <3>1, <3>2
  <2>4. CallInv'
    BY <2>a, <2>c DEF TypeInv, WorkInv, CallInv, Id
  <2>5. NoticeInv'
    <3> SUFFICES ASSUME NEW t \in Thread, NEW i \in Id PROVE NoticeInv!(t, i)'
      BY DEF NoticeInv
    <3>1. CASE i = j
      <4>1. notice[t][j] = None
        BY <2>a DEF NoticeInv
      <4>2. service' # "down" /\ j < nextId'
        BY <1>1, <2>a DEF Submit
      <4> QED
        BY <2>a, <2>b, <2>c, <3>1, <4>1, <4>2 DEF TypeInv, Truthful,
           CoreTerminal
    <3>2. CASE i # j
      BY <2>a, <2>c, <3>2 DEF TypeInv, NoticeInv, Truthful, Id
    <3> QED
      BY <3>1, <3>2
  <2>6. LogInv'
    <3> SUFFICES ASSUME NEW i \in Id PROVE LogInv!(i)'
      BY DEF LogInv
    <3>1. CASE i = j
      <4>1. log[j] = <<>>
        BY <2>a DEF LogInv
      <4> QED
        BY <2>c, <3>1, <4>1 DEF Over, Shown
    <3>2. CASE i # j
      BY <2>a, <2>c, <3>2 DEF TypeInv, LogInv, Over, Shown, Id
    <3> QED
      BY <3>1, <3>2
  <2> QED
    BY <2>1, <2>2, <2>3, <2>4, <2>5, <2>6 DEF JobInv
<1>2. ASSUME NEW j \in Id, Enqueue(j) PROVE JobInv'
  <2>1. StreamInv'
    BY <1>2 DEF Enqueue, Silent, StreamInv, Streams, Base
  <2>2. TypeInv'
    BY <1>2 DEF Enqueue, Silent, TypeInv, Thread
  <2>3. WorkInv'
    BY <1>2 DEF Enqueue, Silent, TypeInv, Thread, WorkInv, Truthful,
       CoreTerminal
  <2>4. CallInv'
    BY <1>2 DEF Enqueue, Silent, TypeInv, Thread, CallInv
  <2>5. NoticeInv'
    BY <1>2 DEF Enqueue, Silent, TypeInv, Thread, NoticeInv, Truthful,
       CoreTerminal
  <2>6. LogInv'
    BY <1>2 DEF Enqueue, Silent, TypeInv, Thread, LogInv, Over, Shown
  <2> QED
    BY <2>1, <2>2, <2>3, <2>4, <2>5, <2>6 DEF JobInv
<1>3. ASSUME NEW j \in Id, EnqueueFails(j) PROVE JobInv'
  <2>1. StreamInv'
    BY <1>3 DEF EnqueueFails, Silent, StreamInv, Streams, Base
  <2>2. TypeInv'
    BY <1>3 DEF EnqueueFails, Silent, TypeInv, Thread
  <2>3. WorkInv'
    BY <1>3 DEF EnqueueFails, Silent, TypeInv, Thread, WorkInv, Truthful,
       CoreTerminal
  <2>4. CallInv'
    BY <1>3 DEF EnqueueFails, Silent, TypeInv, Thread, CallInv
  <2>5. NoticeInv'
    BY <1>3 DEF EnqueueFails, Silent, TypeInv, Thread, NoticeInv, Truthful,
       CoreTerminal
  <2>6. LogInv'
    BY <1>3 DEF EnqueueFails, Silent, TypeInv, Thread, LogInv, Over, Shown
  <2> QED
    BY <2>1, <2>2, <2>3, <2>4, <2>5, <2>6 DEF JobInv
<1>4. ASSUME NEW j \in Id, Begin(j) PROVE JobInv'
  <2> DEFINE s == [core[j] EXCEPT !.state = "running"]
  <2>a. core[j] \in Snapshot /\ work[j] = "pending"
    BY <1>4 DEF Begin, Works, Silent, Tell, WorkInv, TypeInv
  <2>b. s \in Snapshot /\ s.state = "running" /\ s.requested = core[j].requested
        /\ s.pending = core[j].pending
    BY <1>4, <2>a DEF Begin, Snapshot, CoreTerminal
  <2>c. /\ core' = [core EXCEPT ![j] = s]
        /\ work' = [work EXCEPT ![j] = "body"]
        /\ notice' = [notice EXCEPT !["worker"][j] = s]
        /\ UNCHANGED <<starts, service, nextId, token, deferring, accepted, call, log,
                       sub, seen, outcome, promised>>
    BY <1>4 DEF Begin, Works, Silent, Tell
  <2> HIDE DEF s
  <2>1. StreamInv'
    BY <1>4 DEF Begin, Works, Silent, Tell, StreamInv, Streams, Base
  <2>2. TypeInv'
    BY <2>a, <2>b, <2>c DEF TypeInv, Thread, CoreTerminal
  <2>3. WorkInv'
    BY <2>a, <2>b, <2>c DEF TypeInv, WorkInv, CallInv, Truthful, CoreTerminal
  <2>4. CallInv'
    BY <2>a, <2>b, <2>c DEF TypeInv, WorkInv, CallInv
  <2>5. NoticeInv'
    BY <2>a, <2>b, <2>c DEF TypeInv, WorkInv, NoticeInv, Truthful,
       CoreTerminal, Thread
  <2>6. LogInv'
    BY <2>a, <2>b, <2>c DEF TypeInv, WorkInv, CallInv, LogInv, Over, Shown
  <2> QED
    BY <2>1, <2>2, <2>3, <2>4, <2>5, <2>6 DEF JobInv
<1>5. ASSUME NEW j \in Id, End(j) PROVE JobInv'
  <2>r. PICK result \in {"failed", "completed", "cancelled"} :
          /\ result = "cancelled" => j \in token
          /\ core' = [core EXCEPT ![j] = Ended(j, result)]
          /\ notice' = [notice EXCEPT !["worker"][j] = Ended(j, result)]
          /\ outcome' = [outcome EXCEPT ![j] = Ended(j, result).state]
    BY <1>5 DEF End, Tell
  <2> DEFINE s == Ended(j, result)
  <2>a. core[j] \in Snapshot /\ work[j] \in {"body", "pending"}
    BY <1>5 DEF End, Works, WorkInv, TypeInv
  <2>b. /\ s \in Snapshot /\ s.state \in CoreTerminal
        /\ s.state = "completed" => j \notin accepted
        /\ s.requested \/ s.pending => core[j].requested \/ core[j].pending \/ j \in accepted
    BY <2>r, <2>a DEF Ended, Snapshot, CoreTerminal, CallInv
  <2>c. /\ core' = [core EXCEPT ![j] = s] /\ work' = [work EXCEPT ![j] = "over"]
        /\ notice' = [notice EXCEPT !["worker"][j] = s]
        /\ outcome' = [outcome EXCEPT ![j] = s.state]
        /\ UNCHANGED <<starts, service, nextId, token, deferring, accepted, call, log,
                       sub, seen,
                       promised>>
    BY <1>5, <2>r DEF End
  <2> HIDE DEF s
  <2>1. StreamInv'
    BY <1>5 DEF End, Works, Silent, Tell, Ended, StreamInv, Streams, Base
  <2>2. TypeInv'
    BY <2>a, <2>b, <2>c DEF TypeInv, Thread, CoreTerminal
  <2>3. WorkInv'
    BY <2>a, <2>b, <2>c DEF TypeInv, WorkInv, CallInv, Truthful, CoreTerminal
  <2>4. CallInv'
    BY <2>a, <2>b, <2>c DEF TypeInv, WorkInv, CallInv
  <2>5. NoticeInv'
    BY <2>a, <2>b, <2>c DEF TypeInv, WorkInv, NoticeInv, Truthful,
       CoreTerminal, Thread
  <2>6. LogInv'
    BY <2>a, <2>b, <2>c DEF TypeInv, WorkInv, CallInv, LogInv, Over, Shown
  <2> QED
    BY <2>1, <2>2, <2>3, <2>4, <2>5, <2>6 DEF JobInv
<1>6. ASSUME NEW j \in Id, Report(j) PROVE JobInv'
  <2> DEFINE s == [core[j] EXCEPT !.progress = @ + 1]
  <2>a. core[j] \in Snapshot /\ work[j] = "body"
    BY <1>6 DEF Report, Works, Silent, Tell, WorkInv, TypeInv
  <2>b. s \in Snapshot /\ s.state = core[j].state /\ s.requested = core[j].requested
        /\ s.pending = core[j].pending
    BY <1>6, <2>a DEF Report, Snapshot, CoreTerminal
  <2>c. /\ core' = [core EXCEPT ![j] = s]
        /\ notice' = [notice EXCEPT !["worker"][j] = s]
        /\ UNCHANGED <<starts, service, nextId, work, token, deferring, accepted, call,
                       log, sub, seen, outcome, promised>>
    BY <1>6 DEF Report, Works, Silent, Tell
  <2> HIDE DEF s
  <2>1. StreamInv'
    BY <1>6 DEF Report, Works, Silent, Tell, StreamInv, Streams, Base
  <2>2. TypeInv'
    BY <2>a, <2>b, <2>c DEF TypeInv, Thread, CoreTerminal
  <2>3. WorkInv'
    BY <2>a, <2>b, <2>c DEF TypeInv, WorkInv, CallInv, Truthful, CoreTerminal
  <2>4. CallInv'
    BY <2>a, <2>b, <2>c DEF TypeInv, WorkInv, CallInv
  <2>5. NoticeInv'
    BY <2>a, <2>b, <2>c DEF TypeInv, WorkInv, NoticeInv, Truthful,
       CoreTerminal, Thread
  <2>6. LogInv'
    BY <2>a, <2>b, <2>c DEF TypeInv, WorkInv, CallInv, LogInv, Over, Shown
  <2> QED
    BY <2>1, <2>2, <2>3, <2>4, <2>5, <2>6 DEF JobInv
<1>7. ASSUME NEW j \in Id, Protect(j) PROVE JobInv'
  <2>1. WorkInv' /\ CallInv' /\ NoticeInv' /\ LogInv' /\ StreamInv'
    BY <1>7 DEF Protect, Works, Silent, WorkInv, Truthful, CoreTerminal,
       CallInv, NoticeInv, LogInv, Over, Shown, StreamInv, Streams, Base
  <2>2. TypeInv'
    BY <1>7 DEF Protect, Works, Silent, TypeInv, Thread
  <2> QED
    BY <2>1, <2>2 DEF JobInv
<1>8. ASSUME NEW j \in Id, Unprotect(j) PROVE JobInv'
  <2> DEFINE s == [core[j] EXCEPT !.requested = TRUE, !.pending = FALSE]
  <2>a. core[j] \in Snapshot /\ work[j] = "body"
    BY <1>8 DEF Unprotect, Works, WorkInv, TypeInv
  <2>b. s \in Snapshot /\ s.state = core[j].state
    BY <2>a DEF Snapshot
  <2>c. /\ deferring' = deferring \ {j}
        /\ \/ core' = core /\ notice' = notice
           \/ j \in token /\ core' = [core EXCEPT ![j] = s]
              /\ notice' = [notice EXCEPT !["worker"][j] = s]
        /\ UNCHANGED <<starts, service, nextId, work, token, accepted, call, log, sub, seen,
                       outcome, promised>>
    BY <1>8 DEF Unprotect, Tell
  <2> HIDE DEF s
  <2>1. StreamInv'
    BY <1>8 DEF Unprotect, Works, Silent, Tell, StreamInv, Streams, Base
  <2>2. TypeInv'
    <3>1. CASE core' = core /\ notice' = notice
      BY <2>a, <2>b, <2>c, <3>1 DEF TypeInv, Thread
    <3>2. CASE j \in token /\ core' = [core EXCEPT ![j] = s]
               /\ notice' = [notice EXCEPT !["worker"][j] = s]
      BY <2>a, <2>b, <2>c, <3>2 DEF TypeInv, Thread
    <3> QED
      BY <2>c, <3>1, <3>2
  <2>3. WorkInv'
    <3>1. CASE core' = core /\ notice' = notice
      BY <2>a, <2>b, <2>c, <3>1 DEF TypeInv, WorkInv, CallInv, Truthful,
         CoreTerminal
    <3>2. CASE j \in token /\ core' = [core EXCEPT ![j] = s]
               /\ notice' = [notice EXCEPT !["worker"][j] = s]
      BY <2>a, <2>b, <2>c, <3>2 DEF TypeInv, WorkInv, CallInv, Truthful,
         CoreTerminal
    <3> QED
      BY <2>c, <3>1, <3>2
  <2>4. CallInv'
    BY <2>a, <2>b, <2>c DEF TypeInv, WorkInv, CallInv
  <2>5. NoticeInv'
    <3>1. CASE core' = core /\ notice' = notice
      BY <2>a, <2>b, <2>c, <3>1 DEF TypeInv, WorkInv, CallInv, NoticeInv,
         Truthful, CoreTerminal, Thread
    <3>2. CASE j \in token /\ core' = [core EXCEPT ![j] = s]
               /\ notice' = [notice EXCEPT !["worker"][j] = s]
      BY <2>a, <2>b, <2>c, <3>2 DEF TypeInv, WorkInv, CallInv, NoticeInv,
         Truthful, CoreTerminal, Thread
    <3> QED
      BY <2>c, <3>1, <3>2
  <2>6. LogInv'
    BY <2>a, <2>b, <2>c DEF TypeInv, WorkInv, CallInv, LogInv, Over, Shown
  <2> QED
    BY <2>1, <2>2, <2>3, <2>4, <2>5, <2>6 DEF JobInv
<1>9. ASSUME NEW j \in Id, Accept(j) PROVE JobInv'
  <2> DEFINE s == [core[j] EXCEPT !.requested = TRUE]
  <2>a. core[j] \in Snapshot /\ core[j].state \in {"queued", "running"}
    BY <1>9 DEF Accept, CoreActive, Silent, WorkInv, TypeInv
  <2>b. s \in Snapshot /\ s.state = core[j].state /\ s.requested /\ s.pending = core[j].pending
    BY <1>9, <2>a DEF Accept, Snapshot, CoreTerminal
  <2>c. /\ core' = [core EXCEPT ![j] = s]
        /\ accepted' = accepted \cup {j}
        /\ call' = [call EXCEPT ![j] = "accepted"]
        /\ service # "down"
        /\ UNCHANGED <<starts, service, nextId, work, token, deferring, notice, log, sub,
                       seen, outcome, promised>>
    BY <1>9 DEF Accept, CoreActive, Silent
  <2> HIDE DEF s
  <2>1. StreamInv'
    BY <1>9 DEF Accept, CoreActive, Silent, StreamInv, Streams, Base
  <2>2. TypeInv'
    BY <2>a, <2>b, <2>c DEF TypeInv, Thread, CoreTerminal
  <2>3. WorkInv'
    BY <2>a, <2>b, <2>c DEF TypeInv, WorkInv, CallInv, Truthful, CoreTerminal
  <2>4. CallInv'
    BY <2>a, <2>b, <2>c DEF TypeInv, WorkInv, CallInv
  <2>5. NoticeInv'
    BY <2>a, <2>b, <2>c DEF TypeInv, WorkInv, NoticeInv, Truthful,
       CoreTerminal, Thread
  <2>6. LogInv'
    BY <2>a, <2>b, <2>c DEF TypeInv, WorkInv, CallInv, LogInv, Over, Shown
  <2> QED
    BY <2>1, <2>2, <2>3, <2>4, <2>5, <2>6 DEF JobInv
<1>10. ASSUME NEW j \in Id, Withdraw(j) PROVE JobInv'
  <2> DEFINE s == [core[j] EXCEPT !.state = "cancelled", !.requested = TRUE]
  <2>a. core[j] \in Snapshot /\ work[j] = "pending"
    BY <1>10 DEF Withdraw, Silent, WorkInv, TypeInv
  <2>b. s \in Snapshot /\ s.state = "cancelled" /\ s.requested /\ s.pending = core[j].pending
    BY <1>10, <2>a DEF Withdraw, Snapshot, CoreTerminal
  <2>c. /\ core' = [core EXCEPT ![j] = s]
        /\ accepted' = accepted \cup {j}
        /\ work' = [work EXCEPT ![j] = "over"]
        /\ call' = [call EXCEPT ![j] = "withdrawn"]
        /\ outcome' = [outcome EXCEPT ![j] = "cancelled"]
        /\ service # "down"
        /\ UNCHANGED <<starts, service, nextId, token, deferring, notice, log, sub, seen,
                       promised>>
    BY <1>10 DEF Withdraw, Silent
  <2> HIDE DEF s
  <2>1. StreamInv'
    BY <1>10 DEF Withdraw, Silent, StreamInv, Streams, Base
  <2>2. TypeInv'
    BY <2>a, <2>b, <2>c DEF TypeInv, Thread, CoreTerminal
  <2>3. WorkInv'
    BY <2>a, <2>b, <2>c DEF TypeInv, WorkInv, CallInv, Truthful, CoreTerminal
  <2>4. CallInv'
    BY <2>a, <2>b, <2>c DEF TypeInv, WorkInv, CallInv
  <2>5. NoticeInv'
    BY <2>a, <2>b, <2>c DEF TypeInv, WorkInv, NoticeInv, Truthful,
       CoreTerminal, Thread
  <2>6. LogInv'
    BY <2>a, <2>b, <2>c DEF TypeInv, WorkInv, CallInv, LogInv, Over, Shown
  <2> QED
    BY <2>1, <2>2, <2>3, <2>4, <2>5, <2>6 DEF JobInv
<1>11. ASSUME NEW j \in Id, Request(j) PROVE JobInv'
  <2>1. WorkInv' /\ NoticeInv' /\ LogInv' /\ StreamInv'
    BY <1>11 DEF Request, WorkInv, Truthful, CoreTerminal, NoticeInv, LogInv,
       Over, Shown, StreamInv, Streams, Base
  <2>2. TypeInv'
    BY <1>11 DEF Request, TypeInv, Thread
  <2>3. CallInv'
    BY <1>11 DEF Request, TypeInv, Thread, CallInv
  <2> QED
    BY <2>1, <2>2, <2>3 DEF JobInv
<1>12. ASSUME NEW j \in Id, RequestWithdrawn(j) PROVE JobInv'
  <2>1. WorkInv' /\ LogInv' /\ StreamInv'
    BY <1>12 DEF RequestWithdrawn, Tell, WorkInv, Truthful, CoreTerminal,
       LogInv, Over, Shown, StreamInv, Streams, Base
  <2>2. TypeInv'
    BY <1>12 DEF RequestWithdrawn, Tell, TypeInv, Thread
  <2>3. CallInv'
    BY <1>12 DEF RequestWithdrawn, Tell, TypeInv, Thread, CallInv
  <2>4. NoticeInv'
    BY <1>12 DEF RequestWithdrawn, Tell, NoticeInv, Truthful, CoreTerminal,
       WorkInv
  <2> QED
    BY <2>1, <2>2, <2>3, <2>4 DEF JobInv
<1>13. ASSUME NEW j \in Id, Sync(j) PROVE JobInv'
  <2> DEFINE s == [core[j] EXCEPT !.requested = TRUE, !.pending = (call[j] = "deferred")]
  <2>a. j \in accepted /\ service # "down"
    BY <1>13 DEF Sync, CallInv
  <2>b. CoreActive(j) => /\ core[j] \in Snapshot /\ core[j].state \in {"queued", "running"}
                         /\ s \in Snapshot /\ s.state = core[j].state
    BY ZenonT(120) DEF CoreActive, TypeInv, Snapshot
  <2>c. /\ call' = [call EXCEPT ![j] = "idle"]
        /\ \/ core' = core /\ notice' = notice
           \/ CoreActive(j) /\ core' = [core EXCEPT ![j] = s]
              /\ notice' = [notice EXCEPT !["canceller"][j] = s]
        /\ UNCHANGED <<starts, service, nextId, work, token, deferring, accepted, log,
                       sub, seen,
                       outcome, promised>>
    BY <1>13 DEF Sync, Tell
  <2> HIDE DEF s
  <2>1. StreamInv'
    BY <1>13 DEF Sync, Tell, CoreActive, StreamInv, Streams, Base
  <2>2. TypeInv'
    <3>1. CASE core' = core /\ notice' = notice
      BY <2>a, <2>b, <2>c, <3>1 DEF TypeInv, Thread
    <3>2. CASE CoreActive(j) /\ core' = [core EXCEPT ![j] = s]
               /\ notice' = [notice EXCEPT !["canceller"][j] = s]
      BY <2>a, <2>b, <2>c, <3>2 DEF TypeInv, Thread
    <3> QED
      BY <2>c, <3>1, <3>2
  <2>3. WorkInv'
    <3>1. CASE core' = core /\ notice' = notice
      BY <2>a, <2>b, <2>c, <3>1 DEF TypeInv, WorkInv, CallInv, Truthful,
         CoreTerminal
    <3>2. CASE CoreActive(j) /\ core' = [core EXCEPT ![j] = s]
               /\ notice' = [notice EXCEPT !["canceller"][j] = s]
      BY <2>a, <2>b, <2>c, <3>2 DEF TypeInv, WorkInv, CallInv, Truthful,
         CoreTerminal
    <3> QED
      BY <2>c, <3>1, <3>2
  <2>4. CallInv'
    BY <2>a, <2>b, <2>c DEF TypeInv, WorkInv, CallInv
  <2>5. NoticeInv'
    <3>1. CASE core' = core /\ notice' = notice
      BY <2>a, <2>b, <2>c, <3>1 DEF TypeInv, WorkInv, CallInv, NoticeInv,
         Truthful, CoreTerminal, Thread
    <3>2. CASE CoreActive(j) /\ core' = [core EXCEPT ![j] = s]
               /\ notice' = [notice EXCEPT !["canceller"][j] = s]
      BY <2>a, <2>b, <2>c, <3>2 DEF TypeInv, WorkInv, CallInv, NoticeInv,
         Truthful, CoreTerminal, Thread
    <3> QED
      BY <2>c, <3>1, <3>2
  <2>6. LogInv'
    BY <2>a, <2>b, <2>c DEF TypeInv, WorkInv, CallInv, LogInv, Over, Shown
  <2> QED
    BY <2>1, <2>2, <2>3, <2>4, <2>5, <2>6 DEF JobInv
<1>14. ASSUME NEW t \in Thread, NEW j \in Id, Deliver(t, j) PROVE JobInv'
  <2>a. /\ notice[t][j] \in Snapshot /\ notice' = [notice EXCEPT ![t][j] = None]
        /\ UNCHANGED <<starts, service, manager, seen, history>>
        /\ UNCHANGED <<log, sub>> \/ Learning(t, j)
    BY <1>14, DeliverEffect
  <2> DEFINE e == Public(notice[t][j])
             q == Append(log[j], e)
  <2>b. /\ log[j] \in Seq(Event) /\ e \in Event
        /\ q \in Seq(Event) /\ q # <<>> /\ Len(q) = Len(log[j]) + 1 /\ Last(q) = e
        /\ \A n \in 1..Len(log[j]) : q[n] = log[j][n]
    <3>1. notice[t][j] \in Snapshot
      BY <2>a
    <3>2. e \in Event
      BY <3>1, PublicIsEvent
    <3>3. log[j] \in Seq(Event)
      BY DEF TypeInv
    <3> QED
      BY <3>2, <3>3, Appended
  <2>c. Learning(t, j) => log' = [log EXCEPT ![j] = q] /\ ~ Over(j) /\ service = "open"
    BY DEF Learning
  <2>d. /\ e.state \in CoreTerminal => notice[t][j].state = e.state
        /\ e.state # "interrupted"
        /\ e.state \in {"cancelling", "pending-safe-point"}
             => notice[t][j].requested \/ notice[t][j].pending
    BY <2>a, PublicIsEvent
  <2>e. UNCHANGED <<log, sub>> \/ Learning(t, j)
    BY <2>a
  <2> HIDE DEF e, q
  <2>1. TypeInv'
    <3>1. notice' \in [Thread -> [Id -> Snapshot \cup {None}]]
      BY <2>a DEF TypeInv
    <3>2. log' \in [Id -> Seq(Event)]
      BY <2>b, <2>c, <2>e DEF TypeInv
    <3>3. sub' \in [Reader -> StreamType]
      <4>1. CASE UNCHANGED <<log, sub>>
        BY <4>1 DEF TypeInv
      <4>2. CASE Learning(t, j)
        <5>1. \A r \in Reader : sub[r] \in StreamType
              /\ Offered(r, Len(log[j]) + 1) \in StreamType
          <6> TAKE r \in Reader
          <6>1. sub[r] \in StreamType /\ Len(log[j]) + 1 \in Nat
            BY <2>b DEF TypeInv
          <6>2. Append(sub[r].queue, Len(log[j]) + 1) \in Seq(Nat)
            BY <6>1 DEF StreamType
          <6> QED
            BY <6>1, <6>2 DEF StreamType, Offered
        <5> QED
          BY <4>2, <5>1 DEF Learning
      <4> QED
        BY <2>e, <4>1, <4>2
    <3> QED
      BY <2>a, <3>1, <3>2, <3>3 DEF TypeInv
  <2>2. WorkInv'
    BY <2>a DEF WorkInv, Truthful
  <2>3. CallInv'
    BY <2>a DEF CallInv
  <2>4. NoticeInv'
    BY <2>a DEF NoticeInv, Truthful, TypeInv
  <2>5. LogInv'
    <3>1. CASE UNCHANGED <<log, sub>>
      BY <2>a, <3>1 DEF LogInv, Over, Shown
    <3>2. CASE Learning(t, j)
      <4> SUFFICES ASSUME NEW i \in Id PROVE LogInv!(i)'
        BY DEF LogInv
      <4>1. CASE i # j
        BY <2>a, <2>c, <3>2, <4>1 DEF LogInv, Over, Shown, TypeInv
      <4>2. CASE i = j
        <5>1. log'[j] = q /\ ~ Over(j) /\ service = "open"
          BY <2>c, <3>2 DEF TypeInv
        <5>2. j < nextId /\ Truthful(j, notice[t][j])
          BY <2>a DEF NoticeInv
        <5>3. \A n \in 1..Len(log[j]) : log[j][n].state \notin Terminal
          BY <2>b, <5>1, NotOver
        <5>4. \A n \in 1..(Len(q) - 1) : q[n].state \notin Terminal
          BY <2>b, <5>3
        <5>5. e.state \in Terminal =>
                /\ work[j] = "over" /\ e.state = outcome[j]
                /\ e.state = "completed" => j \notin accepted
          BY <2>d, <5>2 DEF Truthful, Terminal, CoreTerminal
        <5>6. Shown(j) => j \in accepted
          BY <5>1 DEF LogInv
        <5>7. Shown(j)' => Shown(j) \/ e.state \in {"cancelling", "pending-safe-point"}
          BY <2>b, <5>1, SMTT(60) DEF Shown, Last
        <5>8. e.state \in {"cancelling", "pending-safe-point"} =>
                j \in accepted /\ e.state \notin Terminal
          BY <2>d, <5>2 DEF Truthful, Terminal, CoreTerminal
        <5>9. Over(j)' <=> e.state \in Terminal
          BY <2>b, <5>1 DEF Over
        <5> QED
          BY <2>a, <2>b, <4>2, <5>1, <5>2, <5>4, <5>5, <5>6, <5>7, <5>8, <5>9
      <4> QED
        BY <4>1, <4>2
    <3> QED
      BY <2>e, <3>1, <3>2
  <2>6. StreamInv'
    <3>1. CASE UNCHANGED <<log, sub>>
      BY <2>a, <3>1 DEF StreamInv, Streams, Base
    <3>2. CASE Learning(t, j)
      <4> SUFFICES ASSUME NEW r \in Reader PROVE StreamInv!(r)'
        BY DEF StreamInv
      <4>1. /\ Watched[r] \in Id /\ sub[r] \in StreamType /\ seen[r] \in Nat
            /\ log[Watched[r]] \in Seq(Event)
            /\ sub'[r] = IF Watched[r] = j /\ Streams(r)
                           THEN Offered(r, Len(log[j]) + 1) ELSE sub[r]
            /\ UNCHANGED <<service, seen>>
        BY <2>a, <3>2 DEF TypeInv, Learning
      <4>2. CASE Watched[r] # j
        <5>1. sub'[r] = sub[r] /\ log'[Watched[r]] = log[Watched[r]]
          BY <2>c, <3>2, <4>1, <4>2 DEF TypeInv
        <5> QED
          BY <4>1, <5>1 DEF StreamInv, Streams, Base
      <4>3. CASE Watched[r] = j
        <5>1. Len(log'[j]) = Len(log[j]) + 1 /\ Len(log[j]) \in Nat
          BY <2>b, <2>c, <3>2 DEF TypeInv
        <5>2. CASE ~ Streams(r)
          <6>1. sub'[r] = sub[r]
            BY <4>1, <5>2
          <6> QED
            BY <4>1, <4>3, <5>1, <5>2, <6>1 DEF StreamInv, Streams, StreamType
        <5>3. CASE Streams(r) /\ Len(sub[r].queue) < QueueSize
          <6> DEFINE m == Len(log[j]) - Base(r)
          <6>1. /\ sub'[r].mode = sub[r].mode /\ sub'[r].upto = sub[r].upto
                /\ sub'[r].overflowed = sub[r].overflowed
                /\ sub'[r].queue = Append(sub[r].queue, Len(log[j]) + 1)
            BY <4>1, <4>3, <5>3 DEF Offered, StreamType
          <6>2. Base(r) \in Nat /\ m \in Nat /\ sub[r].queue = Numbers(Base(r), m)
            BY <4>1, <4>3, <5>1, <5>3, SMTT(60) DEF StreamInv, Base, StreamType
          <6>3. Len(log[j]) + 1 = Base(r) + m + 1 /\ m + 1 = Len(log'[j]) - Base(r)
            BY <5>1, <6>2
          <6>4. sub'[r].queue = Numbers(Base(r), Len(log'[j]) - Base(r))
            BY <6>1, <6>2, <6>3, NumbersGrow
          <6>5. Base(r)' = Base(r)
            BY <4>1, <6>1 DEF Base
          <6> QED
            BY <4>1, <4>3, <5>1, <5>3, <6>1, <6>2, <6>4, <6>5, SMTT(60) DEF StreamInv,
               StreamType
        <5>4. CASE Streams(r) /\ ~ (Len(sub[r].queue) < QueueSize)
          <6>1. /\ sub'[r].mode = sub[r].mode /\ sub'[r].upto = sub[r].upto
                /\ sub'[r].overflowed
            BY <4>1, <4>3, <5>4 DEF Offered, StreamType
          <6> QED
            BY <4>1, <4>3, <5>1, <6>1 DEF StreamInv, Streams, StreamType
        <5> QED
          BY <5>2, <5>3, <5>4
      <4> QED
        BY <4>2, <4>3
    <3> QED
      BY <2>e, <3>1, <3>2
  <2> QED
    BY <2>1, <2>2, <2>3, <2>4, <2>5, <2>6 DEF JobInv
<1>15. ASSUME NEW r \in Reader, Subscribe(r) PROVE JobInv'
  <2> DEFINE q == [NoStream EXCEPT !.mode = "replaying", !.upto = Len(log[Watched[r]])]
  <2>a. /\ sub[r] \in StreamType /\ seen[r] \in Nat
        /\ Watched[r] \in Id /\ Len(log[Watched[r]]) \in Nat
        /\ service = "open"
    BY <1>15 DEF Subscribe, TypeInv
  <2>b. q \in StreamType /\ q.mode = "replaying" /\ q.upto = Len(log[Watched[r]])
        /\ q.queue = <<>> /\ ~ q.overflowed
    BY <2>a, NoStreamTyped DEF StreamType, Modes, NoStream
  <2>c. /\ sub' = [sub EXCEPT ![r] = q]
        /\ UNCHANGED <<starts, service, nextId, core, work, token, deferring, accepted,
                       call, notice, log, seen, outcome, promised>>
    BY <1>15 DEF Subscribe
  <2> HIDE DEF q
  <2>1. WorkInv' /\ CallInv' /\ NoticeInv' /\ LogInv'
    BY <1>15 DEF Subscribe, NoStream, WorkInv, Truthful, CoreTerminal, CallInv,
       NoticeInv, LogInv, Over, Shown
  <2>2. TypeInv'
    BY <2>a, <2>b, <2>c DEF TypeInv, StreamType
  <2>3. StreamInv'
    <3> SUFFICES ASSUME NEW i \in Reader PROVE StreamInv!(i)'
      BY DEF StreamInv
    <3>1. CASE i = r
      BY <2>a, <2>b, <2>c, <3>1, NoNumbers DEF TypeInv, StreamInv, Streams,
         Base, StreamType
    <3>2. CASE i # r
      BY <2>a, <2>c, <3>2 DEF TypeInv, StreamInv, Streams, Base
    <3> QED
      BY <3>1, <3>2
  <2> QED
    BY <2>1, <2>2, <2>3 DEF JobInv
<1>16. ASSUME NEW r \in Reader, SubscribeExpired(r) PROVE JobInv'
  <2>1. WorkInv' /\ CallInv' /\ NoticeInv' /\ LogInv'
    BY <1>16 DEF SubscribeExpired, Oldest, WorkInv, Truthful, CoreTerminal,
       CallInv, NoticeInv, LogInv, Over, Shown
  <2>2. TypeInv'
    BY <1>16 DEF SubscribeExpired, Oldest, TypeInv, Thread
  <2>3. StreamInv'
    <3>1. /\ Watched[r] \in Id /\ Len(log[Watched[r]]) \in Nat /\ sub[r].mode = "off"
          /\ seen' = [seen EXCEPT ![r] = Len(log[Watched[r]])] /\ UNCHANGED <<service,
                                                                              log, sub>>
      BY <1>16 DEF SubscribeExpired, TypeInv
    <3> SUFFICES ASSUME NEW i \in Reader PROVE StreamInv!(i)'
      BY DEF StreamInv
    <3>2. CASE i = r
      BY <3>1, <3>2 DEF TypeInv, StreamInv, Streams, Base, StreamType
    <3>3. CASE i # r
      BY <3>1, <3>3 DEF TypeInv, StreamInv, Streams, Base
    <3> QED
      BY <3>2, <3>3
  <2> QED
    BY <2>1, <2>2, <2>3 DEF JobInv
<1>17. ASSUME NEW r \in Reader, SendReplay(r) PROVE JobInv'
  <2> DEFINE q == [sub[r] EXCEPT !.mode = IF seen[r] < sub[r].upto
  /\ Has(r, sub[r].upto) THEN "finished" ELSE "checking"]
  <2>a. /\ sub[r] \in StreamType /\ seen[r] \in Nat
        /\ Watched[r] \in Id /\ Len(log[Watched[r]]) \in Nat
        /\ sub[r].mode = "replaying"
    BY <1>17 DEF SendReplay, TypeInv
  <2>b. q \in StreamType /\ q.mode \in {"finished", "checking"}
        /\ q.queue = sub[r].queue /\ q.overflowed = sub[r].overflowed
    BY <2>a, NoStreamTyped DEF StreamType, Modes
  <2>c. /\ sub' = [sub EXCEPT ![r] = q]
        /\ seen' = [seen EXCEPT ![r] = sub[r].upto]
        /\ UNCHANGED <<starts, service, nextId, core, work, token, deferring, accepted,
                       call, notice, log, outcome, promised>>
    BY <1>17 DEF SendReplay
  <2> HIDE DEF q
  <2>1. WorkInv' /\ CallInv' /\ NoticeInv' /\ LogInv'
    BY <1>17 DEF SendReplay, WorkInv, Truthful, CoreTerminal, CallInv,
       NoticeInv, LogInv, Over, Shown
  <2>2. TypeInv'
    BY <2>a, <2>b, <2>c DEF TypeInv, StreamType
  <2>3. StreamInv'
    <3> SUFFICES ASSUME NEW i \in Reader PROVE StreamInv!(i)'
      BY DEF StreamInv
    <3>1. CASE i = r
      BY <2>a, <2>b, <2>c, <3>1 DEF TypeInv, StreamInv, Streams, Base,
         StreamType
    <3>2. CASE i # r
      BY <2>a, <2>c, <3>2 DEF TypeInv, StreamInv, Streams, Base
    <3> QED
      BY <3>1, <3>2
  <2> QED
    BY <2>1, <2>2, <2>3 DEF JobInv
<1>18. ASSUME NEW r \in Reader, CheckEnded(r) PROVE JobInv'
  <2> DEFINE q == [sub[r] EXCEPT !.mode = IF Over(Watched[r]) THEN "stopped" ELSE "live"]
  <2>a. /\ sub[r] \in StreamType /\ seen[r] \in Nat
        /\ Watched[r] \in Id /\ Len(log[Watched[r]]) \in Nat
        /\ sub[r].mode = "checking"
    BY <1>18 DEF CheckEnded, TypeInv
  <2>b. q \in StreamType /\ q.mode \in {"stopped", "live"} /\ q.queue = sub[r].queue
        /\ q.overflowed = sub[r].overflowed
    BY <2>a, NoStreamTyped DEF StreamType, Modes
  <2>c. /\ sub' = [sub EXCEPT ![r] = q]
        /\ UNCHANGED <<starts, service, nextId, core, work, token, deferring, accepted,
                       call, notice, log, seen, outcome, promised>>
    BY <1>18 DEF CheckEnded
  <2> HIDE DEF q
  <2>1. WorkInv' /\ CallInv' /\ NoticeInv' /\ LogInv'
    BY <1>18 DEF CheckEnded, WorkInv, Truthful, CoreTerminal, CallInv,
       NoticeInv, LogInv, Over, Shown
  <2>2. TypeInv'
    BY <2>a, <2>b, <2>c DEF TypeInv, StreamType
  <2>3. StreamInv'
    <3> SUFFICES ASSUME NEW i \in Reader PROVE StreamInv!(i)'
      BY DEF StreamInv
    <3>1. CASE i = r
      BY <2>a, <2>b, <2>c, <3>1 DEF TypeInv, StreamInv, Streams, Base,
         StreamType
    <3>2. CASE i # r
      BY <2>a, <2>c, <3>2 DEF TypeInv, StreamInv, Streams, Base
    <3> QED
      BY <3>1, <3>2
  <2> QED
    BY <2>1, <2>2, <2>3 DEF JobInv
<1>19. ASSUME NEW r \in Reader, SendEvent(r) PROVE JobInv'
  <2> DEFINE q == [sub[r] EXCEPT !.queue = Tail(@), !.mode = IF Has(r, Head(sub[r].queue)) THEN "finished" ELSE @]
  <2>a. /\ sub[r] \in StreamType /\ seen[r] \in Nat
        /\ Watched[r] \in Id /\ Len(log[Watched[r]]) \in Nat
        /\ sub[r].mode = "live" /\ ~ sub[r].overflowed /\ sub[r].queue # <<>>
        /\ Head(sub[r].queue) \in Nat /\ Tail(sub[r].queue) \in Seq(Nat)
    BY <1>19, SMTT(60) DEF SendEvent, TypeInv, StreamType
  <2>b. q \in StreamType /\ q.mode \in {"finished", "live"}
        /\ q.queue = Tail(sub[r].queue) /\ q.overflowed = sub[r].overflowed
    BY <2>a, NoStreamTyped DEF StreamType, Modes
  <2>c. /\ sub' = [sub EXCEPT ![r] = q]
        /\ seen' = [seen EXCEPT ![r] = Head(sub[r].queue)]
        /\ UNCHANGED <<starts, service, nextId, core, work, token, deferring, accepted,
                       call, notice, log, outcome, promised>>
    BY <1>19 DEF SendEvent
  <2> HIDE DEF q
  <2>1. WorkInv' /\ CallInv' /\ NoticeInv' /\ LogInv'
    BY <1>19 DEF SendEvent, WorkInv, Truthful, CoreTerminal, CallInv,
       NoticeInv, LogInv, Over, Shown
  <2>2. TypeInv'
    BY <2>a, <2>b, <2>c DEF TypeInv, StreamType
  <2>3. StreamInv'
    <3> SUFFICES ASSUME NEW i \in Reader PROVE StreamInv!(i)'
      BY DEF StreamInv
    <3>1. CASE i = r
      <4> DEFINE m == Len(log[Watched[r]]) - seen[r]
      <4>1. Streams(r) /\ Base(r) = seen[r]
        BY <2>a DEF Streams, Base
      <4>2. m \in Nat /\ sub[r].queue = Numbers(seen[r], m) /\ service = "open"
        BY <2>a, <4>1 DEF StreamInv
      <4>3. /\ m - 1 \in Nat /\ seen'[r] = seen[r] + 1
            /\ q.queue = Numbers(seen[r] + 1, m - 1)
        <5>1. Numbers(seen[r], m) # <<>> /\ seen[r] \in Nat
          BY <2>a, <4>2
        <5>2. /\ m - 1 \in Nat /\ Head(Numbers(seen[r], m)) = seen[r] + 1
              /\ Tail(Numbers(seen[r], m)) = Numbers(seen[r] + 1, m - 1)
          BY <4>2, <5>1, NumbersShrink
        <5>3. seen'[r] = Head(sub[r].queue)
          BY <2>c DEF TypeInv
        <5> QED
          BY <2>b, <4>2, <5>2, <5>3
      <4>4. seen'[r] <= Len(log[Watched[r]]) /\ m - 1 = Len(log[Watched[r]]) - seen'[r]
        BY <2>a, <4>3, SMTT(60)
      <4>5. sub'[r] = q /\ UNCHANGED <<log, service>>
        BY <2>c DEF TypeInv
      <4>6. Base(r)' = seen'[r]
        BY <2>b, <4>5 DEF Base
      <4> QED
        BY <2>b, <3>1, <4>2, <4>3, <4>4, <4>5, <4>6
    <3>2. CASE i # r
      BY <2>a, <2>c, <3>2 DEF TypeInv, StreamInv, Streams, Base
    <3> QED
      BY <3>1, <3>2
  <2> QED
    BY <2>1, <2>2, <2>3 DEF JobInv
<1>20. ASSUME NEW r \in Reader, Resync(r) PROVE JobInv'
  <2> DEFINE q == NoStream
  <2>a. /\ sub[r] \in StreamType /\ seen[r] \in Nat
        /\ Watched[r] \in Id /\ Len(log[Watched[r]]) \in Nat
        /\ service = "open"
    BY <1>20 DEF Resync, TypeInv
  <2>b. q \in StreamType /\ q.mode = "off"
    BY <2>a, NoStreamTyped DEF StreamType, Modes
  <2>c. /\ sub' = [sub EXCEPT ![r] = q]
        /\ seen' = [seen EXCEPT ![r] = Len(log[Watched[r]])]
        /\ UNCHANGED <<starts, service, nextId, core, work, token, deferring, accepted,
                       call, notice, log, outcome, promised>>
    BY <1>20 DEF Resync
  <2> HIDE DEF q
  <2>1. WorkInv' /\ CallInv' /\ NoticeInv' /\ LogInv'
    BY <1>20 DEF Resync, NoStream, WorkInv, Truthful, CoreTerminal, CallInv,
       NoticeInv, LogInv, Over, Shown
  <2>2. TypeInv'
    BY <2>a, <2>b, <2>c DEF TypeInv, StreamType
  <2>3. StreamInv'
    <3> SUFFICES ASSUME NEW i \in Reader PROVE StreamInv!(i)'
      BY DEF StreamInv
    <3>1. CASE i = r
      BY <2>a, <2>b, <2>c, <3>1 DEF TypeInv, StreamInv, Streams, Base,
         StreamType
    <3>2. CASE i # r
      BY <2>a, <2>c, <3>2 DEF TypeInv, StreamInv, Streams, Base
    <3> QED
      BY <3>1, <3>2
  <2> QED
    BY <2>1, <2>2, <2>3 DEF JobInv
<1>21. ASSUME NEW r \in Reader, Disconnect(r) PROVE JobInv'
  <2> DEFINE q == NoStream
  <2>a. /\ sub[r] \in StreamType /\ seen[r] \in Nat
        /\ Watched[r] \in Id /\ Len(log[Watched[r]]) \in Nat
        /\ TRUE
    BY <1>21 DEF Disconnect, TypeInv
  <2>b. q \in StreamType /\ q.mode = "off"
    BY <2>a, NoStreamTyped DEF StreamType, Modes
  <2>c. /\ sub' = [sub EXCEPT ![r] = q]
        /\ UNCHANGED <<starts, service, nextId, core, work, token, deferring, accepted,
                       call, notice, log, seen, outcome, promised>>
    BY <1>21 DEF Disconnect
  <2> HIDE DEF q
  <2>1. WorkInv' /\ CallInv' /\ NoticeInv' /\ LogInv'
    BY <1>21 DEF Disconnect, NoStream, WorkInv, Truthful, CoreTerminal,
       CallInv, NoticeInv, LogInv, Over, Shown
  <2>2. TypeInv'
    BY <2>a, <2>b, <2>c DEF TypeInv, StreamType
  <2>3. StreamInv'
    <3> SUFFICES ASSUME NEW i \in Reader PROVE StreamInv!(i)'
      BY DEF StreamInv
    <3>1. CASE i = r
      BY <2>a, <2>b, <2>c, <3>1 DEF TypeInv, StreamInv, Streams, Base,
         StreamType
    <3>2. CASE i # r
      BY <2>a, <2>c, <3>2 DEF TypeInv, StreamInv, Streams, Base
    <3> QED
      BY <3>1, <3>2
  <2> QED
    BY <2>1, <2>2, <2>3 DEF JobInv
<1>22. ASSUME PrepareShutdown PROVE JobInv'
  <2>1. TypeInv' /\ WorkInv' /\ CallInv' /\ NoticeInv' /\ LogInv' /\ StreamInv'
    BY <1>22 DEF PrepareShutdown, TypeInv, Thread, WorkInv, Truthful,
       CoreTerminal, CallInv, NoticeInv, LogInv, Over, Shown, StreamInv,
       Streams, Base
  <2> QED
    BY <2>1 DEF JobInv
<1>23. ASSUME Close PROVE JobInv'
  <2>1. TypeInv'
    <3>1. sub' \in [Reader -> StreamType]
      BY <1>23, NoStreamTyped DEF Close, TypeInv
    <3> QED
      BY <1>23, <3>1 DEF Close, TypeInv
  <2>2. WorkInv'
    BY <1>23 DEF Close, NoStream, TypeInv, Thread, WorkInv, Truthful,
       CoreTerminal
  <2>3. CallInv'
    BY <1>23 DEF Close, NoStream, TypeInv, Thread, CallInv
  <2>4. NoticeInv'
    BY <1>23 DEF Close, NoStream, TypeInv, Thread, NoticeInv, Truthful,
       CoreTerminal
  <2>5. LogInv'
    BY <1>23 DEF Close, NoStream, TypeInv, Thread, LogInv, Over, Shown
  <2>6. StreamInv'
    BY <1>23 DEF Close, NoStream, TypeInv, Thread, StreamInv, Streams, Base
  <2> QED
    BY <2>1, <2>2, <2>3, <2>4, <2>5, <2>6 DEF JobInv
<1>24. ASSUME Shut PROVE JobInv'
  <2>1. TypeInv'
    BY <1>24 DEF Shut, TypeInv, Thread
  <2>2. WorkInv'
    BY <1>24 DEF Shut, TypeInv, Thread, WorkInv, Truthful, CoreTerminal
  <2>3. CallInv'
    BY <1>24 DEF Shut, TypeInv, Thread, CallInv
  <2>4. NoticeInv'
    BY <1>24 DEF Shut, TypeInv, Thread, NoticeInv, Truthful, CoreTerminal
  <2>5. LogInv'
    BY <1>24 DEF Shut, TypeInv, Thread, LogInv, Over, Shown
  <2>6. StreamInv'
    BY <1>24 DEF Shut, TypeInv, Thread, StreamInv, Streams, Base
  <2> QED
    BY <2>1, <2>2, <2>3, <2>4, <2>5, <2>6 DEF JobInv
<1>25. ASSUME Gone PROVE JobInv'
  <2>1. TypeInv'
    <3>1. sub' \in [Reader -> StreamType]
      BY <1>25, NoStreamTyped DEF Gone, TypeInv
    <3>2. notice' \in [Thread -> [Id -> Snapshot \cup {None}]]
      BY <1>25 DEF Gone, Quiet
    <3> QED
      BY <1>25, <3>1, <3>2 DEF Gone, TypeInv
  <2>2. WorkInv'
    BY <1>25 DEF Gone, NoStream, Quiet, TypeInv, Thread, WorkInv, Truthful,
       CoreTerminal
  <2>3. CallInv'
    BY <1>25 DEF Gone, NoStream, Quiet, TypeInv, Thread, CallInv
  <2>4. NoticeInv'
    BY <1>25 DEF Gone, NoStream, Quiet, TypeInv, Thread, NoticeInv, Truthful,
       CoreTerminal
  <2>5. LogInv'
    BY <1>25 DEF Gone, NoStream, Quiet, TypeInv, Thread, LogInv, Over, Shown
  <2>6. StreamInv'
    BY <1>25 DEF Gone, NoStream, Quiet, TypeInv, Thread, StreamInv, Streams,
       Base
  <2> QED
    BY <2>1, <2>2, <2>3, <2>4, <2>5, <2>6 DEF JobInv
<1>26. ASSUME Start PROVE JobInv'
  <2>a. /\ nextId' \in 1..(MaxId + 1) /\ \A j \in Id : log[j] # <<>> => j < nextId'
        /\ service = "down" /\ service' = "open"
        /\ UNCHANGED <<core, work, token, deferring, accepted, call, notice, sub, seen,
                       outcome>>
    BY <1>26, NextIsFresh DEF Start
  <2>b. ASSUME NEW i \in Id
        PROVE  \/ log'[i] = log[i] /\ (log[i] = <<>> \/ Over(i))
               \/ /\ log[i] # <<>> /\ ~ Over(i)
                  /\ log'[i] \in Seq(Event) /\ log'[i] # <<>>
                  /\ Len(log'[i]) = Len(log[i]) + 1 /\ Last(log'[i]).state = "interrupted"
                  /\ \A n \in 1..Len(log[i]) : log'[i][n] = log[i][n]
    <3>1. log'[i] = Interrupted(i) /\ log[i] \in Seq(Event)
      BY <1>26 DEF Start, TypeInv
    <3>2. CASE log'[i] = log[i] /\ (log[i] = <<>> \/ Over(i))
      BY <3>2
    <3>3. CASE \E e \in Event : e.state = "interrupted" /\ log'[i] = Append(log[i], e)
      <4>1. PICK e \in Event : e.state = "interrupted" /\ log'[i] = Append(log[i], e)
        BY <3>3
      <4>2. /\ log'[i] \in Seq(Event) /\ log'[i] # <<>> /\ log'[i] # log[i]
            /\ Len(log'[i]) = Len(log[i]) + 1 /\ Last(log'[i]) = e
            /\ \A n \in 1..Len(log[i]) : log'[i][n] = log[i][n]
        <5> DEFINE a == Append(log[i], e)
        <5>1. /\ a \in Seq(Event) /\ Len(a) = Len(log[i]) + 1 /\ a # <<>> /\ a # log[i]
              /\ Last(a) = e
              /\ \A n \in 1..Len(log[i]) : a[n] = log[i][n]
          BY <3>1, Appended
        <5>2. log'[i] = a
          BY <4>1
        <5> HIDE DEF a
        <5> QED
          BY <5>1, <5>2
      <4> QED
        BY <3>1, <4>1, <4>2, InterruptedEffect
    <3> QED
      BY <3>1, <3>2, <3>3, InterruptedEffect
  <2>c. log' \in [Id -> Seq(Event)]
    <3>1. log' = [i \in Id |-> log'[i]]
      BY <1>26 DEF Start
    <3>2. \A i \in Id : log'[i] \in Seq(Event)
      BY <2>b DEF TypeInv
    <3> QED
      BY <3>1, <3>2
  <2>1. TypeInv'
    BY <2>a, <2>c DEF TypeInv
  <2>2. WorkInv'
    BY <2>a DEF WorkInv, Truthful
  <2>3. CallInv'
    BY <2>a DEF CallInv
  <2>4. NoticeInv'
    BY <2>a DEF NoticeInv
  <2>5. LogInv'
    <3> SUFFICES ASSUME NEW i \in Id PROVE LogInv!(i)'
      BY DEF LogInv
    <3>1. log[i] \in Seq(Event) /\ work[i] = "none" /\ (log[i] # <<>> => i < nextId')
      BY <2>a DEF TypeInv, WorkInv
    <3>2. CASE log'[i] = log[i] /\ (log[i] = <<>> \/ Over(i))
      BY <2>a, <3>1, <3>2, SMTT(60) DEF LogInv, Over, Shown
    <3>3. CASE /\ log[i] # <<>> /\ ~ Over(i)
               /\ log'[i] \in Seq(Event) /\ log'[i] # <<>>
               /\ Len(log'[i]) = Len(log[i]) + 1 /\ Last(log'[i]).state = "interrupted"
               /\ \A n \in 1..Len(log[i]) : log'[i][n] = log[i][n]
      <4>1. \A n \in 1..Len(log[i]) : log[i][n].state \notin Terminal
        <5>1. log[i] \in Seq(Event) /\ ~ Over(i)
          BY <3>1, <3>3
        <5> QED
          BY <5>1, NotOver
      <4>2. \A n \in 1..(Len(log'[i]) - 1) : log'[i][n].state \notin Terminal
        BY <3>1, <3>3, <4>1, SMTT(60)
      <4>3. Over(i)'
        BY <3>3 DEF Over, Terminal
      <4> QED
        BY <2>a, <3>1, <3>3, <4>2, <4>3
    <3> QED
      BY <2>b, <3>2, <3>3
  <2>6. StreamInv'
    <3> SUFFICES ASSUME NEW r \in Reader PROVE StreamInv!(r)'
      BY DEF StreamInv
    <3>1. Watched[r] \in Id /\ seen[r] \in Nat /\ log[Watched[r]] \in Seq(Event)
      BY DEF TypeInv
    <3>2. Len(log[Watched[r]]) <= Len(log'[Watched[r]]) /\ Len(log'[Watched[r]]) \in Nat
      BY <2>b, <3>1
    <3> QED
      BY <2>a, <3>1, <3>2 DEF StreamInv, Streams
  <2> QED
    BY <2>1, <2>2, <2>3, <2>4, <2>5, <2>6 DEF JobInv
<1>27. CASE UNCHANGED vars
  BY <1>27 DEF vars, JobInv, TypeInv, Thread, WorkInv, Truthful, CoreTerminal,
     CallInv, NoticeInv, LogInv, Over, Shown, StreamInv, Streams, Base
<1> QED
  BY <1>1, <1>2, <1>3, <1>4, <1>5, <1>6, <1>7, <1>8, <1>9, <1>10, <1>11, <1>12,
     <1>13, <1>14, <1>15, <1>16, <1>17, <1>18, <1>19, <1>20, <1>21, <1>22,
     <1>23, <1>24, <1>25, <1>26, <1>27 DEF Next, Run, Stream, Quit, Crash
(* The initial state.                                                      *)
LEMMA InitJob == Init => JobInv
<1> SUFFICES ASSUME Init PROVE JobInv
  OBVIOUS
<1> USE JobLifecycleAssumption, NoSnapshot
<1>1. Thread # {} /\ NoStream \in StreamType /\ NoStream.mode = "off"
  BY NoStreamTyped DEF Thread
<1>2. TypeInv
  BY <1>1 DEF Init, TypeInv, Quiet, Id
<1>3. WorkInv /\ CallInv
  BY DEF Init, WorkInv, CallInv
<1>4. NoticeInv
  BY DEF Init, NoticeInv, Quiet
<1>5. LogInv
  BY DEF Init, LogInv, Over, Shown
<1>6. StreamInv
  <2>1. \A r \in Reader : Watched[r] \in Id
    OBVIOUS
  <2> QED
    BY <1>1, <2>1 DEF Init, StreamInv, Streams
<1> QED
  BY <1>2, <1>3, <1>4, <1>5, <1>6 DEF JobInv

(* Events tell the truth and streams tell every event: a job ends once, in *)
(* the log as in the manager, whichever of its threads delivers last       *)
(* (record_core), and replay and queue of a stream leave no gap            *)
(* (subscribe_after, _publish).                                            *)
THEOREM EventsTold == Spec => []EventsAreTold
<1>1. JobInv => EventsAreTold
  <2> SUFFICES ASSUME JobInv PROVE EventsAreTold
    OBVIOUS
  <2>1. OneOutcome
    <3> SUFFICES ASSUME NEW j \in Id PROVE OneOutcome!(j)
      BY DEF OneOutcome
    <3>1. Shown(j) /\ Over(j) => Last(log[j]).state # "completed"
      BY DEF JobInv, LogInv
    <3>2. Shown(j) => log[j] # <<>>
      BY DEF Shown
    <3>3. log[j] # <<>> /\ Last(log[j]).state = "completed" => Over(j)
      BY DEF Over, Terminal, CoreTerminal
    <3>4. Shown(j) => Last(log[j]).state # "completed"
      BY <3>1, <3>2, <3>3
    <3> QED
      BY <3>4 DEF JobInv, LogInv, Shown
  <2>2. StreamsContiguous
    <3> SUFFICES ASSUME NEW r \in Reader, Streams(r) PROVE StreamsContiguous!(r)
      BY DEF StreamsContiguous
    <3>1. sub[r].queue = Numbers(Base(r), Len(log[Watched[r]]) - Base(r))
      BY DEF JobInv, StreamInv
    <3> QED
      BY <3>1 DEF Numbers, Base
  <2> QED
    BY <2>1, <2>2 DEF EventsAreTold
<1> QED
  BY InitJob, JobStep, <1>1, PTL DEF Spec

(* Only Submit gives a number, and its number is new to the log.           *)
LEMMA SubmitIsFresh ==
  ASSUME JobInv, [Next]_vars, NEW j \in Id, core[j] = None, core'[j] # None
  PROVE  log[j] = <<>>
<1> USE DEF JobInv
<1>1. work[j] = "none"
  BY DEF WorkInv
<1>2. ASSUME NEW i \in Id, Submit(i) PROVE log[j] = <<>>
  <2>1. i = j
    BY <1>2 DEF Submit, TypeInv
  <2>2. nextId \in Nat /\ ~ (j < nextId)
    BY <1>2, <2>1, JobLifecycleAssumption DEF Submit, TypeInv
  <2> QED
    BY <2>2 DEF LogInv
<1>3. ASSUME NEW i \in Id, core' = core \/ core[i] # None,
             core' = core \/ \E s : core' = [core EXCEPT ![i] = s]
      PROVE FALSE
  BY <1>3 DEF TypeInv
<1>4. ASSUME NEW i \in Id,
             Run(i) \/ Report(i) \/ Protect(i) \/ Unprotect(i) \/ Accept(i) \/ Withdraw(i)
             \/ Request(i) \/ RequestWithdrawn(i) \/ Sync(i)
      PROVE FALSE
  <2>1. core' = core \/ core[i] # None
    BY <1>4 DEF Run, Enqueue, EnqueueFails, Begin, End, Report, Protect,
       Unprotect, Accept,
       Withdraw, Request, RequestWithdrawn, Sync, CoreActive, Works, WorkInv
  <2>2. core' = core \/ \E s : core' = [core EXCEPT ![i] = s]
    BY <1>4 DEF Run, Enqueue, EnqueueFails, Begin, End, Report, Protect,
       Unprotect, Accept,
       Withdraw, Request, RequestWithdrawn, Sync
  <2> QED
    BY <1>3, <2>1, <2>2
<1>5. ASSUME core' = core PROVE FALSE
  BY <1>5
<1>6. ASSUME core' = [i \in Id |-> None] PROVE FALSE
  BY <1>6
<1>7. CASE UNCHANGED vars
  BY <1>5, <1>7 DEF vars
<1>8. CASE \E t \in Thread, i \in Id : Deliver(t, i)
  BY <1>5, <1>8 DEF Deliver, manager
<1>9. CASE \E r \in Reader : \/ Subscribe(r) \/ SubscribeExpired(r) \/ SendReplay(r)
                             \/ Stream(r) \/ Disconnect(r)
  BY <1>5, <1>9 DEF Subscribe, SubscribeExpired, SendReplay, Stream,
     CheckEnded, SendEvent,
     Resync, Disconnect, manager
<1>10. CASE PrepareShutdown \/ Close \/ Shut \/ Start
  BY <1>5, <1>10 DEF PrepareShutdown, Close, Shut, Start, manager
<1>11. CASE Quit \/ Crash
  BY <1>6, <1>11 DEF Quit, Crash, Gone
<1> QED
  BY <1>2, <1>4, <1>7, <1>8, <1>9, <1>10, <1>11 DEF Next

(* A number that the log of any earlier process knows is never given to    *)
(* another job (next_job_number at the start, _next_id after it).          *)
THEOREM FreshNumbers == Spec => NumbersAreFresh
<1>1. JobInv /\ [Next]_vars =>
        [\A j \in Id : core[j] = None /\ core'[j] # None => log[j] = <<>>]_vars
  BY SubmitIsFresh
<1> QED
  BY InitJob, JobStep, <1>1, PTL DEF Spec, NumbersAreFresh
===============================================================================
