--------------------------- MODULE ChatStreamProofs ---------------------------
(***************************************************************************)
(* RunsAgree and NothingIsTakenBack, for any runs and sessions, any bounds *)
(* and any replay.  Three parties end a run - its task, a cancellation and *)
(* the next start - and each commits the row, the receipt and the event    *)
(* one after the other, with a crash possible between any two.  What is    *)
(* still to be done is in agenda, so the inductive invariant says of every *)
(* item of agenda what is already true of its run (AgendaInv), and of a    *)
(* run that reads without a running row that its end is on the agenda      *)
(* (ReadingInv).                                                           *)
(***************************************************************************)
EXTENDS ChatStream, FiniteSetTheorems, TLAPS

Does == {"open", "receipt", "commit", "tell", "cancel", "stop"}
ItemType == [does : Does, run : Run, what : Outcome \cup Terminal \cup {"none"}]

Event == {"active", "delta", "cancelling"} \cup Terminal
Told(r) == {events[r][n] : n \in DOMAIN events[r]}
Completed(r) == events[r] # <<>> /\ Last(events[r]) = "completed"
Ending == {"stop", "commit", "tell"}

(* What is true of the run of an item.                                     *)
Opens(i) ==
  /\ Len(agenda) = 1
  /\ row[agenda[i].run] = "none" /\ receipt[agenda[i].run] = "pending"

Ends(i) ==
  /\ i = 1 \/ (i = 2 /\ agenda[1].does = "receipt" /\ agenda[1].run = agenda[2].run)
  /\ row[agenda[i].run] \notin {"none", "running"}

Finishes(i) ==
  /\ i = Len(agenda)
  /\ task[agenda[i].run] \in {"reading", "cancelled"}

Commits(i) ==
  /\ row[agenda[i].run] = "succeeded"
  /\ "cancelling" \notin Told(agenda[i].run)
  /\ i = 1 => receipt[agenda[i].run] = "succeeded"
  /\ i = 2 => receipt[agenda[i].run] = "pending" /\ agenda[1].what = "succeeded"

ItemInv(i) ==
  /\ agenda[i].does # "receipt" => service \in {"open", "closing"}
  /\ agenda[i].does = "open" => Opens(i)
  /\ agenda[i].does = "receipt" => /\ agenda[i].what \in Outcome
                                   /\ row[agenda[i].run] \notin {"none", "running"}
  /\ agenda[i].does = "cancel" => row[agenda[i].run] # "none"
  /\ agenda[i].does \in Ending => Ends(i)
  /\ agenda[i].does \in {"commit", "tell"} => Finishes(i)
  /\ agenda[i].does = "commit" => Commits(i)
  /\ agenda[i].does = "tell" => agenda[i].what \in Terminal \ {"completed"}

AgendaInv == \A i \in DOMAIN agenda : ItemInv(i)

(* A task that reads while its row has a status is being ended.            *)
ReadingInv ==
  \A r \in Run :
    task[r] = "reading" /\ row[r] # "running"
      => \E i \in DOMAIN agenda : agenda[i].run = r /\ agenda[i].does \in Ending

(* The row, the receipt and the task of a run.                             *)
RunInv ==
  \A r \in Run :
    /\ row[r] # "none" => receipt[r] # "none"
    /\ row[r] = "none" => task[r] = "none" /\ events[r] = <<>> /\ r \notin known
    /\ row[r] = "running" => receipt[r] = "pending" /\ "cancelling" \notin Told(r)
    /\ row[r] = "running" /\ service # "down" => r \in known /\ task[r] = "reading"
    /\ task[r] \in {"reading", "cancelled"} => ~ Over(r)
    /\ service \in {"down", "starting"} => task[r] = "none"

(* Only a success has been told to have completed ...                      *)
CompletedInv ==
  \A r \in Run :
    Completed(r) => /\ row[r] = "succeeded" /\ receipt[r] = "succeeded"
                    /\ "cancelling" \notin Told(r)

(* ... and only what has completed is in a session.                        *)
PairsInv ==
  \A s \in Session : \A n \in DOMAIN pairs[s] : pairs[s][n] \in Run => Completed(pairs[s][n])

(* Who holds the sessions that are busy.                                   *)
BusyInv ==
  \A s \in Session :
    /\ s \in busy <=> s \in syncing \/ \E r \in Run : Of[r] = s /\ Holds(r)
    /\ s \in syncing => \A r \in Run : Of[r] = s => ~ Holds(r)
    /\ \A r, q \in Run : Of[r] = s /\ Of[q] = s /\ Holds(r) /\ Holds(q) => r = q

(* What a stream is about to send follows what it has sent.                *)
ReaderInv ==
  \A u \in Reader :
    /\ \A i \in DOMAIN pend[u] : pend[u][i] = seen[u] + i
    /\ seen[u] + Len(pend[u]) <= Len(events[Watched[u]])
    /\ mode[u] = "finished" => Over(Watched[u]) /\ seen[u] = Len(events[Watched[u]])

(* Only finitely many runs have begun, so that SetToSeq orders them.       *)
FiniteInv == IsFiniteSet({r \in Run : row[r] # "none"})

ChatInv ==
  /\ TypeOK /\ AgendaInv /\ ReadingInv /\ RunInv /\ CompletedInv /\ PairsInv
  /\ BusyInv /\ ReaderInv /\ FiniteInv

-------------------------------------------------------------------------------
(* What publishing an event does to a run, and leaves of the others.       *)
LEMMA PublishedEffect ==
  ASSUME NEW r \in Run, NEW type \in Event, events \in [Run -> Seq(Event)],
         events' = Published(r, type)
  PROVE  /\ events' \in [Run -> Seq(Event)]
         /\ \A q \in Run : q # r => events'[q] = events[q]
         /\ \A q \in Run : Len(events'[q]) >= Len(events[q])
         /\ \A q \in Run : Over(q) => Over(q)' /\ events'[q] = events[q]
         /\ \A q \in Run : q # r \/ Over(q) =>
              /\ Over(q)' <=> Over(q)
              /\ Completed(q)' <=> Completed(q)
              /\ Told(q)' = Told(q)
         /\ ~ Over(r) => /\ events'[r] # <<>>
                         /\ Over(r)' <=> type \in Terminal
                         /\ Completed(r)' <=> type = "completed"
                         /\ Told(r)' = Told(r) \cup {type}
<1>1. events' \in [Run -> Seq(Event)]
  BY DEF Published
<1>2. \A q \in Run : q # r \/ Over(r) => events'[q] = events[q]
  BY DEF Published
<1>3. ~ Over(r) => events'[r] = Append(events[r], type)
  BY DEF Published
<1>4. events[r] \in Seq(Event)
  OBVIOUS
<1>5. \A q \in Run : q # r \/ Over(q) => events'[q] = events[q]
  BY <1>2
<1>6. \A q \in Run : q # r \/ Over(q) =>
        /\ Over(q)' <=> Over(q)
        /\ Completed(q)' <=> Completed(q)
        /\ Told(q)' = Told(q)
  BY <1>5 DEF Over, Completed, Told
<1>7. ASSUME ~ Over(r)
      PROVE  /\ events'[r] # <<>>
             /\ Over(r)' <=> type \in Terminal
             /\ Completed(r)' <=> type = "completed"
             /\ Told(r)' = Told(r) \cup {type}
             /\ Len(events'[r]) = Len(events[r]) + 1
  <2> DEFINE e == events[r]
  <2>1. events'[r] = Append(e, type) /\ e \in Seq(Event)
    BY <1>3, <1>4, <1>7
  <2>2. /\ Append(e, type) # <<>> /\ Len(Append(e, type)) = Len(e) + 1
        /\ Last(Append(e, type)) = type
        /\ \A n \in 1..Len(e) : Append(e, type)[n] = e[n]
        /\ DOMAIN e = 1..Len(e) /\ DOMAIN Append(e, type) = 1..(Len(e) + 1)
        /\ Append(e, type)[Len(e) + 1] = type
    BY <2>1 DEF Last
  <2>3. Told(r)' = Told(r) \cup {type}
    <3>1. Told(r)' = {Append(e, type)[n] : n \in 1..(Len(e) + 1)}
      BY <2>1, <2>2 DEF Told
    <3>2. Told(r) = {e[n] : n \in 1..Len(e)}
      BY <2>2 DEF Told
    <3>3. Len(e) \in Nat
      BY <2>1
    <3> HIDE DEF e
    <3> QED
      BY <3>1, <3>2, <3>3, <2>2
  <2> QED
    BY <2>1, <2>2, <2>3 DEF Over, Completed
<1>8. \A q \in Run : Len(events'[q]) >= Len(events[q])
  <2> SUFFICES ASSUME NEW q \in Run
               PROVE  Len(events'[q]) >= Len(events[q])
    OBVIOUS
  <2>1. Len(events[q]) \in Nat
    OBVIOUS
  <2> QED
    BY <2>1, <1>5, <1>7
<1>9. \A q \in Run : Over(q) => Over(q)' /\ events'[q] = events[q]
  <2> SUFFICES ASSUME NEW q \in Run, Over(q)
               PROVE  Over(q)' /\ events'[q] = events[q]
    OBVIOUS
  <2>1. events'[q] = events[q]
    BY <1>5
  <2>2. Over(q)'
    BY <2>1 DEF Over
  <2> QED
    BY <2>1, <2>2
<1>10. \A q \in Run : q # r => events'[q] = events[q]
  BY <1>5
<1>11. ~ Over(r) => /\ events'[r] # <<>>
                    /\ Over(r)' <=> type \in Terminal
                    /\ Completed(r)' <=> type = "completed"
                    /\ Told(r)' = Told(r) \cup {type}
  BY <1>7
<1> QED
  BY <1>1, <1>6, <1>8, <1>9, <1>10, <1>11

(* Taking the head of the agenda moves every other item by one.            *)
LEMMA TailItems ==
  ASSUME agenda \in Seq(ItemType), agenda # <<>>, agenda' = Tail(agenda)
  PROVE  /\ agenda' \in Seq(ItemType)
         /\ Len(agenda) \in Nat \ {0} /\ Len(agenda') = Len(agenda) - 1
         /\ 1 \in DOMAIN agenda /\ agenda[1] = Head(agenda) /\ agenda[1] \in ItemType
         /\ DOMAIN agenda' = 1..(Len(agenda) - 1)
         /\ \A i \in DOMAIN agenda' : i \in Nat \ {0} /\ i + 1 \in DOMAIN agenda
                                       /\ agenda'[i] = agenda[i + 1]
OBVIOUS

(* SetToSeq gives a sequence of the elements of a finite set.              *)
LEMMA SetToSeqIs ==
  ASSUME NEW S, IsFiniteSet(S)
  PROVE  SetToSeq(S) \in [1..Cardinality(S) -> S] /\ Cardinality(S) \in Nat
<1>1. Cardinality(S) \in Nat /\ ExistsBijection(1..Cardinality(S), S)
  BY FS_CardinalityType
<1>2. \E f \in [1..Cardinality(S) -> S] : IsInjective(f)
  BY <1>1 DEF ExistsBijection, Bijection, Injection, Surjection, IsInjective
<1> QED
  BY <1>1, <1>2 DEF SetToSeq

(* What is left to send after a cursor that has not expired.               *)
LEMMA AfterIs ==
  ASSUME TypeOK, NEW u \in Reader, ~ Expired(u), seen[u] <= Len(events[Watched[u]])
  PROVE  /\ After(u) \in Seq(Nat)
         /\ Len(After(u)) = Len(events[Watched[u]]) - seen[u]
         /\ \A i \in DOMAIN After(u) : After(u)[i] = seen[u] + i
<1>1. seen[u] \in Nat /\ Len(events[Watched[u]]) \in Nat
  BY ChatStreamAssumption DEF TypeOK
<1> DEFINE n == Len(events[Watched[u]]) - seen[u]
<1>2. n \in Nat
  BY <1>1
<1>3. After(u) = [i \in 1..n |-> seen[u] + i]
  <2>1. After(u) = [i \in 1..(Len(events[Watched[u]]) - (seen[u] + 1) + 1)
                      |-> (seen[u] + 1) + i - 1]
    BY DEF After
  <2>2. Len(events[Watched[u]]) - (seen[u] + 1) + 1 = n
    BY <1>1
  <2>3. \A i \in 1..n : (seen[u] + 1) + i - 1 = seen[u] + i
    BY <1>1, <1>2
  <2> QED
    BY <2>1, <2>2, <2>3
<1> HIDE DEF n
<1>4. \A i \in 1..n : seen[u] + i \in Nat
  BY <1>1, <1>2
<1>5. After(u) \in [1..n -> Nat]
  BY <1>3, <1>4
<1>6. After(u) \in Seq(Nat) /\ Len(After(u)) = n /\ DOMAIN After(u) = 1..n
  BY <1>2, <1>5, <1>3
<1> QED
  BY <1>3, <1>6 DEF n

-------------------------------------------------------------------------------
(* The two ways in which a run ends, whoever ends it: its task finds that  *)
(* it is over, ...                                                         *)
EndsRun(r, status, outcome, does, what) ==
  /\ Idle /\ task[r] \in {"reading", "cancelled"}
  /\ row[r] # "running" => status = row[r]
  /\ \/ /\ does = "commit" /\ row[r] = "running"
        /\ outcome = "succeeded" /\ status = "succeeded"
     \/ does = "tell" /\ what \in Terminal \ {"completed"}
  /\ Closed(r)
  /\ row' = [row EXCEPT ![r] = status]
  /\ agenda' = <<Todo("receipt", r, outcome), Todo(does, r, what)>>
  /\ UNCHANGED <<starts, service, receipt, sessions, known, events, said, task,
                 producer, readers>>

(* ... or a client or the shutdown cancels it.                             *)
Later(item) ==
  \/ item.does = "cancel" /\ row[item.run] # "none"
  \/ /\ item.does = "receipt" /\ item.what \in Outcome
     /\ row[item.run] \notin {"none", "running"}

Cancels(r, rest) ==
  /\ service \in {"open", "closing"} /\ row[r] # "none"
  /\ \A i \in DOMAIN rest : Later(rest[i])
  /\ \A q \in Run : ~ Doing("open", q) /\ (task[q] = "reading" => row[q] = "running")
  /\ Cancelling(r, rest)
  /\ UNCHANGED <<starts, service, receipt, sessions, known, said, task, threads, stop,
                 readers>>

(* A task's failure, timeout, interruption or end is the first of them.    *)
LEMMA EndCases ==
  ASSUME TypeOK, RunInv, ReadingInv, NEW r \in Run,
         ReceiveFailure(r) \/ TimeOut(r) \/ Interrupt(r) \/ ReceiveEnd(r)
  PROVE  \E status \in {"succeeded", "aborted", "failed"}, outcome \in Outcome,
            does \in {"commit", "tell"}, what \in Terminal \cup {"none"} :
           EndsRun(r, status, outcome, does, what)
<1>1. ASSUME NEW outcome \in Outcome, NEW type \in Terminal \ {"completed"},
             Idle, task[r] \in {"reading", "cancelled"}, Fail(r, outcome, type)
      PROVE  \E status \in {"succeeded", "aborted", "failed"} :
               EndsRun(r, status, outcome, "tell", type)
  <2> DEFINE status == IF row[r] # "running" THEN row[r]
                       ELSE IF said[r] # "nothing" \/ outcome = "cancelled"
                              THEN "aborted" ELSE "failed"
  <2>1. row[r] # "none" /\ row[r] \in {"none", "running", "succeeded", "aborted", "failed"}
    BY <1>1 DEF RunInv, TypeOK
  <2>2. status \in {"succeeded", "aborted", "failed"}
    BY <2>1
  <2>3. row' = [row EXCEPT ![r] = status]
    BY <1>1 DEF Fail, TypeOK
  <2>4. row[r] # "running" => status = row[r]
    OBVIOUS
  <2> HIDE DEF status
  <2>5. EndsRun(r, status, outcome, "tell", type)
    BY <1>1, <2>3, <2>4 DEF EndsRun, Fail
  <2> QED
    BY <2>2, <2>5
<1>2. Stopped(r) \in Terminal \ {"completed"}
  BY DEF Stopped, Terminal
<1>3. CASE ReceiveFailure(r)
  BY <1>1, <1>2, <1>3 DEF ReceiveFailure, Reads, Outcome
<1>4. CASE TimeOut(r)
  BY <1>1, <1>2, <1>4 DEF TimeOut, Reads, Outcome
<1>5. CASE Interrupt(r)
  BY <1>1, <1>5 DEF Interrupt, Outcome, Terminal
<1>6. CASE ReceiveEnd(r)
  <2>1. row[r] = "running"
    BY <1>6 DEF ReceiveEnd, Reads, Idle, ReadingInv
  <2>2. row' = [row EXCEPT ![r] = "succeeded"]
    BY <1>6, <2>1 DEF ReceiveEnd
  <2>3. EndsRun(r, "succeeded", "succeeded", "commit", "none")
    BY <1>6, <2>1, <2>2 DEF ReceiveEnd, Reads, EndsRun
  <2> QED
    BY <2>3 DEF Outcome
<1> QED
  BY <1>3, <1>4, <1>5, <1>6

(* A cancellation by a client or by the shutdown is the second.            *)
LEMMA CancelCases ==
  ASSUME TypeOK, RunInv, ReadingInv, AgendaInv, NEW r \in Run,
         Cancel(r) \/ ShutdownRun(r)
  PROVE  \E rest \in Seq(ItemType) : Cancels(r, rest)
<1>1. CASE Cancel(r)
  <2>1. \A q \in Run : ~ Doing("open", q) /\ (task[q] = "reading" => row[q] = "running")
    BY <1>1 DEF Cancel, Idle, ReadingInv, Doing
  <2>2. Cancels(r, <<>>)
    BY <1>1, <2>1 DEF Cancel, Idle, Cancels, RunInv
  <2>3. <<>> \in Seq(ItemType)
    OBVIOUS
  <2> QED
    BY <2>2, <2>3
<1>2. CASE ShutdownRun(r)
  <2> DEFINE rest == Tail(agenda)
  <2>1. agenda \in Seq(ItemType) /\ agenda # <<>> /\ Head(agenda).does = "cancel"
    BY <1>2 DEF ShutdownRun, Doing, TypeOK, ItemType, Does
  <2>2. /\ rest \in Seq(ItemType) /\ 1 \in DOMAIN agenda /\ agenda[1] = Head(agenda)
        /\ Len(agenda) \in Nat
        /\ \A i \in DOMAIN rest : i \in Nat \ {0} /\ i + 1 \in DOMAIN agenda
                                  /\ rest[i] = agenda[i + 1]
        /\ DOMAIN agenda = 1..Len(agenda)
    BY <2>1
  <2>3. agenda[1].does = "cancel" /\ agenda[1].run = r
    BY <1>2, <2>2 DEF ShutdownRun, Doing
  <2>4. ItemInv(1) /\ \A i \in DOMAIN rest : ItemInv(i + 1)
    BY <2>2 DEF AgendaInv
  <2>5. service \in {"open", "closing"} /\ row[r] # "none"
    BY <2>3, <2>4 DEF ItemInv
  <2>6. \A i \in DOMAIN agenda : agenda[i].does \notin Ending
    BY <2>2, <2>3 DEF AgendaInv, ItemInv, Ends, Ending
  <2>7. \A i \in DOMAIN rest : Later(rest[i])
    <3> SUFFICES ASSUME NEW i \in DOMAIN rest
                 PROVE  Later(rest[i])
      OBVIOUS
    <3>1. ItemInv(i + 1) /\ agenda[i + 1].does \notin Ending /\ rest[i] = agenda[i + 1]
          /\ i + 1 \in DOMAIN agenda /\ rest[i] \in ItemType
      BY <2>2, <2>4, <2>6
    <3>2. agenda[i + 1].does # "open"
      <4>1. i + 1 # 1 /\ (agenda[i + 1].does = "open" => Len(agenda) = 1)
        BY <2>2, <3>1 DEF ItemInv, Opens
      <4> QED
        BY <4>1, <3>1, <2>2
    <3>3. rest[i].does \in {"cancel", "receipt"}
      BY <3>1, <3>2 DEF ItemType, Does, Ending
    <3> QED
      BY <3>1, <3>3 DEF ItemInv, Later
  <2>8. \A q \in Run : ~ Doing("open", q) /\ (task[q] = "reading" => row[q] = "running")
    BY <2>1, <2>6 DEF Doing, ReadingInv
  <2> HIDE DEF rest
  <2>9. Cancels(r, rest)
    <3>1. Cancelling(r, rest)
      BY <1>2 DEF ShutdownRun, rest
    <3> QED
      BY <3>1, <1>2, <2>5, <2>7, <2>8 DEF ShutdownRun, Cancels
  <2> QED
    BY <2>2, <2>9
<1> QED
  BY <1>1, <1>2

-------------------------------------------------------------------------------
(* A step that changes nobody's hold of a session keeps BusyInv; ...       *)
LEMMA HoldStutter ==
  ASSUME BusyInv, UNCHANGED <<busy, syncing>>, \A q \in Run : Holds(q)' <=> Holds(q)
  PROVE  BusyInv'
BY DEF BusyInv

(* ... so does one by which a run takes a session that is free, ...        *)
LEMMA HoldTaken ==
  ASSUME BusyInv, NEW r \in Run, Of[r] \notin busy, Holds(r)',
         busy' = busy \cup {Of[r]}, syncing' = syncing,
         \A q \in Run : q # r => (Holds(q)' <=> Holds(q))
  PROVE  BusyInv'
BY ChatStreamAssumption DEF BusyInv

(* ... and one by which the run that has it gives it back.                 *)
LEMMA HoldReturned ==
  ASSUME BusyInv, NEW r \in Run, Holds(r), ~ Holds(r)',
         busy' = busy \ {Of[r]}, syncing' = syncing,
         \A q \in Run : q # r => (Holds(q)' <=> Holds(q))
  PROVE  BusyInv'
BY ChatStreamAssumption DEF BusyInv

(* Events that are only added, and none to a run that is over, leave the   *)
(* streams in order and the messages where they are.                       *)
LEMMA StreamsKept ==
  ASSUME TypeOK, ReaderInv, UNCHANGED readers,
         \A q \in Run : Len(events'[q]) \in Nat /\ Len(events'[q]) >= Len(events[q]),
         \A q \in Run : Over(q) => Over(q)' /\ events'[q] = events[q]
  PROVE  ReaderInv'
<1> SUFFICES ASSUME NEW u \in Reader
             PROVE  /\ \A i \in DOMAIN pend[u] : pend[u][i] = seen[u] + i
                    /\ seen[u] + Len(pend[u]) <= Len(events'[Watched[u]])
                    /\ mode[u] = "finished" => /\ Over(Watched[u])'
                                               /\ seen[u] = Len(events'[Watched[u]])
  BY DEF ReaderInv, readers
<1>1. Watched[u] \in Run /\ seen[u] \in Nat /\ Len(pend[u]) \in Nat
      /\ Len(events[Watched[u]]) \in Nat
  BY ChatStreamAssumption DEF TypeOK
<1>2. /\ \A i \in DOMAIN pend[u] : pend[u][i] = seen[u] + i
      /\ seen[u] + Len(pend[u]) <= Len(events[Watched[u]])
      /\ mode[u] = "finished" => /\ Over(Watched[u])
                                 /\ seen[u] = Len(events[Watched[u]])
  BY DEF ReaderInv
<1> QED
  BY <1>1, <1>2

(* A step that adds no message pair and only adds events keeps PairsInv.   *)
LEMMA PairsKept ==
  ASSUME PairsInv, pairs' = pairs, \A q \in Run : Completed(q) => Completed(q)'
  PROVE  PairsInv'
BY DEF PairsInv

(* A finite number of runs stays finite with one more.                     *)
LEMMA OneMoreRun ==
  ASSUME FiniteInv, NEW r \in Run,
         \A q \in Run : q # r /\ row'[q] # "none" => row[q] # "none"
  PROVE  FiniteInv'
<1>1. IsFiniteSet({q \in Run : row[q] # "none"} \cup {r})
  BY FS_AddElement DEF FiniteInv
<1>2. {q \in Run : row'[q] # "none"} \subseteq {q \in Run : row[q] # "none"} \cup {r}
  OBVIOUS
<1>3. IsFiniteSet({q \in Run : row'[q] # "none"})
  BY <1>1, <1>2, FS_Subset
<1> QED
  BY <1>3 DEF FiniteInv

(* A message pair that is added to a session.                              *)
LEMMA PairAdded ==
  ASSUME pairs \in [Session -> Seq(Run \cup {"sync"})], PairsInv,
         NEW s \in Session, NEW x \in Run \cup {"sync"},
         pairs' = [pairs EXCEPT ![s] = Append(@, x)],
         x \in Run => Completed(x)', \A q \in Run : Completed(q) => Completed(q)'
  PROVE  pairs' \in [Session -> Seq(Run \cup {"sync"})] /\ PairsInv'
<1>1. pairs' \in [Session -> Seq(Run \cup {"sync"})]
  OBVIOUS
<1> SUFFICES ASSUME NEW t \in Session, NEW n \in DOMAIN pairs'[t],
                    NEW q \in Run, q = pairs'[t][n]
             PROVE  Completed(q)'
  BY <1>1 DEF PairsInv
<1>2. CASE t # s
  BY <1>2 DEF PairsInv
<1>3. CASE t = s
  <2>1. pairs'[t] = Append(pairs[s], x) /\ pairs[s] \in Seq(Run \cup {"sync"})
    BY <1>3
  <2>2. n \in 1..Len(pairs[s]) \/ n = Len(pairs[s]) + 1
    BY <2>1
  <2>3. CASE n \in 1..Len(pairs[s])
    BY <2>1, <2>3, <1>3 DEF PairsInv
  <2>4. CASE n = Len(pairs[s]) + 1
    <3>1. pairs'[t][n] = x
      BY <2>1, <2>4
    <3> QED
      BY <3>1
  <2> QED
    BY <2>2, <2>3, <2>4
<1> QED
  BY <1>2, <1>3

(* The agenda that a cancellation leaves.                                  *)
LEMMA CancelItems ==
  ASSUME NEW r \in Run, NEW rest \in Seq(ItemType), Cancels(r, rest),
         NEW n, n = IF row[r] = "running" THEN 1 ELSE 0
  PROVE  /\ agenda' \in Seq(ItemType)
         /\ n + 1 \in DOMAIN agenda' /\ agenda'[n + 1] = Todo("stop", r, "none")
         /\ n = 1 => 1 \in DOMAIN agenda' /\ agenda'[1] = Todo("receipt", r, "cancelled")
         /\ \A i \in DOMAIN agenda' : i \in 1..(n + 1) \/ Later(agenda'[i])
         /\ agenda' # <<>> /\ Head(agenda') = agenda'[1]
<1> DEFINE stopped == Todo("stop", r, "none")
           told == Todo("receipt", r, "cancelled")
<1>1. stopped \in ItemType /\ told \in ItemType
  BY DEF Todo, ItemType, Does, Outcome
<1>2. \A i \in DOMAIN rest : Later(rest[i])
  BY DEF Cancels
<1> HIDE DEF stopped, told
<1>3. CASE row[r] = "running"
  <2>a. agenda' = (<<told>> \o <<stopped>>) \o rest
    BY <1>3 DEF Cancels, Cancelling, stopped, told
  <2>b. /\ <<told>> \o <<stopped>> \in Seq(ItemType) /\ Len(<<told>> \o <<stopped>>) = 2
        /\ (<<told>> \o <<stopped>>)[1] = told /\ (<<told>> \o <<stopped>>)[2] = stopped
    BY <1>1
  <2>c. PICK f \in Seq(ItemType) : f = <<told>> \o <<stopped>>
    BY <2>b
  <2>d. agenda' = f \o rest
    BY <2>a, <2>c
  <2>e. Len(f) = 2 /\ f[1] = told /\ f[2] = stopped
    BY <2>b, <2>c
  <2>2. /\ agenda' \in Seq(ItemType) /\ Len(agenda') = Len(rest) + 2 /\ Len(rest) \in Nat
        /\ agenda'[1] = told /\ agenda'[2] = stopped
        /\ \A i \in 3..(Len(rest) + 2) : agenda'[i] = rest[i - 2]
        /\ DOMAIN agenda' = 1..(Len(rest) + 2) /\ DOMAIN rest = 1..Len(rest)
    <3>1. /\ agenda' \in Seq(ItemType) /\ Len(agenda') = Len(f) + Len(rest)
          /\ Len(rest) \in Nat
          /\ DOMAIN agenda' = 1..(Len(f) + Len(rest)) /\ DOMAIN rest = 1..Len(rest)
          /\ \A i \in 1..(Len(f) + Len(rest)) :
               agenda'[i] = IF i <= Len(f) THEN f[i] ELSE rest[i - Len(f)]
      BY <2>d
    <3> QED
      BY <3>1, <2>e
  <2>3. \A i \in DOMAIN agenda' : i \in 1..2 \/ Later(agenda'[i])
    <3> SUFFICES ASSUME NEW i \in DOMAIN agenda', i \notin 1..2
                 PROVE  Later(agenda'[i])
      OBVIOUS
    <3>1. i \in 3..(Len(rest) + 2) /\ i - 2 \in DOMAIN rest
      BY <2>2
    <3> QED
      BY <3>1, <2>2, <1>2
  <2>4. agenda' # <<>> /\ Head(agenda') = agenda'[1] /\ 1 \in DOMAIN agenda'
        /\ 2 \in DOMAIN agenda'
    BY <2>2
  <2> QED
    BY <1>3, <2>2, <2>3, <2>4 DEF stopped, told
<1>4. CASE row[r] # "running"
  <2>1. agenda' = <<stopped>> \o rest
    <3>1. agenda' = (<<>> \o <<stopped>>) \o rest
      BY <1>4 DEF Cancels, Cancelling, stopped
    <3>2. <<>> \o <<stopped>> = <<stopped>>
      OBVIOUS
    <3> QED
      BY <3>1, <3>2
  <2>2. /\ agenda' \in Seq(ItemType) /\ Len(agenda') = Len(rest) + 1 /\ Len(rest) \in Nat
        /\ agenda'[1] = stopped
        /\ \A i \in 2..(Len(rest) + 1) : agenda'[i] = rest[i - 1]
        /\ DOMAIN agenda' = 1..(Len(rest) + 1) /\ DOMAIN rest = 1..Len(rest)
    BY <1>1, <2>1
  <2>3. \A i \in DOMAIN agenda' : i \in 1..1 \/ Later(agenda'[i])
    <3> SUFFICES ASSUME NEW i \in DOMAIN agenda', i \notin 1..1
                 PROVE  Later(agenda'[i])
      OBVIOUS
    <3>1. i \in 2..(Len(rest) + 1) /\ i - 1 \in DOMAIN rest
      BY <2>2
    <3> QED
      BY <3>1, <2>2, <1>2
  <2>4. agenda' # <<>> /\ Head(agenda') = agenda'[1] /\ 1 \in DOMAIN agenda'
    BY <2>2
  <2> QED
    BY <1>4, <2>2, <2>3, <2>4 DEF stopped
<1> QED
  BY <1>3, <1>4

(* The agenda that names the runs of a finite set, one by one.             *)
LEMMA ListedItems ==
  ASSUME NEW S \in SUBSET Run, IsFiniteSet(S),
         NEW does \in Does, NEW what \in Outcome \cup {"none"},
         agenda' = [i \in 1..Len(SetToSeq(S)) |-> Todo(does, SetToSeq(S)[i], what)]
  PROVE  /\ agenda' \in Seq(ItemType)
         /\ \A i \in DOMAIN agenda' : /\ agenda'[i].does = does /\ agenda'[i].run \in S
                                      /\ agenda'[i].what = what
         /\ agenda' # <<>> => 1 \in DOMAIN agenda' /\ Head(agenda') = agenda'[1]
<1> DEFINE q == SetToSeq(S)
           n == Len(q)
<1>1. q \in [1..Cardinality(S) -> S] /\ Cardinality(S) \in Nat
  BY SetToSeqIs
<1> HIDE DEF q
<1>2. q \in Seq(S)
  BY <1>1
<1>3. n \in Nat /\ \A i \in 1..n : q[i] \in S
  BY <1>2
<1> HIDE DEF n
<1>4. agenda' = [i \in 1..n |-> Todo(does, q[i], what)]
  BY DEF q, n
<1>5. \A i \in 1..n : Todo(does, q[i], what) \in ItemType
  BY <1>3 DEF Todo, ItemType
<1>6. agenda' \in [1..n -> ItemType]
  BY <1>4, <1>5
<1>7. agenda' \in Seq(ItemType) /\ DOMAIN agenda' = 1..n
  BY <1>3, <1>6
<1>8. \A i \in DOMAIN agenda' : /\ agenda'[i].does = does /\ agenda'[i].run \in S
                                /\ agenda'[i].what = what
  BY <1>3, <1>4, <1>7 DEF Todo
<1>9. agenda' # <<>> => 1 \in DOMAIN agenda' /\ Head(agenda') = agenda'[1]
  BY <1>7
<1> QED
  BY <1>7, <1>8, <1>9

(* What is left to send when one event of it has been sent.                *)
LEMMA TailOfNumbers ==
  ASSUME NEW p \in Seq(Nat), p # <<>>, NEW n \in Nat, \A i \in DOMAIN p : p[i] = n + i
  PROVE  /\ Head(p) = n + 1 /\ Head(p) \in Nat
         /\ Tail(p) \in Seq(Nat) /\ Len(Tail(p)) = Len(p) - 1 /\ Len(p) \in Nat
         /\ \A i \in DOMAIN Tail(p) : Tail(p)[i] = (n + 1) + i
<1>1. 1 \in DOMAIN p /\ Head(p) = p[1]
  OBVIOUS
<1>2. Tail(p) \in Seq(Nat) /\ Len(Tail(p)) = Len(p) - 1 /\ Len(p) \in Nat
  OBVIOUS
<1>3. \A i \in DOMAIN Tail(p) : i \in Nat /\ i + 1 \in DOMAIN p /\ Tail(p)[i] = p[i + 1]
  OBVIOUS
<1>4. \A i \in Nat : n + (i + 1) = (n + 1) + i
  OBVIOUS
<1>5. \A i \in DOMAIN Tail(p) : Tail(p)[i] = (n + 1) + i
  BY <1>3, <1>4, Zenon
<1>6. Head(p) = n + 1
  BY <1>1
<1> QED
  BY <1>2, <1>5, <1>6

-------------------------------------------------------------------------------
(* Every step keeps the invariant.                                         *)
LEMMA ChatStep == ChatInv /\ [Next]_vars => ChatInv'
<1> SUFFICES ASSUME TypeOK, AgendaInv, ReadingInv, RunInv, CompletedInv,
                   PairsInv, BusyInv, ReaderInv, FiniteInv,
                  [Next]_vars
             PROVE ChatInv'
  BY DEF ChatInv
<1> USE ChatStreamAssumption, NoSync DEF durable, sessions, threads, readers
<1>1. ASSUME NEW s \in Session, OpenSession(s) PROVE ChatInv'
  <2>1. AgendaInv' /\ ReadingInv' /\ RunInv' /\ CompletedInv' /\ PairsInv' /\
       BusyInv' /\ ReaderInv' /\ FiniteInv'
    BY <1>1 DEF OpenSession, AgendaInv, ItemInv, Opens, Ends, Finishes,
       Commits, Told, Ending, ReadingInv, RunInv, Over, CompletedInv,
       Completed, PairsInv, BusyInv, Holds, Doing, ReaderInv, FiniteInv
  <2>2. TypeOK'
    BY <1>1 DEF OpenSession, TypeOK, ItemType, Does
  <2> QED
    BY <2>1, <2>2 DEF ChatInv
<1>2. ASSUME NEW s \in Session, TeardownSession(s) PROVE ChatInv'
  <2>1. AgendaInv' /\ ReadingInv' /\ RunInv' /\ CompletedInv' /\ BusyInv' /\
       ReaderInv' /\ FiniteInv'
    BY <1>2 DEF TeardownSession, AgendaInv, ItemInv, Opens, Ends, Finishes,
       Commits, Told, Ending, ReadingInv, RunInv, Over, CompletedInv,
       Completed, BusyInv, Holds, Doing, ReaderInv, FiniteInv
  <2>2. TypeOK'
    BY <1>2 DEF TeardownSession, TypeOK, ItemType, Does
  <2>3. PairsInv'
    BY <1>2 DEF TeardownSession, TypeOK, ItemType, Does, PairsInv, Completed
  <2> QED
    BY <2>1, <2>2, <2>3 DEF ChatInv
<1>3. ASSUME NEW s \in Session, BeginSync(s) PROVE ChatInv'
  <2>1. AgendaInv' /\ ReadingInv' /\ RunInv' /\ CompletedInv' /\ PairsInv' /\
       ReaderInv' /\ FiniteInv'
    BY <1>3 DEF BeginSync, Reservable, AgendaInv, ItemInv, Opens, Ends,
       Finishes, Commits, Told, Ending, ReadingInv, RunInv, Over, CompletedInv,
       Completed, PairsInv, ReaderInv, FiniteInv
  <2>2. TypeOK'
    BY <1>3 DEF BeginSync, Reservable, TypeOK, ItemType, Does
  <2>3. BusyInv'
    <3>1. \A q \in Run : Holds(q)' <=> Holds(q)
      BY <1>3 DEF BeginSync, Holds, Doing
    <3>2. /\ busy' = busy \cup {s} /\ syncing' = syncing \cup {s}
          /\ s \notin busy
      BY <1>3 DEF BeginSync, Reservable
    <3> QED
      BY <3>1, <3>2 DEF BusyInv
  <2> QED
    BY <2>1, <2>2, <2>3 DEF ChatInv
<1>4. ASSUME NEW s \in Session, EndSync(s) PROVE ChatInv'
  <2>a. \/ pairs' = pairs
        \/ pairs' = [pairs EXCEPT ![s] = Append(@, "sync")]
    BY <1>4 DEF EndSync
  <2>e. \A q \in Run : /\ Over(q)' <=> Over(q)
                       /\ Completed(q)' <=> Completed(q)
                       /\ Told(q)' = Told(q)
    BY <1>4 DEF EndSync, Over, Completed, Told
  <2>b. pairs' \in [Session -> Seq(Run \cup {"sync"})] /\ PairsInv'
    <3>1. CASE pairs' = pairs
      BY <3>1, <2>e, PairsKept DEF TypeOK
    <3>2. CASE pairs' = [pairs EXCEPT ![s] = Append(@, "sync")]
      BY <3>2, <2>e, PairAdded, NoSync DEF TypeOK
    <3> QED
      BY <2>a, <3>1, <3>2
  <2>1. AgendaInv' /\ ReadingInv' /\ RunInv' /\ CompletedInv' /\ ReaderInv' /\
       FiniteInv'
    BY <1>4, <2>b DEF EndSync, AgendaInv, ItemInv, Opens, Ends, Finishes,
       Commits, Told, Ending, ReadingInv, RunInv, Over, CompletedInv,
       Completed, ReaderInv, FiniteInv
  <2>2. TypeOK'
    BY <1>4, <2>b DEF EndSync, TypeOK
  <2>3. PairsInv'
    BY <2>b
  <2>4. BusyInv'
    <3>1. \A q \in Run : Holds(q)' <=> Holds(q)
      BY <1>4 DEF EndSync, Holds, Doing
    <3>2. busy' = busy \ {s} /\ syncing' = syncing \ {s} /\ s \in syncing
      BY <1>4 DEF EndSync
    <3> QED
      BY <3>1, <3>2 DEF BusyInv
  <2> QED
    BY <2>1, <2>2, <2>3, <2>4 DEF ChatInv
<1>5. ASSUME NEW r \in Run, Refuse(r) PROVE ChatInv'
  <2>1. AgendaInv' /\ ReadingInv' /\ CompletedInv' /\ PairsInv' /\ BusyInv' /\
       ReaderInv' /\ FiniteInv'
    BY <1>5 DEF Refuse, Evict, Idle, AgendaInv, ItemInv, Opens, Ends, Finishes,
       Commits, Told, Ending, ReadingInv, CompletedInv, Completed, PairsInv,
       BusyInv, Holds, Doing, ReaderInv, Over, FiniteInv
  <2>2. TypeOK'
    BY <1>5 DEF Refuse, Evict, Idle, TypeOK, ItemType, Does
  <2>3. RunInv'
    BY <1>5 DEF Refuse, Evict, Idle, TypeOK, ItemType, Does, RunInv, Told, Over
  <2> QED
    BY <2>1, <2>2, <2>3 DEF ChatInv
<1>6. ASSUME NEW r \in Run, Begin(r) PROVE ChatInv'
  <2>a. /\ agenda = <<>> /\ service = "open"
        /\ agenda' \in Seq(ItemType) /\ Len(agenda') = 1 /\ DOMAIN agenda' = {1}
        /\ agenda'[1].does = "open" /\ agenda'[1].run = r /\ Head(agenda') = agenda'[1]
    BY <1>6 DEF Begin, Idle, Todo, ItemType, Does
  <2>b. row[r] = "none" /\ task[r] = "none"
    BY <1>6 DEF Begin, RunInv
  <2>c. known' \subseteq known /\ \A q \in known \ known' : Over(q)
    BY <1>6 DEF Begin, Evict
  <2>e. \A q \in Run : /\ Over(q)' <=> Over(q)
                       /\ Completed(q)' <=> Completed(q)
                       /\ Told(q)' = Told(q)
    BY <1>6 DEF Begin, Over, Completed, Told
  <2>1. ReaderInv' /\ FiniteInv'
    BY <1>6, <2>a, <2>b, <2>c, <2>e DEF Begin, Evict, Idle, Reservable, Todo,
       ReaderInv, Over, FiniteInv
  <2>2. TypeOK'
    BY <1>6, <2>a, <2>c, SMTT(60) DEF Begin, TypeOK, ItemType, Does
  <2>3. AgendaInv'
    BY <1>6, <2>a, <2>b DEF Begin, TypeOK, AgendaInv, ItemInv, Opens, Ending
  <2>4. ReadingInv'
    BY <1>6, <2>a DEF Begin, ReadingInv
  <2>5. RunInv'
    BY <1>6, <2>a, <2>b, <2>c, <2>e, SMTT(60) DEF Begin, TypeOK, RunInv
  <2>6. CompletedInv'
    BY <1>6, <2>b, <2>e DEF Begin, TypeOK, CompletedInv
  <2>7. PairsInv'
    BY <1>6, <2>e, PairsKept DEF Begin
  <2>8. BusyInv'
    <3>1. Holds(r)' /\ \A q \in Run : q # r => (Holds(q)' <=> Holds(q))
      BY <1>6, <2>a DEF Begin, Holds, Doing
    <3> QED
      BY <1>6, <3>1, HoldTaken DEF Begin, Reservable
  <2> QED
    BY <2>1, <2>2, <2>3, <2>4, <2>5, <2>6, <2>7, <2>8 DEF ChatInv
<1>7. ASSUME NEW r \in Run, Open(r) PROVE ChatInv'
  <2>a. /\ agenda' \in Seq(ItemType) /\ agenda \in Seq(ItemType)
        /\ Len(agenda) \in Nat \ {0} /\ Len(agenda') = Len(agenda) - 1
        /\ 1 \in DOMAIN agenda /\ agenda[1] = Head(agenda) /\ agenda[1] \in ItemType
        /\ DOMAIN agenda' = 1..(Len(agenda) - 1)
        /\ \A i \in DOMAIN agenda' : /\ i \in Nat \ {0} /\ i + 1 \in DOMAIN agenda
                                     /\ agenda'[i] = agenda[i + 1]
    <3>1. agenda \in Seq(ItemType) /\ agenda # <<>> /\ agenda' = Tail(agenda)
      BY <1>7 DEF Open, Doing, Done, TypeOK, ItemType, Does
    <3> QED
      BY <3>1, TailItems
  <2>b. agenda[1].does = "open" /\ agenda[1].run = r /\ ItemInv(1)
    BY <1>7, <2>a DEF Open, Doing, AgendaInv
  <2>c. \A i \in DOMAIN agenda' : i + 1 # 1 /\ ItemInv(i + 1)
    BY <2>a DEF AgendaInv
  <2>d. /\ row[r] = "none" /\ receipt[r] = "pending" /\ task[r] = "none" /\ events[r] = <<>>
        /\ agenda' = <<>> /\ service \in {"open", "closing"}
    BY <2>a, <2>b DEF ItemInv, Opens, RunInv
  <2>e. /\ events' \in [Run -> Seq(Event)]
        /\ \A q \in Run : q # r => events'[q] = events[q]
        /\ \A q \in Run : Len(events'[q]) >= Len(events[q])
        /\ \A q \in Run : Over(q) => Over(q)' /\ events'[q] = events[q]
        /\ \A q \in Run : q # r \/ Over(q) =>
             /\ Over(q)' <=> Over(q)
             /\ Completed(q)' <=> Completed(q)
             /\ Told(q)' = Told(q)
        /\ ~ Over(r) => /\ events'[r] # <<>>
                        /\ Over(r)' <=> "active" \in Terminal
                        /\ Completed(r)' <=> "active" = "completed"
                        /\ Told(r)' = Told(r) \cup {"active"}
    BY <1>7, PublishedEffect DEF Open, TypeOK, Event
  <2>f. ~ Over(r) /\ Told(r) = {}
    BY <2>d DEF Over, Told
  <2>g. \A q \in Run : IF q = r THEN row'[q] = "running" /\ task'[q] = "reading"
                                ELSE row'[q] = row[q] /\ task'[q] = task[q]
    BY <1>7 DEF Open, TypeOK
  <2>h. known' = known \cup {r} /\ UNCHANGED <<starts, service, receipt, sessions, said,
                                               chan, stop, readers>>
    BY <1>7 DEF Open
  <2>1. TypeOK'
    <3>1. row' \in [Run -> {"none", "running", "succeeded", "aborted", "failed"}]
      BY <1>7 DEF Open, TypeOK
    <3>2. task' \in [Run -> {"none", "reading", "cancelled", "done"}]
      BY <1>7 DEF Open, TypeOK
    <3>3. producer' \in [Run -> Item \cup {"none", "running", "gone"}]
      BY <1>7 DEF Open, TypeOK
    <3> QED
      BY <2>d, <2>e, <2>h, <3>1, <3>2, <3>3, SMTT(60) DEF TypeOK, Event
  <2>2. AgendaInv'
    BY <2>d DEF AgendaInv
  <2>3. ReadingInv'
    <3>1. \A q \in Run : q # r /\ task[q] = "reading" => row[q] = "running"
      BY <2>a, <2>b, <2>d DEF ReadingInv, Ending
    <3> QED
      BY <2>g, <3>1 DEF ReadingInv
  <2>4. RunInv'
    <3> SUFFICES ASSUME NEW q \in Run
                 PROVE  /\ row'[q] # "none" => receipt[q] # "none"
                        /\ row'[q] = "none" => /\ task'[q] = "none" /\ events'[q] = <<>>
                                               /\ q \notin known'
                        /\ row'[q] = "running" => /\ receipt[q] = "pending"
                                                  /\ "cancelling" \notin Told(q)'
                        /\ row'[q] = "running" /\ service # "down"
                             => q \in known' /\ task'[q] = "reading"
                        /\ task'[q] \in {"reading", "cancelled"} => ~ Over(q)'
                        /\ service \in {"down", "starting"} => task'[q] = "none"
      BY <2>h DEF RunInv
    <3>1. CASE q = r
      <4>1. ~ Over(q)' /\ "cancelling" \notin Told(q)'
        BY <2>e, <2>f, <3>1 DEF Terminal
      <4> QED
        BY <2>d, <2>g, <2>h, <3>1, <4>1
    <3>2. CASE q # r
      BY <2>d, <2>e, <2>g, <2>h, <3>2, ZenonT(120) DEF RunInv
    <3> QED
      BY <3>1, <3>2
  <2>5. CompletedInv'
    BY <2>d, <2>e, <2>f, <2>g, <2>h DEF CompletedInv
  <2>6. PairsInv'
    BY <2>e, <2>f, <2>h, <2>d, PairsKept DEF Completed
  <2>7. BusyInv'
    <3>1. \A q \in Run : Holds(q)' <=> Holds(q)
      BY <2>a, <2>b, <2>d, <2>g DEF Holds, Doing
    <3> QED
      BY <2>h, <3>1, HoldStutter
  <2>8. ReaderInv'
    <3>1. \A q \in Run : Len(events'[q]) \in Nat
      BY <2>e
    <3> QED
      BY <1>7, <2>e, <3>1, StreamsKept DEF Open
  <2>9. FiniteInv'
    BY <2>g, OneMoreRun
  <2> QED
    BY <2>1, <2>2, <2>3, <2>4, <2>5, <2>6, <2>7, <2>8, <2>9 DEF ChatInv
<1>8. ASSUME NEW r \in Run, Produce(r) PROVE ChatInv'
  <2>1. AgendaInv' /\ ReadingInv' /\ RunInv' /\ CompletedInv' /\ PairsInv' /\
       BusyInv' /\ ReaderInv' /\ FiniteInv'
    BY <1>8 DEF Produce, AgendaInv, ItemInv, Opens, Ends, Finishes, Commits,
       Told, Ending, ReadingInv, RunInv, Over, CompletedInv, Completed,
       PairsInv, BusyInv, Holds, Doing, ReaderInv, FiniteInv
  <2>2. TypeOK'
    <3>1. producer' \in [Run -> Item \cup {"none", "running", "gone"}]
      BY <1>8 DEF Produce, TypeOK
    <3>2. UNCHANGED <<starts, service, agenda, durable, sessions, known, events, said, task,
                      chan, stop, readers>>
      BY <1>8 DEF Produce
    <3> QED
      BY <3>1, <3>2 DEF TypeOK
  <2> QED
    BY <2>1, <2>2 DEF ChatInv
<1>9. ASSUME NEW r \in Run, Put(r) PROVE ChatInv'
  <2>1. AgendaInv' /\ ReadingInv' /\ RunInv' /\ CompletedInv' /\ PairsInv' /\
       BusyInv' /\ ReaderInv' /\ FiniteInv'
    BY <1>9 DEF Put, Idle, AgendaInv, ItemInv, Opens, Ends, Finishes, Commits,
       Told, Ending, ReadingInv, RunInv, Over, CompletedInv, Completed,
       PairsInv, BusyInv, Holds, Doing, ReaderInv, FiniteInv
  <2>2. TypeOK'
    <3>1. producer' \in [Run -> Item \cup {"none", "running", "gone"}]
      BY <1>9 DEF Put, TypeOK
    <3>2. PICK c \in Seq(Item) : c = chan[r] /\ Len(c) < QueueSize
      BY <1>9 DEF Put, TypeOK
    <3>3. Append(c, producer[r]) \in Seq(Item) /\ Len(Append(c, producer[r])) <= QueueSize
      BY <1>9, <3>2 DEF Put
    <3>4. chan' \in [Run -> Seq(Item)] /\ \A q \in Run : Len(chan'[q]) <= QueueSize
      <4>1. chan' = [chan EXCEPT ![r] = Append(c, producer[r])]
        BY <1>9, <3>2 DEF Put
      <4> QED
        BY <3>3, <4>1 DEF TypeOK
    <3>5. UNCHANGED <<starts, service, agenda, durable, sessions, known, events, said, task,
                      stop, readers>>
      BY <1>9 DEF Put
    <3> QED
      BY <3>1, <3>4, <3>5 DEF TypeOK
  <2> QED
    BY <2>1, <2>2 DEF ChatInv
<1>10. ASSUME NEW r \in Run, GiveUp(r) PROVE ChatInv'
  <2>1. AgendaInv' /\ ReadingInv' /\ RunInv' /\ CompletedInv' /\ PairsInv' /\
       BusyInv' /\ ReaderInv' /\ FiniteInv'
    BY <1>10 DEF GiveUp, AgendaInv, ItemInv, Opens, Ends, Finishes, Commits,
       Told, Ending, ReadingInv, RunInv, Over, CompletedInv, Completed,
       PairsInv, BusyInv, Holds, Doing, ReaderInv, FiniteInv
  <2>2. TypeOK'
    BY <1>10 DEF GiveUp, TypeOK, ItemType, Does
  <2> QED
    BY <2>1, <2>2 DEF ChatInv
<1>11. ASSUME NEW r \in Run, ReceiveChunk(r) PROVE ChatInv'
  <2>e. /\ events' \in [Run -> Seq(Event)]
        /\ \A q \in Run : q # r => events'[q] = events[q]
        /\ \A q \in Run : Len(events'[q]) >= Len(events[q])
        /\ \A q \in Run : Over(q) => Over(q)' /\ events'[q] = events[q]
        /\ \A q \in Run : q # r \/ Over(q) =>
             /\ Over(q)' <=> Over(q)
             /\ Completed(q)' <=> Completed(q)
             /\ Told(q)' = Told(q)
        /\ ~ Over(r) => /\ events'[r] # <<>>
                        /\ Over(r)' <=> "delta" \in Terminal
                        /\ Completed(r)' <=> "delta" = "completed"
                        /\ Told(r)' = Told(r) \cup {"delta"}
    BY <1>11, PublishedEffect DEF ReceiveChunk, TypeOK, Event
  <2>f. task[r] = "reading" /\ ~ Over(r) /\ agenda = <<>>
        /\ service \in {"open", "closing"} /\ row[r] = "running"
    BY <1>11 DEF ReceiveChunk, Reads, Idle, RunInv, ReadingInv
  <2>h. UNCHANGED <<starts, service, agenda, durable, sessions, known, task, producer,
                    stop, readers>>
    BY <1>11 DEF ReceiveChunk
  <2>1. ReadingInv' /\ BusyInv' /\ FiniteInv'
    BY <1>11, <2>e, <2>f, <2>h DEF ReceiveChunk, Reads, Idle, ReadingInv,
       Ending, BusyInv, Holds, Doing, FiniteInv
  <2>2. TypeOK'
    <3>1. said' \in [Run -> {"nothing", "blank", "text"}]
      BY <1>11 DEF ReceiveChunk, Chunk, TypeOK
    <3>2. PICK c \in Seq(Item) : c = chan[r] /\ c # <<>> /\ Len(c) <= QueueSize
      BY <1>11 DEF ReceiveChunk, TypeOK
    <3>3. Tail(c) \in Seq(Item) /\ Len(Tail(c)) <= QueueSize
      BY <3>2
    <3>4. chan \in [Run -> Seq(Item)] /\ chan' = [chan EXCEPT ![r] = Tail(c)]
      BY <1>11, <3>2 DEF ReceiveChunk, TypeOK
    <3>5. chan' \in [Run -> Seq(Item)] /\ \A q \in Run : Len(chan'[q]) <= QueueSize
      BY <3>3, <3>4 DEF TypeOK
    <3> QED
      BY <2>e, <2>h, <3>1, <3>5 DEF TypeOK, Event
  <2>3. AgendaInv'
    BY <2>f, <2>h DEF AgendaInv
  <2>4. RunInv'
    BY <2>e, <2>f, <2>h DEF RunInv, Terminal
  <2>5. CompletedInv'
    BY <2>e, <2>f, <2>h DEF CompletedInv
  <2>6. PairsInv'
    BY <2>e, <2>f, <2>h, PairsKept DEF Completed, Over, Terminal
  <2>7. ReaderInv'
    <3>1. \A q \in Run : Len(events'[q]) \in Nat
      BY <2>e
    <3> QED
      BY <1>11, <2>e, <3>1, StreamsKept DEF ReceiveChunk
  <2> QED
    BY <2>1, <2>2, <2>3, <2>4, <2>5, <2>6, <2>7 DEF ChatInv
<1>12. ASSUME NEW r \in Run, NEW status \in {"succeeded", "aborted", "failed"},
              NEW outcome \in Outcome, NEW does \in {"commit", "tell"},
              NEW what \in Terminal \cup {"none"}, EndsRun(r, status, outcome, does, what)
       PROVE  ChatInv'
  <2>a. /\ agenda = <<>> /\ service \in {"open", "closing"}
        /\ agenda' \in Seq(ItemType) /\ Len(agenda') = 2 /\ DOMAIN agenda' = {1, 2}
        /\ agenda'[1].does = "receipt" /\ agenda'[1].run = r /\ agenda'[1].what = outcome
        /\ agenda'[2].does = does /\ agenda'[2].run = r /\ agenda'[2].what = what
        /\ Head(agenda') = agenda'[1]
    BY <1>12 DEF EndsRun, Idle, Todo, ItemType, Does
  <2>b. /\ row[r] # "none" /\ row[r] # "running" => status = row[r]
        /\ task[r] \in {"reading", "cancelled"} /\ ~ Over(r)
    BY <1>12 DEF EndsRun, RunInv
  <2>c. \A q \in Run : row'[q] = IF q = r THEN status ELSE row[q]
    BY <1>12 DEF EndsRun, TypeOK
  <2>d. \/ does = "tell" /\ what \in Terminal \ {"completed"}
        \/ /\ does = "commit" /\ row[r] = "running"
           /\ outcome = "succeeded" /\ status = "succeeded"
    BY <1>12 DEF EndsRun
  <2>e. \A q \in Run : /\ Over(q)' <=> Over(q)
                       /\ Completed(q)' <=> Completed(q)
                       /\ Told(q)' = Told(q)
    BY <1>12 DEF EndsRun, Over, Completed, Told
  <2>h. UNCHANGED <<starts, service, receipt, sessions, known, events, said, task,
                    producer, readers>>
    BY <1>12 DEF EndsRun
  <2>1. ReaderInv'
    BY <1>12, <2>a, <2>b, <2>c, <2>d, <2>e, <2>h DEF EndsRun, Idle, Closed,
       Todo, ReaderInv, Over
  <2>2. TypeOK'
    BY <1>12, <2>a, SMTT(60) DEF EndsRun, Closed, TypeOK, ItemType, Does
  <2>3. AgendaInv'
    <3>1. ItemInv(1)'
      BY <2>a, <2>c, <2>h DEF ItemInv, Ending
    <3>2. row[r] = "running" => receipt[r] = "pending" /\ "cancelling" \notin Told(r)
      BY DEF RunInv
    <3>3. ItemInv(2)'
      <4>1. Ends(2)'
        BY <2>a, <2>c DEF Ends
      <4>2. Finishes(2)'
        BY <2>a, <2>b, <2>h DEF Finishes
      <4>3. does = "commit" => Commits(2)'
        BY <2>a, <2>c, <2>d, <2>e, <2>h, <3>2 DEF Commits
      <4> QED
        BY <2>a, <2>d, <2>h, <4>1, <4>2, <4>3 DEF ItemInv, Ending
    <3> QED
      BY <2>a, <3>1, <3>3 DEF AgendaInv
  <2>4. ReadingInv'
    <3> SUFFICES ASSUME NEW q \in Run, (task[q] = "reading" /\ row[q] # "running")'
                 PROVE  \E i \in DOMAIN agenda' :
                          agenda'[i].run = q /\ agenda'[i].does \in Ending
      BY DEF ReadingInv
    <3>1. q = r
      BY <2>a, <2>c, <2>h DEF ReadingInv
    <3> QED
      BY <2>a, <3>1 DEF Ending
  <2>5. RunInv'
    BY <2>a, <2>b, <2>c, <2>e, <2>h DEF RunInv
  <2>6. CompletedInv'
    BY <2>b, <2>c, <2>e, <2>h DEF CompletedInv, Completed, Over, Terminal
  <2>7. PairsInv'
    BY <2>e, <2>h, PairsKept
  <2>8. BusyInv'
    <3>1. \A q \in Run : Holds(q)' <=> Holds(q)
      BY <2>a, <2>h DEF Holds, Doing
    <3> QED
      BY <2>h, <3>1, HoldStutter
  <2>9. FiniteInv'
    BY <2>b, <2>c, OneMoreRun
  <2> QED
    BY <2>1, <2>2, <2>3, <2>4, <2>5, <2>6, <2>7, <2>8, <2>9 DEF ChatInv
<1>13. ASSUME NEW r \in Run, FinalizeReceipt(r) PROVE ChatInv'
  <2>a. /\ agenda' \in Seq(ItemType) /\ agenda \in Seq(ItemType)
        /\ Len(agenda) \in Nat \ {0} /\ Len(agenda') = Len(agenda) - 1
        /\ 1 \in DOMAIN agenda /\ agenda[1] = Head(agenda) /\ agenda[1] \in ItemType
        /\ DOMAIN agenda' = 1..(Len(agenda) - 1)
        /\ \A i \in DOMAIN agenda' : /\ i \in Nat \ {0} /\ i + 1 \in DOMAIN agenda
                                     /\ agenda'[i] = agenda[i + 1]
    <3>1. agenda \in Seq(ItemType) /\ agenda # <<>> /\ agenda' = Tail(agenda)
      BY <1>13 DEF FinalizeReceipt, Doing, Done, TypeOK, ItemType, Does
    <3> QED
      BY <3>1, TailItems
  <2>b. agenda[1].does = "receipt" /\ agenda[1].run = r /\ ItemInv(1)
    BY <1>13, <2>a DEF FinalizeReceipt, Doing, AgendaInv
  <2>c. \A i \in DOMAIN agenda' : i + 1 # 1 /\ ItemInv(i + 1)
    BY <2>a DEF AgendaInv
  <2>d. agenda[1].what \in Outcome /\ row[r] \notin {"none", "running"}
    BY <2>b DEF ItemInv
  <2>e. \A q \in Run : /\ Over(q)' <=> Over(q)
                       /\ Completed(q)' <=> Completed(q)
                       /\ Told(q)' = Told(q)
    BY <1>13 DEF FinalizeReceipt, Over, Completed, Told
  <2>g. \A q \in Run : receipt'[q] = IF q = r /\ receipt[r] = "pending"
                                       THEN agenda[1].what ELSE receipt[q]
    BY <1>13, <2>a DEF FinalizeReceipt, TypeOK
  <2>h. UNCHANGED <<starts, service, row, sessions, known, events, said, task, threads,
                    stop, readers>>
    BY <1>13 DEF FinalizeReceipt
  <2>1. PairsInv' /\ ReaderInv' /\ FiniteInv'
    BY <1>13, <2>a, <2>b, <2>c, <2>d, <2>e, <2>g, <2>h DEF FinalizeReceipt,
       Doing, Done, PairsInv, Completed, ReaderInv, Over, FiniteInv
  <2>2. TypeOK'
    BY <1>13, <2>a, <2>d DEF FinalizeReceipt, TypeOK, ItemType, Does
  <2>3. AgendaInv'
    <3> SUFFICES ASSUME NEW i \in DOMAIN agenda'
                 PROVE  ItemInv(i)'
      BY DEF AgendaInv
    <3>1. /\ agenda'[i] = agenda[i + 1] /\ ItemInv(i + 1) /\ i \in Nat \ {0}
          /\ agenda[i + 1] \in ItemType
      BY <2>a, <2>c
    <3>2. agenda'[i].does # "open"
      BY <2>a, <2>b, <3>1 DEF ItemInv, Opens
    <3>3. ASSUME agenda'[i].does \in Ending PROVE Ends(i)' /\ i = 1
      BY <2>a, <2>h, <3>1, <3>3 DEF ItemInv, Ends
    <3>4. ASSUME agenda'[i].does \in {"commit", "tell"} PROVE Finishes(i)'
      BY <2>a, <2>h, <3>1, <3>4 DEF ItemInv, Finishes
    <3>5. ASSUME agenda'[i].does = "commit" PROVE Commits(i)'
      <4>1. i = 1 /\ agenda[2].run = r
        BY <3>3, <3>5, <3>1, <2>a, <2>b DEF Ending, ItemInv, Ends
      <4> QED
        BY <2>b, <2>e, <2>g, <2>h, <3>1, <3>5, <4>1 DEF ItemInv, Commits
    <3> QED
      BY <3>1, <3>2, <3>3, <3>4, <3>5, <2>h DEF ItemInv
  <2>4. ReadingInv'
    <3> SUFFICES ASSUME NEW q \in Run, (task[q] = "reading" /\ row[q] # "running")'
                 PROVE  \E i \in DOMAIN agenda' :
                          agenda'[i].run = q /\ agenda'[i].does \in Ending
      BY DEF ReadingInv
    <3>1. PICK k \in DOMAIN agenda : agenda[k].run = q /\ agenda[k].does \in Ending
      BY <2>h DEF ReadingInv
    <3>2. k \in 1..Len(agenda) /\ k # 1
      BY <2>a, <2>b, <3>1 DEF Ending
    <3>3. k - 1 \in DOMAIN agenda' /\ agenda'[k - 1] = agenda[k]
      BY <2>a, <3>2, SMTT(60)
    <3> QED
      BY <3>1, <3>3
  <2>5. RunInv'
    BY <2>d, <2>e, <2>g, <2>h DEF RunInv, Outcome
  <2>6. CompletedInv'
    BY <2>e, <2>g, <2>h DEF CompletedInv
  <2>7. BusyInv'
    <3>1. \A q \in Run : Holds(q)' <=> Holds(q)
      <4>1. \A i \in DOMAIN agenda' : agenda'[i].does # "open"
        BY <2>a, <2>c DEF ItemInv, Opens
      <4>2. agenda' # <<>> => Head(agenda') = agenda'[1] /\ 1 \in DOMAIN agenda'
        BY <2>a
      <4> QED
        BY <2>a, <2>b, <2>h, <4>1, <4>2 DEF Holds, Doing
    <3> QED
      BY <2>h, <3>1, HoldStutter
  <2> QED
    BY <2>1, <2>2, <2>3, <2>4, <2>5, <2>6, <2>7 DEF ChatInv
<1>14. ASSUME NEW r \in Run, Commit(r) PROVE ChatInv'
  <2>a. /\ agenda' \in Seq(ItemType) /\ agenda \in Seq(ItemType)
        /\ Len(agenda) \in Nat \ {0} /\ Len(agenda') = Len(agenda) - 1
        /\ 1 \in DOMAIN agenda /\ agenda[1] = Head(agenda) /\ agenda[1] \in ItemType
        /\ DOMAIN agenda' = 1..(Len(agenda) - 1)
        /\ \A i \in DOMAIN agenda' : /\ i \in Nat \ {0} /\ i + 1 \in DOMAIN agenda
                                     /\ agenda'[i] = agenda[i + 1]
    <3>1. agenda \in Seq(ItemType) /\ agenda # <<>> /\ agenda' = Tail(agenda)
      BY <1>14 DEF Commit, Doing, Done, TypeOK, ItemType, Does
    <3> QED
      BY <3>1, TailItems
  <2>b. agenda[1].does = "commit" /\ agenda[1].run = r /\ ItemInv(1)
    BY <1>14, <2>a DEF Commit, Doing, AgendaInv
  <2>c. \A i \in DOMAIN agenda' : i + 1 # 1 /\ ItemInv(i + 1)
    BY <2>a DEF AgendaInv
  <2>d. /\ agenda' = <<>> /\ task[r] \in {"reading", "cancelled"} /\ ~ Over(r)
        /\ row[r] \notin {"none", "running"} /\ service \in {"open", "closing"}
    BY <2>a, <2>b, SMTT(60) DEF ItemInv, Ends, Finishes, Ending, RunInv
  <2> DEFINE type == IF said[r] = "text" /\ session[Of[r]] = "open"
                       THEN "completed" ELSE "interrupted"
  <2>f. type \in {"completed", "interrupted"} /\ events' = Published(r, type)
    BY <1>14 DEF Commit
  <2>p. \/ type = "completed" /\ pairs' = [pairs EXCEPT ![Of[r]] = Append(@, r)]
        \/ pairs' = pairs
    BY <1>14 DEF Commit
  <2> HIDE DEF type
  <2>e. /\ events' \in [Run -> Seq(Event)]
        /\ \A q \in Run : q # r => events'[q] = events[q]
        /\ \A q \in Run : Len(events'[q]) >= Len(events[q])
        /\ \A q \in Run : Over(q) => Over(q)' /\ events'[q] = events[q]
        /\ \A q \in Run : q # r \/ Over(q) =>
             /\ Over(q)' <=> Over(q)
             /\ Completed(q)' <=> Completed(q)
             /\ Told(q)' = Told(q)
        /\ ~ Over(r) => /\ events'[r] # <<>>
                        /\ Over(r)' <=> type \in Terminal
                        /\ Completed(r)' <=> type = "completed"
                        /\ Told(r)' = Told(r) \cup {type}
    BY <1>14, <2>f, PublishedEffect DEF TypeOK, Event, Terminal
  <2>g. \A q \in Run : task'[q] = IF q = r THEN "done" ELSE task[q]
    BY <1>14 DEF Commit, Released, TypeOK
  <2>h. /\ busy' = busy \ {Of[r]}
        /\ UNCHANGED <<starts, service, durable, session, syncing, known, threads, stop,
                       readers>>
    BY <1>14 DEF Commit, Released
  <2>i. pairs' \in [Session -> Seq(Run \cup {"sync"})] /\ PairsInv'
    <3>1. \A q \in Run : Completed(q) => Completed(q)'
      BY <2>d, <2>e DEF Completed, Over, Terminal
    <3>2. CASE pairs' = pairs
      BY <3>1, <3>2, PairsKept DEF TypeOK
    <3>3. CASE type = "completed" /\ pairs' = [pairs EXCEPT ![Of[r]] = Append(@, r)]
      <4>1. Completed(r)' /\ Of[r] \in Session
        BY <2>d, <2>e, <3>3
      <4> QED
        BY <3>1, <3>3, <4>1, PairAdded DEF TypeOK
    <3> QED
      BY <2>p, <3>2, <3>3
  <2>j. row[r] = "succeeded" /\ receipt[r] = "succeeded" /\ "cancelling" \notin Told(r)
    <3>1. Commits(1)
      BY <2>b DEF ItemInv
    <3> QED
      BY <2>b, <3>1 DEF Commits
  <2>1. FiniteInv'
    BY <1>14, <2>d, <2>e, <2>g, <2>h DEF Commit, Doing, Done, Released,
       FiniteInv
  <2>2. TypeOK'
    <3>1. task' \in [Run -> {"none", "reading", "cancelled", "done"}]
      BY <1>14 DEF Commit, Released, TypeOK
    <3>2. said' \in [Run -> {"nothing", "blank", "text"}]
      BY <1>14 DEF Commit, Released, TypeOK
    <3>3. busy' \subseteq Session /\ agenda' \in Seq(ItemType)
      BY <2>a, <2>h DEF TypeOK
    <3>5. events' \in [Run -> Seq(Event)]
      BY <2>e
    <3> QED
      BY <2>h, <2>i, <3>1, <3>2, <3>3, <3>5, ZenonT(120) DEF TypeOK, ItemType,
         Does, Event
  <2>3. AgendaInv'
    BY <2>d DEF AgendaInv
  <2>4. ReadingInv'
    <3>1. \A q \in Run : q # r /\ task[q] = "reading" => row[q] = "running"
      BY <2>a, <2>b, <2>d DEF ReadingInv
    <3> QED
      BY <2>g, <2>h, <3>1 DEF ReadingInv
  <2>5. RunInv'
    BY <2>d, <2>e, <2>g, <2>h DEF RunInv
  <2>6. CompletedInv'
    BY <2>d, <2>e, <2>f, <2>h, <2>j DEF CompletedInv
  <2>7. PairsInv'
    BY <2>i
  <2>8. BusyInv'
    <3>1. Holds(r) /\ ~ Holds(r)' /\ \A q \in Run : q # r => (Holds(q)' <=> Holds(q))
      BY <2>a, <2>b, <2>d, <2>g DEF Holds, Doing
    <3> QED
      BY <2>h, <3>1, HoldReturned
  <2>9. ReaderInv'
    <3>1. \A q \in Run : Len(events'[q]) \in Nat
      BY <2>e
    <3> QED
      BY <2>h, <2>e, <3>1, StreamsKept
  <2> QED
    BY <2>1, <2>2, <2>3, <2>4, <2>5, <2>6, <2>7, <2>8, <2>9 DEF ChatInv
<1>15. ASSUME NEW r \in Run, Tell(r) PROVE ChatInv'
  <2>a. /\ agenda' \in Seq(ItemType) /\ agenda \in Seq(ItemType)
        /\ Len(agenda) \in Nat \ {0} /\ Len(agenda') = Len(agenda) - 1
        /\ 1 \in DOMAIN agenda /\ agenda[1] = Head(agenda) /\ agenda[1] \in ItemType
        /\ DOMAIN agenda' = 1..(Len(agenda) - 1)
        /\ \A i \in DOMAIN agenda' : /\ i \in Nat \ {0} /\ i + 1 \in DOMAIN agenda
                                     /\ agenda'[i] = agenda[i + 1]
    <3>1. agenda \in Seq(ItemType) /\ agenda # <<>> /\ agenda' = Tail(agenda)
      BY <1>15 DEF Tell, Doing, Done, TypeOK, ItemType, Does
    <3> QED
      BY <3>1, TailItems
  <2>b. agenda[1].does = "tell" /\ agenda[1].run = r /\ ItemInv(1)
    BY <1>15, <2>a DEF Tell, Doing, AgendaInv
  <2>c. \A i \in DOMAIN agenda' : i + 1 # 1 /\ ItemInv(i + 1)
    BY <2>a DEF AgendaInv
  <2>d. /\ agenda' = <<>> /\ task[r] \in {"reading", "cancelled"} /\ ~ Over(r)
        /\ row[r] \notin {"none", "running"} /\ service \in {"open", "closing"}
    BY <2>a, <2>b DEF ItemInv, Ends, Finishes, Ending, RunInv
  <2> DEFINE type == agenda[1].what
  <2>f. type \in Terminal \ {"completed"} /\ events' = Published(r, type)
    BY <1>15, <2>a, <2>b DEF Tell, ItemInv
  <2> HIDE DEF type
  <2>e. /\ events' \in [Run -> Seq(Event)]
        /\ \A q \in Run : q # r => events'[q] = events[q]
        /\ \A q \in Run : Len(events'[q]) >= Len(events[q])
        /\ \A q \in Run : Over(q) => Over(q)' /\ events'[q] = events[q]
        /\ \A q \in Run : q # r \/ Over(q) =>
             /\ Over(q)' <=> Over(q)
             /\ Completed(q)' <=> Completed(q)
             /\ Told(q)' = Told(q)
        /\ ~ Over(r) => /\ events'[r] # <<>>
                        /\ Over(r)' <=> type \in Terminal
                        /\ Completed(r)' <=> type = "completed"
                        /\ Told(r)' = Told(r) \cup {type}
    BY <1>15, <2>f, PublishedEffect DEF TypeOK, Event, Terminal
  <2>g. \A q \in Run : task'[q] = IF q = r THEN "done" ELSE task[q]
    BY <1>15 DEF Tell, Released, TypeOK
  <2>h. /\ busy' = busy \ {Of[r]}
        /\ UNCHANGED <<starts, service, durable, session, syncing, known, threads, stop,
                       readers>>
    BY <1>15 DEF Tell, Released
  <2>1. FiniteInv'
    BY <1>15, <2>d, <2>e, <2>g, <2>h DEF Tell, Doing, Done, Released, FiniteInv
  <2>2. TypeOK'
    <3>1. task' \in [Run -> {"none", "reading", "cancelled", "done"}]
      BY <1>15 DEF Tell, Released, TypeOK
    <3>2. said' \in [Run -> {"nothing", "blank", "text"}]
      BY <1>15 DEF Tell, Released, TypeOK
    <3>3. busy' \subseteq Session /\ agenda' \in Seq(ItemType)
      BY <2>a, <2>h DEF TypeOK
    <3>4. pairs' = pairs
      BY <1>15 DEF Tell
    <3>5. events' \in [Run -> Seq(Event)]
      BY <2>e
    <3> QED
      BY <2>h, <3>1, <3>2, <3>3, <3>4, <3>5, ZenonT(120) DEF TypeOK, ItemType,
         Does, Event
  <2>3. AgendaInv'
    BY <2>d DEF AgendaInv
  <2>4. ReadingInv'
    <3>1. \A q \in Run : q # r /\ task[q] = "reading" => row[q] = "running"
      BY <2>a, <2>b, <2>d DEF ReadingInv
    <3> QED
      BY <2>g, <2>h, <3>1 DEF ReadingInv
  <2>5. RunInv'
    BY <2>d, <2>e, <2>g, <2>h DEF RunInv
  <2>6. CompletedInv'
    BY <2>d, <2>e, <2>f, <2>h DEF CompletedInv
  <2>7. PairsInv'
    <3>1. \A q \in Run : Completed(q) => Completed(q)'
      BY <2>d, <2>e DEF Completed, Over, Terminal
    <3>2. pairs' = pairs
      BY <1>15 DEF Tell
    <3> QED
      BY <3>1, <3>2, PairsKept
  <2>8. BusyInv'
    <3>1. Holds(r) /\ ~ Holds(r)' /\ \A q \in Run : q # r => (Holds(q)' <=> Holds(q))
      BY <2>a, <2>b, <2>d, <2>g DEF Holds, Doing
    <3> QED
      BY <2>h, <3>1, HoldReturned
  <2>9. ReaderInv'
    <3>1. \A q \in Run : Len(events'[q]) \in Nat
      BY <2>e
    <3> QED
      BY <2>h, <2>e, <3>1, StreamsKept
  <2> QED
    BY <2>1, <2>2, <2>3, <2>4, <2>5, <2>6, <2>7, <2>8, <2>9 DEF ChatInv
<1>16. ASSUME NEW r \in Run, NEW rest \in Seq(ItemType), Cancels(r, rest) PROVE ChatInv'
  <2>b. PICK n \in {0, 1} : n = IF row[r] = "running" THEN 1 ELSE 0
    OBVIOUS
  <2>i. /\ agenda' \in Seq(ItemType)
        /\ n + 1 \in DOMAIN agenda' /\ agenda'[n + 1] = Todo("stop", r, "none")
        /\ n = 1 => 1 \in DOMAIN agenda' /\ agenda'[1] = Todo("receipt", r, "cancelled")
        /\ \A i \in DOMAIN agenda' : i \in 1..(n + 1) \/ Later(agenda'[i])
        /\ agenda' # <<>> /\ Head(agenda') = agenda'[1]
    BY <1>16, <2>b, CancelItems
  <2>a. /\ agenda' \in Seq(ItemType)
        /\ n + 1 \in DOMAIN agenda'
        /\ agenda'[n + 1].does = "stop" /\ agenda'[n + 1].run = r
        /\ n = 1 => /\ 1 \in DOMAIN agenda' /\ agenda'[1].does = "receipt"
                    /\ agenda'[1].run = r /\ agenda'[1].what = "cancelled"
        /\ \A i \in DOMAIN agenda' : i \in 1..(n + 1) \/ Later(agenda'[i])
        /\ agenda' # <<>> /\ Head(agenda') = agenda'[1]
    BY <2>i DEF Todo
  <2>c. /\ row[r] # "none" /\ service \in {"open", "closing"}
        /\ \A q \in Run : task[q] = "reading" => row[q] = "running"
        /\ \A q \in Run : ~ Doing("open", q)
    BY <1>16 DEF Cancels
  <2>d. \A q \in Run : row'[q] = IF q = r /\ row[q] = "running" THEN "aborted" ELSE row[q]
    BY <1>16 DEF Cancels, Cancelling, TypeOK
  <2>e. /\ events' \in [Run -> Seq(Event)]
        /\ \A q \in Run : q # r => events'[q] = events[q]
        /\ \A q \in Run : Len(events'[q]) >= Len(events[q])
        /\ \A q \in Run : Over(q) => Over(q)' /\ events'[q] = events[q]
        /\ \A q \in Run : q # r \/ Over(q) =>
             /\ Over(q)' <=> Over(q)
             /\ Completed(q)' <=> Completed(q)
             /\ Told(q)' = Told(q)
        /\ ~ Over(r) => /\ events'[r] # <<>>
                        /\ Over(r)' <=> "cancelling" \in Terminal
                        /\ Completed(r)' <=> "cancelling" = "completed"
                        /\ Told(r)' = Told(r) \cup {"cancelling"}
    BY <1>16, PublishedEffect DEF Cancels, Cancelling, TypeOK, Event
  <2>h. UNCHANGED <<starts, service, receipt, sessions, known, said, task, threads, stop,
                    readers>>
    BY <1>16 DEF Cancels
  <2>1. TypeOK'
    <3>1. row' \in [Run -> {"none", "running", "succeeded", "aborted", "failed"}]
      BY <1>16 DEF Cancels, Cancelling, TypeOK
    <3> QED
      BY <2>a, <2>e, <2>h, <3>1 DEF TypeOK, ItemType, Does, Event
  <2>2. AgendaInv'
    <3> SUFFICES ASSUME NEW i \in DOMAIN agenda'
                 PROVE  ItemInv(i)'
      BY DEF AgendaInv
    <3>1. CASE i = n + 1
      <4>1. Ends(i)'
        BY <2>a, <2>b, <2>c, <2>d, <3>1 DEF Ends
      <4> QED
        BY <2>a, <2>c, <2>h, <3>1, <4>1 DEF ItemInv, Ending
    <3>2. CASE i = 1 /\ n = 1
      BY <2>a, <2>b, <2>d, <3>2 DEF ItemInv, Ending, Outcome
    <3>3. CASE Later(agenda'[i])
      <4>1. agenda'[i] \in ItemType
        BY <2>a
      <4>2. PICK item \in ItemType : item = agenda'[i] /\ Later(item)
        BY <3>3, <4>1
      <4>3. item.run \in Run
        BY <4>2 DEF ItemType
      <4>4. \/ item.does = "cancel" /\ row'[item.run] # "none"
            \/ /\ item.does = "receipt" /\ item.what \in Outcome
               /\ row'[item.run] \notin {"none", "running"}
        BY <4>2, <4>3, <2>d DEF Later
      <4> QED
        BY <2>c, <2>h, <4>2, <4>4 DEF ItemInv, Ending
    <3>4. i \in 1..(n + 1) => i = n + 1 \/ (i = 1 /\ n = 1)
      BY <2>b
    <3> QED
      BY <2>a, <3>1, <3>2, <3>3, <3>4
  <2>3. ReadingInv'
    <3> SUFFICES ASSUME NEW q \in Run, (task[q] = "reading" /\ row[q] # "running")'
                 PROVE  \E i \in DOMAIN agenda' :
                          agenda'[i].run = q /\ agenda'[i].does \in Ending
      BY DEF ReadingInv
    <3>1. q = r
      BY <2>c, <2>d, <2>h
    <3> QED
      BY <2>a, <3>1 DEF Ending
  <2>4. RunInv'
    <3>1. \A q \in Run : task[q] \in {"reading", "cancelled"} => ~ Over(q)'
      BY <2>e DEF RunInv, Terminal
    <3>2. \A q \in Run : row'[q] = "running" =>
            q # r /\ row[q] = "running" /\ Told(q)' = Told(q)
      BY <2>d, <2>e
    <3>3. \A q \in Run : row'[q] = "none" => q # r /\ row[q] = "none"
      BY <2>c, <2>d
    <3>4. \A q \in Run : q # r => events'[q] = events[q]
      BY <2>e
    <3> SUFFICES ASSUME NEW q \in Run
                 PROVE  /\ row'[q] # "none" => receipt[q] # "none"
                        /\ row'[q] = "none" => /\ task[q] = "none" /\ events'[q] = <<>>
                                               /\ q \notin known
                        /\ row'[q] = "running" => /\ receipt[q] = "pending"
                                                  /\ "cancelling" \notin Told(q)'
                        /\ row'[q] = "running" /\ service # "down"
                             => q \in known /\ task[q] = "reading"
                        /\ task[q] \in {"reading", "cancelled"} => ~ Over(q)'
                        /\ service \in {"down", "starting"} => task[q] = "none"
      BY <2>h DEF RunInv
    <3>5. row'[q] # "none" => row[q] # "none"
      BY <2>c, <2>d
    <3> QED
      BY <3>1, <3>2, <3>3, <3>4, <3>5 DEF RunInv
  <2>5. CompletedInv'
    <3> SUFFICES ASSUME NEW q \in Run, Completed(q)'
                 PROVE  /\ row'[q] = "succeeded" /\ receipt'[q] = "succeeded"
                        /\ "cancelling" \notin Told(q)'
      BY DEF CompletedInv
    <3>1. (q # r \/ Over(q)) /\ Completed(q) /\ Told(q)' = Told(q)
      BY <2>e
    <3> QED
      BY <2>d, <2>h, <3>1 DEF CompletedInv
  <2>6. PairsInv'
    <3>1. \A q \in Run : Completed(q) => Completed(q)'
      BY <2>e DEF Completed, Over, Terminal
    <3> QED
      BY <2>h, <3>1, PairsKept
  <2>7. BusyInv'
    <3>1. \A q \in Run : Holds(q)' <=> Holds(q)
      <4>1. Head(agenda').does # "open"
        BY <2>a, <2>b
      <4> QED
        BY <2>c, <2>h, <4>1 DEF Holds, Doing
    <3> QED
      BY <2>h, <3>1, HoldStutter
  <2>8. ReaderInv'
    <3>1. \A q \in Run : Len(events'[q]) \in Nat
      BY <2>e
    <3> QED
      BY <2>h, <2>e, <3>1, StreamsKept
  <2>9. FiniteInv'
    BY <2>c, <2>d, OneMoreRun
  <2> QED
    BY <2>1, <2>2, <2>3, <2>4, <2>5, <2>6, <2>7, <2>8, <2>9 DEF ChatInv
<1>17. ASSUME NEW r \in Run, StopTask(r) PROVE ChatInv'
  <2>a. /\ agenda' \in Seq(ItemType) /\ agenda \in Seq(ItemType)
        /\ Len(agenda) \in Nat \ {0} /\ Len(agenda') = Len(agenda) - 1
        /\ 1 \in DOMAIN agenda /\ agenda[1] = Head(agenda) /\ agenda[1] \in ItemType
        /\ DOMAIN agenda' = 1..(Len(agenda) - 1)
        /\ \A i \in DOMAIN agenda' : /\ i \in Nat \ {0} /\ i + 1 \in DOMAIN agenda
                                     /\ agenda'[i] = agenda[i + 1]
    <3>1. agenda \in Seq(ItemType) /\ agenda # <<>> /\ agenda' = Tail(agenda)
      BY <1>17 DEF StopTask, Doing, Done, TypeOK, ItemType, Does
    <3> QED
      BY <3>1, TailItems
  <2>b. agenda[1].does = "stop" /\ agenda[1].run = r /\ ItemInv(1)
    BY <1>17, <2>a DEF StopTask, Doing, AgendaInv
  <2>c. \A i \in DOMAIN agenda' : i + 1 # 1 /\ ItemInv(i + 1)
    BY <2>a DEF AgendaInv
  <2>d. row[r] \notin {"none", "running"} /\ service \in {"open", "closing"}
    BY <2>b DEF ItemInv, Ends, Ending
  <2>f. \A k \in DOMAIN agenda : k # 1 => agenda[k].does \in {"cancel", "receipt"}
    <3> SUFFICES ASSUME NEW k \in DOMAIN agenda, k # 1
                 PROVE  agenda[k].does \in {"cancel", "receipt"}
      OBVIOUS
    <3>1. ItemInv(k) /\ k \in 1..Len(agenda) /\ agenda[k] \in ItemType
      BY <2>a DEF AgendaInv
    <3>2. agenda[k].does \notin Ending
      BY <2>b, <3>1 DEF ItemInv, Ends
    <3>3. agenda[k].does # "open"
      BY <2>a, <3>1 DEF ItemInv, Opens
    <3> QED
      BY <3>1, <3>2, <3>3 DEF ItemType, Does, Ending
  <2>e. \A q \in Run : /\ Over(q)' <=> Over(q)
                       /\ Completed(q)' <=> Completed(q)
                       /\ Told(q)' = Told(q)
    BY <1>17 DEF StopTask, Over, Completed, Told
  <2>g. \A q \in Run : task'[q] = IF q = r /\ task[q] = "reading" THEN "cancelled" ELSE task[q]
    BY <1>17 DEF StopTask, TypeOK
  <2>h. UNCHANGED <<starts, service, durable, sessions, known, events, said, threads,
                    stop, readers>>
    BY <1>17 DEF StopTask
  <2>1. CompletedInv' /\ PairsInv' /\ ReaderInv' /\ FiniteInv'
    BY <1>17, <2>d, <2>e, <2>f, <2>g, <2>h DEF StopTask, Doing, Done,
       CompletedInv, Completed, Told, PairsInv, ReaderInv, Over, FiniteInv
  <2>2. TypeOK'
    BY <1>17, <2>a DEF StopTask, TypeOK, ItemType, Does
  <2>3. AgendaInv'
    <3> SUFFICES ASSUME NEW i \in DOMAIN agenda'
                 PROVE  ItemInv(i)'
      BY DEF AgendaInv
    <3>1. agenda'[i] = agenda[i + 1] /\ ItemInv(i + 1)
          /\ agenda[i + 1].does \in {"cancel", "receipt"}
      BY <2>a, <2>c, <2>f
    <3> QED
      BY <3>1, <2>h DEF ItemInv, Ending
  <2>4. ReadingInv'
    <3>1. \A q \in Run : q # r /\ task[q] = "reading" => row[q] = "running"
      <4> SUFFICES ASSUME NEW q \in Run, q # r, task[q] = "reading", row[q] # "running"
                   PROVE  FALSE
        OBVIOUS
      <4>1. PICK k \in DOMAIN agenda : agenda[k].run = q /\ agenda[k].does \in Ending
        BY DEF ReadingInv
      <4>2. k # 1
        BY <2>b, <4>1
      <4> QED
        BY <2>f, <4>1, <4>2 DEF Ending
    <3> QED
      BY <2>g, <2>h, <3>1 DEF ReadingInv
  <2>5. RunInv'
    BY <2>d, <2>e, <2>g, <2>h DEF RunInv
  <2>6. BusyInv'
    <3>1. \A q \in Run : Holds(q)' <=> Holds(q)
      <4>1. agenda' # <<>> => Head(agenda') = agenda'[1] /\ 1 \in DOMAIN agenda'
        BY <2>a
      <4>2. agenda' # <<>> => Head(agenda').does # "open"
        BY <2>a, <2>c, <2>f, <4>1
      <4> QED
        BY <2>b, <2>a, <2>g, <4>2 DEF Holds, Doing
    <3> QED
      BY <2>h, <3>1, HoldStutter
  <2> QED
    BY <2>1, <2>2, <2>3, <2>4, <2>5, <2>6 DEF ChatInv
<1>18. ASSUME Shutdown PROVE ChatInv'
  <2> DEFINE S == {r \in known : ~ Over(r)}
  <2>a. /\ agenda' \in Seq(ItemType)
        /\ \A i \in DOMAIN agenda' : /\ agenda'[i].does = "cancel" /\ agenda'[i].run \in S
                                     /\ agenda'[i].what = "none"
        /\ agenda' # <<>> => 1 \in DOMAIN agenda' /\ Head(agenda') = agenda'[1]
    <3>1. S \in SUBSET Run /\ S \subseteq {r \in Run : row[r] # "none"}
      BY DEF TypeOK, RunInv
    <3>2. IsFiniteSet(S)
      BY <3>1, FS_Subset DEF FiniteInv
    <3>3. agenda' = [i \in 1..Len(SetToSeq(S)) |-> Todo("cancel", SetToSeq(S)[i], "none")]
      BY <1>18 DEF Shutdown
    <3>4. "cancel" \in Does /\ "none" \in Outcome \cup {"none"}
      BY DEF Does, Outcome
    <3> HIDE DEF S
    <3> QED
      BY <3>1, <3>2, <3>3, <3>4, ListedItems
  <2>b. agenda = <<>> /\ service = "open" /\ service' = "closing"
    BY <1>18 DEF Shutdown, Idle
  <2>e. \A q \in Run : /\ Over(q)' <=> Over(q)
                       /\ Completed(q)' <=> Completed(q)
                       /\ Told(q)' = Told(q)
    BY <1>18 DEF Shutdown, Over, Completed, Told
  <2>h. UNCHANGED <<starts, durable, sessions, known, events, said, task, threads, stop,
                    readers>>
    BY <1>18 DEF Shutdown
  <2>1. CompletedInv' /\ PairsInv' /\ ReaderInv' /\ FiniteInv'
    BY <1>18, <2>b, <2>e, <2>h DEF Shutdown, Idle, Todo, CompletedInv,
       Completed, Told, PairsInv, ReaderInv, Over, FiniteInv
  <2>2. TypeOK'
    BY <2>a, <2>b, <2>h DEF TypeOK, ItemType, Does
  <2>3. AgendaInv'
    <3>1. \A i \in DOMAIN agenda' : agenda'[i].does = "cancel" /\ row[agenda'[i].run] # "none"
      BY <2>a DEF RunInv, TypeOK
    <3> QED
      BY <2>b, <2>h, <3>1 DEF AgendaInv, ItemInv, Ending
  <2>4. ReadingInv'
    BY <2>b, <2>h DEF ReadingInv
  <2>5. RunInv'
    BY <2>b, <2>e, <2>h DEF RunInv
  <2>6. BusyInv'
    <3>1. \A q \in Run : Holds(q)' <=> Holds(q)
      BY <2>a, <2>b, <2>h DEF Holds, Doing
    <3> QED
      BY <2>h, <3>1, HoldStutter
  <2> QED
    BY <2>1, <2>2, <2>3, <2>4, <2>5, <2>6 DEF ChatInv
<1>19. ASSUME ShutdownDone PROVE ChatInv'
  <2>1. ReadingInv' /\ CompletedInv' /\ BusyInv' /\ ReaderInv' /\ FiniteInv'
    BY <1>19 DEF ShutdownDone, Idle, Discarded, ReadingInv, Ending,
       CompletedInv, Completed, Told, BusyInv, Holds, Doing, ReaderInv, Over,
       FiniteInv
  <2>2. TypeOK'
    BY <1>19 DEF ShutdownDone, Idle, Discarded, TypeOK, ItemType, Does
  <2>3. AgendaInv'
    BY <1>19 DEF ShutdownDone, Idle, Discarded, TypeOK, ItemType, Does,
       AgendaInv, ItemInv, Opens, Ends, Finishes, Commits, Told, Ending
  <2>4. RunInv'
    BY <1>19 DEF ShutdownDone, Idle, Discarded, TypeOK, ItemType, Does, RunInv,
       Told, Over
  <2>5. PairsInv'
    BY <1>19 DEF ShutdownDone, Idle, Discarded, TypeOK, ItemType, Does,
       PairsInv, Completed
  <2> QED
    BY <2>1, <2>2, <2>3, <2>4, <2>5 DEF ChatInv
<1>20. ASSUME Gone PROVE ChatInv'
  <2>1. FiniteInv'
    BY <1>20 DEF Gone, Discarded, FiniteInv
  <2>2. TypeOK'
    BY <1>20 DEF Gone, Discarded, TypeOK, ItemType, Does
  <2>3. AgendaInv'
    BY <1>20 DEF Gone, Discarded, TypeOK, ItemType, Does, AgendaInv, ItemInv,
       Opens, Ends, Finishes, Commits, Told, Ending
  <2>4. ReadingInv'
    BY <1>20 DEF Gone, Discarded, TypeOK, ItemType, Does, ReadingInv, Ending
  <2>5. RunInv'
    BY <1>20 DEF Gone, Discarded, TypeOK, ItemType, Does, RunInv, Told, Over
  <2>6. CompletedInv'
    BY <1>20 DEF Gone, Discarded, TypeOK, ItemType, Does, CompletedInv,
       Completed, Told
  <2>7. PairsInv'
    BY <1>20 DEF Gone, Discarded, TypeOK, ItemType, Does, PairsInv, Completed
  <2>8. BusyInv'
    BY <1>20 DEF Gone, Discarded, TypeOK, ItemType, Does, BusyInv, Holds, Doing
  <2>9. ReaderInv'
    BY <1>20 DEF Gone, Discarded, TypeOK, ItemType, Does, ReaderInv, Over
  <2> QED
    BY <2>1, <2>2, <2>3, <2>4, <2>5, <2>6, <2>7, <2>8, <2>9 DEF ChatInv
<1>21. ASSUME Start PROVE ChatInv'
  <2> DEFINE S == {r \in Run : row[r] = "running"}
  <2>a. /\ agenda' \in Seq(ItemType)
        /\ \A i \in DOMAIN agenda' : /\ agenda'[i].does = "receipt" /\ agenda'[i].run \in S
                                     /\ agenda'[i].what = "recovered"
        /\ agenda' # <<>> => 1 \in DOMAIN agenda' /\ Head(agenda') = agenda'[1]
    <3>1. S \in SUBSET Run /\ S \subseteq {r \in Run : row[r] # "none"}
      BY DEF TypeOK, RunInv
    <3>2. IsFiniteSet(S)
      BY <3>1, FS_Subset DEF FiniteInv
    <3>3. agenda' = [i \in 1..Len(SetToSeq(S)) |->
                       Todo("receipt", SetToSeq(S)[i], "recovered")]
      BY <1>21 DEF Start
    <3>4. "receipt" \in Does /\ "recovered" \in Outcome \cup {"none"}
      BY DEF Does, Outcome
    <3> HIDE DEF S
    <3> QED
      BY <3>1, <3>2, <3>3, <3>4, ListedItems
  <2>b. service = "down" /\ service' = "starting"
    BY <1>21 DEF Start
  <2>c. \A q \in Run : row'[q] = IF row[q] = "running" THEN "aborted" ELSE row[q]
    BY <1>21 DEF Start
  <2>e. \A q \in Run : /\ Over(q)' <=> Over(q)
                       /\ Completed(q)' <=> Completed(q)
                       /\ Told(q)' = Told(q)
    BY <1>21 DEF Start, Over, Completed, Told
  <2>h. UNCHANGED <<receipt, sessions, known, events, said, task, threads, stop, readers>>
    BY <1>21 DEF Start
  <2>k. \A q \in Run : ~ Doing("open", q)
    <3>1. agenda # <<>> => 1 \in DOMAIN agenda /\ Head(agenda) = agenda[1]
      BY DEF TypeOK
    <3> QED
      BY <2>b, <3>1 DEF AgendaInv, ItemInv, Doing
  <2>1. PairsInv' /\ ReaderInv'
    BY <1>21, <2>b, <2>c, <2>e, <2>h DEF Start, Todo, PairsInv, Completed,
       ReaderInv, Over
  <2>2. TypeOK'
    <3>1. row' \in [Run -> {"none", "running", "succeeded", "aborted", "failed"}]
      BY <1>21 DEF Start, TypeOK
    <3>2. starts' \in 1..MaxStarts
      BY <1>21 DEF Start, TypeOK
    <3> QED
      BY <2>a, <2>b, <2>h, <3>1, <3>2 DEF TypeOK, ItemType, Does
  <2>3. AgendaInv'
    BY <2>a, <2>b, <2>c, <2>h DEF AgendaInv, ItemInv, Ending, Outcome
  <2>4. ReadingInv'
    BY <2>b, <2>h DEF ReadingInv, RunInv
  <2>5. RunInv'
    BY <2>b, <2>c, <2>e, <2>h DEF RunInv
  <2>6. CompletedInv'
    BY <2>c, <2>e, <2>h DEF CompletedInv
  <2>7. BusyInv'
    <3>1. \A q \in Run : Holds(q)' <=> Holds(q)
      <4>1. \A q \in Run : ~ Doing("open", q)'
        BY <2>a DEF Doing
      <4> QED
        BY <2>h, <2>k, <4>1 DEF Holds
    <3> QED
      BY <2>h, <3>1, HoldStutter
  <2>8. FiniteInv'
    <3>1. {q \in Run : row'[q] # "none"} = {q \in Run : row[q] # "none"}
      BY <2>c
    <3> QED
      BY <3>1 DEF FiniteInv
  <2> QED
    BY <2>1, <2>2, <2>3, <2>4, <2>5, <2>6, <2>7, <2>8 DEF ChatInv
<1>22. ASSUME Started PROVE ChatInv'
  <2>1. ReadingInv' /\ CompletedInv' /\ PairsInv' /\ BusyInv' /\ ReaderInv' /\
       FiniteInv'
    BY <1>22 DEF Started, ReadingInv, Ending, CompletedInv, Completed, Told,
       PairsInv, BusyInv, Holds, Doing, ReaderInv, Over, FiniteInv
  <2>2. TypeOK'
    BY <1>22 DEF Started, TypeOK, ItemType, Does
  <2>3. AgendaInv'
    BY <1>22 DEF Started, TypeOK, ItemType, Does, AgendaInv, ItemInv, Opens,
       Ends, Finishes, Commits, Told, Ending
  <2>4. RunInv'
    BY <1>22 DEF Started, TypeOK, ItemType, Does, RunInv, Told, Over
  <2> QED
    BY <2>1, <2>2, <2>3, <2>4 DEF ChatInv
<1>23. ASSUME NEW u \in Reader, Subscribe(u) PROVE ChatInv'
  <2>d. /\ seen[u] \in Nat /\ Len(events[Watched[u]]) \in Nat
        /\ seen[u] <= Len(events[Watched[u]])
        /\ \A i \in DOMAIN pend[u] : pend[u][i] = seen[u] + i
        /\ seen[u] + Len(pend[u]) <= Len(events[Watched[u]])
    BY DEF ReaderInv, TypeOK
  <2>b. /\ mode'[u] \in {"off", "live", "finished", "expired"} /\ pend'[u] \in Seq(Nat)
        /\ \A i \in DOMAIN pend'[u] : pend'[u][i] = seen[u] + i
        /\ seen[u] + Len(pend'[u]) <= Len(events[Watched[u]])
        /\ mode'[u] = "finished" => /\ Over(Watched[u])
                                    /\ seen[u] = Len(events[Watched[u]])
    <3>1. CASE Expired(u)
      BY <1>23, <3>1, <2>d DEF Subscribe, TypeOK
    <3>2. CASE ~ Expired(u)
      <4>1. /\ After(u) \in Seq(Nat) /\ Len(After(u)) = Len(events[Watched[u]]) - seen[u]
            /\ \A i \in DOMAIN After(u) : After(u)[i] = seen[u] + i
        BY <3>2, <2>d, AfterIs
      <4>2. mode'[u] = "live" /\ pend'[u] = After(u)
        BY <1>23, <3>2 DEF Subscribe, TypeOK
      <4> QED
        BY <2>d, <4>1, <4>2, SMTT(60)
    <3> QED
      BY <3>1, <3>2
  <2>c. /\ \E m : mode' = [mode EXCEPT ![u] = m]
        /\ \E p : pend' = [pend EXCEPT ![u] = p]
        /\ UNCHANGED <<starts, service, agenda, durable, sessions, known, events, said, task,
                       threads, stop, seen>>
    BY <1>23 DEF Subscribe
  <2>1. AgendaInv' /\ ReadingInv' /\ RunInv' /\ CompletedInv' /\ PairsInv' /\
       BusyInv' /\ FiniteInv'
    BY <1>23, <2>c DEF Subscribe, Idle, AgendaInv, ItemInv, Opens, Ends,
       Finishes, Commits, Told, Ending, ReadingInv, RunInv, Over, CompletedInv,
       Completed, PairsInv, BusyInv, Holds, Doing, FiniteInv
  <2>2. TypeOK'
    <3>1. mode' \in [Reader -> {"off", "live", "finished", "expired"}]
          /\ pend' \in [Reader -> Seq(Nat)]
      BY <2>b, <2>c DEF TypeOK
    <3> QED
      BY <2>c, <3>1 DEF TypeOK
  <2>3. ReaderInv'
    <3> SUFFICES ASSUME NEW v \in Reader
                 PROVE  /\ \A i \in DOMAIN pend'[v] : pend'[v][i] = seen[v] + i
                        /\ seen[v] + Len(pend'[v]) <= Len(events[Watched[v]])
                        /\ mode'[v] = "finished" => /\ Over(Watched[v])
                                                    /\ seen[v] = Len(events[Watched[v]])
      BY <2>c DEF ReaderInv, Over
    <3>1. CASE v # u
      BY <2>c, <3>1 DEF ReaderInv, TypeOK
    <3>2. CASE v = u
      BY <2>b, <2>c, <3>2
    <3> QED
      BY <3>1, <3>2
  <2> QED
    BY <2>1, <2>2, <2>3 DEF ChatInv
<1>24. ASSUME NEW u \in Reader, Send(u) PROVE ChatInv'
  <2>m. pend[u] \in Seq(Nat) /\ pend[u] # <<>> /\ seen[u] \in Nat
    BY <1>24 DEF Send, TypeOK
  <2>n. PICK p \in Seq(Nat) : p = pend[u]
    BY <2>m
  <2>p. p # <<>> /\ \A i \in DOMAIN p : p[i] = seen[u] + i
    BY <2>m, <2>n DEF ReaderInv
  <2>q. /\ Head(p) = seen[u] + 1 /\ Head(p) \in Nat
        /\ Tail(p) \in Seq(Nat) /\ Len(Tail(p)) = Len(p) - 1 /\ Len(p) \in Nat
        /\ \A i \in DOMAIN Tail(p) : Tail(p)[i] = (seen[u] + 1) + i
    BY <2>m, <2>p, TailOfNumbers
  <2>o. PICK t \in Seq(Nat) : t = Tail(p)
    BY <2>q
  <2>a. /\ Head(p) = seen[u] + 1 /\ Head(p) \in Nat
        /\ Len(t) = Len(p) - 1 /\ Len(p) \in Nat
    BY <2>o, <2>q
  <2>b. \A i \in DOMAIN t : t[i] = (seen[u] + 1) + i
    BY <2>o, <2>q
  <2>c. /\ seen' = [seen EXCEPT ![u] = Head(p)] /\ pend' = [pend EXCEPT ![u] = t]
        /\ mode[u] = "live"
        /\ UNCHANGED <<starts, service, agenda, durable, sessions, known, events, said, task,
                       threads, stop, mode>>
    BY <1>24, <2>n, <2>o DEF Send
  <2>d. seen[u] + Len(p) <= Len(events[Watched[u]]) /\ Len(events[Watched[u]]) \in Nat
    BY <2>n DEF ReaderInv, TypeOK
  <2>1. AgendaInv' /\ ReadingInv' /\ RunInv' /\ CompletedInv' /\ PairsInv' /\
       BusyInv' /\ FiniteInv'
    BY <1>24, <2>c DEF Send, Idle, AgendaInv, ItemInv, Opens, Ends, Finishes,
       Commits, Told, Ending, ReadingInv, RunInv, Over, CompletedInv,
       Completed, PairsInv, BusyInv, Holds, Doing, FiniteInv
  <2>2. TypeOK'
    BY <2>a, <2>c DEF TypeOK
  <2>3. ReaderInv'
    <3> SUFFICES ASSUME NEW v \in Reader
                 PROVE  /\ \A i \in DOMAIN pend'[v] : pend'[v][i] = seen'[v] + i
                        /\ seen'[v] + Len(pend'[v]) <= Len(events[Watched[v]])
                        /\ mode[v] = "finished" => /\ Over(Watched[v])
                                                   /\ seen'[v] = Len(events[Watched[v]])
      BY <2>c DEF ReaderInv, Over
    <3>1. CASE v # u
      BY <2>c, <3>1 DEF ReaderInv, TypeOK
    <3>2. CASE v = u
      <4>1. pend'[u] = t /\ seen'[u] = seen[u] + 1
        <5>1. seen \in [Reader -> Nat] /\ pend \in [Reader -> Seq(Nat)]
          BY DEF TypeOK
        <5>2. seen'[u] = Head(p) /\ pend'[u] = t
          BY <2>c, <5>1
        <5> QED
          BY <2>a, <5>2
      <4>2. (seen[u] + 1) + Len(t) <= Len(events[Watched[u]])
        <5>1. Len(t) = Len(p) - 1 /\ Len(p) \in Nat
          BY <2>a
        <5> QED
          BY <2>d, <2>m, <5>1
      <4>3. mode[u] # "finished"
        BY <2>c
      <4> QED
        BY <2>b, <3>2, <4>1, <4>2, <4>3, Zenon
    <3> QED
      BY <3>1, <3>2
  <2> QED
    BY <2>1, <2>2, <2>3 DEF ChatInv
<1>25. ASSUME NEW u \in Reader, Check(u) PROVE ChatInv'
  <2>d. /\ seen[u] \in Nat /\ Len(events[Watched[u]]) \in Nat
        /\ seen[u] <= Len(events[Watched[u]])
        /\ \A i \in DOMAIN pend[u] : pend[u][i] = seen[u] + i
        /\ seen[u] + Len(pend[u]) <= Len(events[Watched[u]])
    BY DEF ReaderInv, TypeOK
  <2>b. /\ mode'[u] \in {"off", "live", "finished", "expired"} /\ pend'[u] \in Seq(Nat)
        /\ \A i \in DOMAIN pend'[u] : pend'[u][i] = seen[u] + i
        /\ seen[u] + Len(pend'[u]) <= Len(events[Watched[u]])
        /\ mode'[u] = "finished" => /\ Over(Watched[u])
                                    /\ seen[u] = Len(events[Watched[u]])
    <3>1. CASE Over(Watched[u]) /\ seen[u] >= Len(events[Watched[u]])
               /\ mode' = [mode EXCEPT ![u] = "finished"] /\ UNCHANGED pend
      BY <3>1, <2>d DEF TypeOK
    <3>2. CASE mode' = [mode EXCEPT ![u] = "expired"] /\ UNCHANGED pend
      BY <3>2, <2>d DEF TypeOK
    <3>3. CASE ~ Expired(u) /\ pend' = [pend EXCEPT ![u] = After(u)] /\ UNCHANGED mode
      <4>1. /\ After(u) \in Seq(Nat) /\ Len(After(u)) = Len(events[Watched[u]]) - seen[u]
            /\ \A i \in DOMAIN After(u) : After(u)[i] = seen[u] + i
        BY <3>3, <2>d, AfterIs
      <4>2. mode[u] = "live"
        BY <1>25 DEF Check
      <4>3. mode'[u] = "live" /\ pend'[u] = After(u)
        BY <3>3, <4>2 DEF TypeOK
      <4> QED
        BY <2>d, <4>1, <4>3, SMTT(60)
    <3> QED
      BY <1>25, <3>1, <3>2, <3>3 DEF Check
  <2>c. /\ \E m : mode' = [mode EXCEPT ![u] = m]
        /\ \E p : pend' = [pend EXCEPT ![u] = p]
        /\ UNCHANGED <<starts, service, agenda, durable, sessions, known, events, said, task,
                       threads, stop, seen>>
    <3>1. mode = [mode EXCEPT ![u] = mode[u]] /\ pend = [pend EXCEPT ![u] = pend[u]]
      BY DEF TypeOK
    <3> QED
      BY <1>25, <3>1 DEF Check
  <2>1. AgendaInv' /\ ReadingInv' /\ RunInv' /\ CompletedInv' /\ PairsInv' /\
       BusyInv' /\ FiniteInv'
    BY <1>25, <2>c DEF Check, Idle, AgendaInv, ItemInv, Opens, Ends, Finishes,
       Commits, Told, Ending, ReadingInv, RunInv, Over, CompletedInv,
       Completed, PairsInv, BusyInv, Holds, Doing, FiniteInv
  <2>2. TypeOK'
    <3>1. mode' \in [Reader -> {"off", "live", "finished", "expired"}]
          /\ pend' \in [Reader -> Seq(Nat)]
      BY <2>b, <2>c DEF TypeOK
    <3> QED
      BY <2>c, <3>1 DEF TypeOK
  <2>3. ReaderInv'
    <3> SUFFICES ASSUME NEW v \in Reader
                 PROVE  /\ \A i \in DOMAIN pend'[v] : pend'[v][i] = seen[v] + i
                        /\ seen[v] + Len(pend'[v]) <= Len(events[Watched[v]])
                        /\ mode'[v] = "finished" => /\ Over(Watched[v])
                                                    /\ seen[v] = Len(events[Watched[v]])
      BY <2>c DEF ReaderInv, Over
    <3>1. CASE v # u
      BY <2>c, <3>1 DEF ReaderInv, TypeOK
    <3>2. CASE v = u
      BY <2>b, <2>c, <3>2
    <3> QED
      BY <3>1, <3>2
  <2> QED
    BY <2>1, <2>2, <2>3 DEF ChatInv
<1>26. ASSUME NEW u \in Reader, Disconnect(u) PROVE ChatInv'
  <2>d. /\ seen[u] \in Nat /\ Len(events[Watched[u]]) \in Nat
        /\ seen[u] <= Len(events[Watched[u]])
        /\ \A i \in DOMAIN pend[u] : pend[u][i] = seen[u] + i
        /\ seen[u] + Len(pend[u]) <= Len(events[Watched[u]])
    BY DEF ReaderInv, TypeOK
  <2>b. /\ mode'[u] \in {"off", "live", "finished", "expired"} /\ pend'[u] \in Seq(Nat)
        /\ \A i \in DOMAIN pend'[u] : pend'[u][i] = seen[u] + i
        /\ seen[u] + Len(pend'[u]) <= Len(events[Watched[u]])
        /\ mode'[u] = "finished" => /\ Over(Watched[u])
                                    /\ seen[u] = Len(events[Watched[u]])
    <3>1. mode'[u] = "off" /\ pend'[u] = <<>>
      BY <1>26 DEF Disconnect, TypeOK
    <3> QED
      BY <2>d, <3>1
  <2>c. /\ \E m : mode' = [mode EXCEPT ![u] = m]
        /\ \E p : pend' = [pend EXCEPT ![u] = p]
        /\ UNCHANGED <<starts, service, agenda, durable, sessions, known, events, said, task,
                       threads, stop, seen>>
    BY <1>26 DEF Disconnect
  <2>1. AgendaInv' /\ ReadingInv' /\ RunInv' /\ CompletedInv' /\ PairsInv' /\
       BusyInv' /\ FiniteInv'
    BY <1>26, <2>c DEF Disconnect, AgendaInv, ItemInv, Opens, Ends, Finishes,
       Commits, Told, Ending, ReadingInv, RunInv, Over, CompletedInv,
       Completed, PairsInv, BusyInv, Holds, Doing, FiniteInv
  <2>2. TypeOK'
    <3>1. mode' \in [Reader -> {"off", "live", "finished", "expired"}]
          /\ pend' \in [Reader -> Seq(Nat)]
      BY <2>b, <2>c DEF TypeOK
    <3> QED
      BY <2>c, <3>1 DEF TypeOK
  <2>3. ReaderInv'
    <3> SUFFICES ASSUME NEW v \in Reader
                 PROVE  /\ \A i \in DOMAIN pend'[v] : pend'[v][i] = seen[v] + i
                        /\ seen[v] + Len(pend'[v]) <= Len(events[Watched[v]])
                        /\ mode'[v] = "finished" => /\ Over(Watched[v])
                                                    /\ seen[v] = Len(events[Watched[v]])
      BY <2>c DEF ReaderInv, Over
    <3>1. CASE v # u
      BY <2>c, <3>1 DEF ReaderInv, TypeOK
    <3>2. CASE v = u
      BY <2>b, <2>c, <3>2
    <3> QED
      BY <3>1, <3>2
  <2> QED
    BY <2>1, <2>2, <2>3 DEF ChatInv
<1>27. CASE UNCHANGED vars
  BY <1>27 DEF vars, ChatInv, TypeOK, ItemType, Does, AgendaInv, ItemInv,
     Opens, Ends, Finishes, Commits, Told, Ending, ReadingInv, RunInv, Over,
     CompletedInv, Completed, PairsInv, BusyInv, Holds, Doing, ReaderInv,
     FiniteInv
<1> QED
  BY <1>1, <1>2, <1>3, <1>4, <1>5, <1>6, <1>7, <1>8, <1>9, <1>10, <1>11, <1>12,
     <1>13, <1>14, <1>15, <1>16, <1>17, <1>18, <1>19, <1>20, <1>21, <1>22,
     <1>23, <1>24, <1>25, <1>26, <1>27, EndCases, CancelCases DEF Next,
     Proceed, Read, Quit, Crash

-------------------------------------------------------------------------------
(* The invariant holds at first: nothing has begun.                        *)
LEMMA InitChat == Init => ChatInv
<1> SUFFICES ASSUME Init
             PROVE  ChatInv
  OBVIOUS
<1> USE ChatStreamAssumption
<1>1. agenda = <<>> /\ \A r \in Run : row[r] = "none" /\ events[r] = <<>> /\ task[r] = "none"
  BY DEF Init
<1>2. \A u \in Reader : Watched[u] \in Run /\ pend[u] = <<>> /\ seen[u] = 0 /\ mode[u] = "off"
  BY DEF Init
<1>3. TypeOK
  BY DEF Init, TypeOK
<1>4. AgendaInv /\ ReadingInv
  BY <1>1 DEF AgendaInv, ReadingInv
<1>5. RunInv
  BY <1>1 DEF RunInv, Init, Over
<1>6. CompletedInv
  BY <1>1 DEF CompletedInv, Completed
<1>7. PairsInv
  BY DEF PairsInv, Init
<1>8. BusyInv
  BY <1>1 DEF BusyInv, Init, Holds, Doing
<1>9. ReaderInv
  BY <1>1, <1>2 DEF ReaderInv
<1>10. FiniteInv
  <2>1. {r \in Run : row[r] # "none"} = {}
    BY <1>1
  <2> QED
    BY <2>1, FS_EmptySet DEF FiniteInv
<1> QED
  BY <1>3, <1>4, <1>5, <1>6, <1>7, <1>8, <1>9, <1>10 DEF ChatInv

(* The holder of a busy session is one: the synchronous request or a run.  *)
LEMMA OneHolder == ASSUME BusyInv PROVE BusyExact
<1> SUFFICES ASSUME NEW s \in Session
             PROVE  Cardinality({r \in Run : Of[r] = s /\ Holds(r)}
                                  \cup {x \in {s} : x \in syncing})
                      = (IF s \in busy THEN 1 ELSE 0)
  BY DEF BusyExact
<1> DEFINE H == {r \in Run : Of[r] = s /\ Holds(r)}
           Q == {x \in {s} : x \in syncing}
<1>1. CASE s \notin busy
  <2>1. H \cup Q = {}
    BY <1>1 DEF BusyInv
  <2> QED
    BY <1>1, <2>1, FS_EmptySet
<1>2. CASE s \in busy
  <2>1. \E x : H \cup Q = {x}
    <3>1. CASE s \in syncing
      <4>1. H \cup Q = {s}
        BY <3>1 DEF BusyInv
      <4> QED
        BY <4>1
    <3>2. CASE s \notin syncing
      <4>1. PICK r \in Run : Of[r] = s /\ Holds(r)
        BY <1>2, <3>2 DEF BusyInv
      <4>2. H \cup Q = {r}
        BY <3>2, <4>1 DEF BusyInv
      <4> QED
        BY <4>2
    <3> QED
      BY <3>1, <3>2
  <2> QED
    BY <1>2, <2>1, FS_Singleton
<1> QED
  BY <1>1, <1>2

(* History, sessions and audit agree about the runs.                       *)
THEOREM RunsAlwaysAgree == Spec => []RunsAgree
<1>1. ChatInv => RunsAgree
  <2> SUFFICES ASSUME ChatInv
               PROVE  RunsAgree
    OBVIOUS
  <2>1. CompletedIsCommitted
    <3> SUFFICES ASSUME NEW r \in known, Over(r)
                 PROVE  IF Last(events[r]) = "completed"
                          THEN /\ row[r] = "succeeded" /\ receipt[r] = "succeeded"
                               /\ "cancelling" \notin {events[r][n] : n \in DOMAIN events[r]}
                          ELSE r \notin {pairs[Of[r]][n] : n \in DOMAIN pairs[Of[r]]}
      BY DEF CompletedIsCommitted
    <3>1. r \in Run /\ Of[r] \in Session
      BY ChatStreamAssumption DEF ChatInv, TypeOK
    <3>2. Last(events[r]) = "completed" <=> Completed(r)
      BY DEF Completed, Over
    <3>3. CASE Completed(r)
      BY <3>1, <3>2, <3>3 DEF ChatInv, CompletedInv, Told
    <3>4. CASE ~ Completed(r)
      BY <3>1, <3>2, <3>4 DEF ChatInv, PairsInv
    <3> QED
      BY <3>3, <3>4
  <2>2. BusyExact
    BY OneHolder DEF ChatInv
  <2>3. RunningIsLive
    BY DEF ChatInv, RunInv, RunningIsLive
  <2> QED
    BY <2>1, <2>2, <2>3 DEF RunsAgree
<1> QED
  BY InitChat, ChatStep, <1>1, PTL DEF Spec

-------------------------------------------------------------------------------
OutcomesStay ==
  \A r \in Run :
    /\ row[r] \notin {"none", "running"} => row'[r] = row[r]
    /\ receipt[r] \notin {"none", "pending"} => receipt'[r] = receipt[r]

(* No step replaces a status of a row or an outcome of a receipt.          *)
LEMMA OutcomeStep == ChatInv /\ [Next]_vars => OutcomesStay
<1> SUFFICES ASSUME TypeOK, AgendaInv, ReadingInv, RunInv, [Next]_vars
             PROVE  OutcomesStay
  BY DEF ChatInv
<1> USE DEF durable
<1>1. ASSUME NEW s \in Session,
             OpenSession(s) \/ TeardownSession(s) \/ BeginSync(s) \/ EndSync(s)
      PROVE  OutcomesStay
  BY <1>1 DEF OpenSession, TeardownSession, BeginSync, EndSync, OutcomesStay
<1>2. ASSUME NEW r \in Run,
             Refuse(r) \/ Produce(r) \/ Put(r) \/ GiveUp(r) \/ ReceiveChunk(r)
               \/ Commit(r) \/ Tell(r) \/ StopTask(r)
      PROVE  OutcomesStay
  BY <1>2 DEF Refuse, Produce, Put, GiveUp, ReceiveChunk, Commit, Tell, StopTask, OutcomesStay
<1>3. ASSUME NEW u \in Reader, Subscribe(u) \/ Send(u) \/ Check(u) \/ Disconnect(u)
      PROVE  OutcomesStay
  BY <1>3 DEF Subscribe, Send, Check, Disconnect, OutcomesStay
<1>4. ASSUME NEW r \in Run, Begin(r)
      PROVE  OutcomesStay
  BY <1>4 DEF Begin, OutcomesStay, TypeOK
<1>5. ASSUME NEW r \in Run, Open(r)
      PROVE  OutcomesStay
  <2>1. agenda # <<>> => 1 \in DOMAIN agenda /\ Head(agenda) = agenda[1]
    BY DEF TypeOK
  <2>2. row[r] = "none"
    BY <1>5, <2>1 DEF Open, Doing, AgendaInv, ItemInv, Opens
  <2> QED
    BY <1>5, <2>2 DEF Open, OutcomesStay, TypeOK
<1>6. ASSUME NEW r \in Run,
             ReceiveFailure(r) \/ TimeOut(r) \/ Interrupt(r) \/ ReceiveEnd(r)
      PROVE  OutcomesStay
  <2>1. PICK status, outcome, does, what : EndsRun(r, status, outcome, does, what)
    BY <1>6, EndCases
  <2> QED
    BY <2>1 DEF EndsRun, sessions, readers, OutcomesStay, TypeOK
<1>7. ASSUME NEW r \in Run, FinalizeReceipt(r)
      PROVE  OutcomesStay
  BY <1>7 DEF FinalizeReceipt, OutcomesStay, TypeOK
<1>8. ASSUME NEW r \in Run, Cancel(r) \/ ShutdownRun(r)
      PROVE  OutcomesStay
  BY <1>8 DEF Cancel, ShutdownRun, Cancelling, OutcomesStay, TypeOK
<1>9. CASE Shutdown \/ ShutdownDone \/ Quit \/ Crash \/ Started
  BY <1>9 DEF Shutdown, ShutdownDone, Quit, Crash, Gone, Started, OutcomesStay
<1>10. CASE Start
  BY <1>10 DEF Start, OutcomesStay, TypeOK
<1>11. CASE UNCHANGED vars
  BY <1>11 DEF vars, OutcomesStay
<1> QED
  BY <1>1, <1>2, <1>3, <1>4, <1>5, <1>6, <1>7, <1>8, <1>9, <1>10, <1>11 DEF Next, Proceed, Read

StreamsFollow ==
  \A u \in Reader :
    /\ seen'[u] \in {0, seen[u], seen[u] + 1}
    /\ mode'[u] = "finished" => Over(Watched[u]) /\ seen[u] = Len(events[Watched[u]])

(* No step sends a client an event that is not its next, or ends a stream  *)
(* before the run's last event.                                            *)
LEMMA StreamStep == ChatInv /\ [Next]_vars => StreamsFollow
<1> SUFFICES ASSUME TypeOK, ReaderInv, [Next]_vars
             PROVE  StreamsFollow
  BY DEF ChatInv
<1> USE DEF readers
<1>1. ASSUME UNCHANGED readers
      PROVE  StreamsFollow
  BY <1>1 DEF StreamsFollow, ReaderInv
<1>2. ASSUME NEW s \in Session,
             OpenSession(s) \/ TeardownSession(s) \/ BeginSync(s) \/ EndSync(s)
      PROVE  UNCHANGED readers
  BY <1>2 DEF OpenSession, TeardownSession, BeginSync, EndSync
<1>3. ASSUME NEW r \in Run,
             \/ Refuse(r) \/ Begin(r) \/ Proceed(r) \/ Produce(r) \/ Put(r) \/ GiveUp(r)
             \/ Read(r) \/ Cancel(r)
      PROVE  UNCHANGED readers
  <2>1. CASE Refuse(r) \/ Begin(r) \/ Produce(r) \/ Put(r) \/ GiveUp(r) \/ Cancel(r)
    BY <2>1 DEF Refuse, Begin, Produce, Put, GiveUp, Cancel
  <2>2. CASE Proceed(r)
    BY <2>2 DEF Proceed, Open, FinalizeReceipt, Commit, Tell, StopTask, ShutdownRun
  <2>3. CASE Read(r)
    BY <2>3 DEF Read, ReceiveChunk, ReceiveFailure, ReceiveEnd, TimeOut, Interrupt, Fail
  <2> QED
    BY <1>3, <2>1, <2>2, <2>3
<1>4. CASE Shutdown \/ ShutdownDone \/ Start \/ Started \/ UNCHANGED vars
  <2>1. UNCHANGED readers
    BY <1>4 DEF Shutdown, ShutdownDone, Start, Started, vars
  <2> QED
    BY <1>1, <2>1
<1>5. CASE Quit \/ Crash
  BY <1>5 DEF Quit, Crash, Gone, StreamsFollow
<1>6. ASSUME NEW u \in Reader, Send(u)
      PROVE  StreamsFollow
  <2>1. pend[u] \in Seq(Nat) /\ pend[u] # <<>>
    BY <1>6 DEF Send, TypeOK
  <2>2. 1 \in DOMAIN pend[u] /\ Head(pend[u]) = pend[u][1]
    BY <2>1
  <2>3. Head(pend[u]) = seen[u] + 1
    BY <2>2 DEF ReaderInv
  <2>4. seen' = [seen EXCEPT ![u] = Head(pend[u])] /\ mode' = mode
    BY <1>6 DEF Send
  <2>5. seen \in [Reader -> Nat]
    BY DEF TypeOK
  <2>6. \A v \in Reader : seen'[v] \in {seen[v], seen[v] + 1}
    BY <2>3, <2>4, <2>5
  <2> QED
    BY <2>4, <2>6 DEF StreamsFollow, ReaderInv
<1>7. ASSUME NEW u \in Reader, Subscribe(u) \/ Disconnect(u)
      PROVE  StreamsFollow
  <2>1. seen' = seen /\ \A v \in Reader : mode'[v] = "finished" => mode[v] = "finished"
    BY <1>7 DEF Subscribe, Disconnect, TypeOK
  <2> QED
    BY <2>1 DEF StreamsFollow, ReaderInv
<1>8. ASSUME NEW u \in Reader, Check(u)
      PROVE  StreamsFollow
  <2>1. seen[u] \in Nat /\ Len(events[Watched[u]]) \in Nat
        /\ seen[u] <= Len(events[Watched[u]])
    BY ChatStreamAssumption DEF TypeOK, ReaderInv
  <2>2. /\ seen' = seen
        /\ \A v \in Reader : mode'[v] = "finished" =>
             \/ mode[v] = "finished"
             \/ v = u /\ Over(Watched[u]) /\ seen[u] >= Len(events[Watched[u]])
    BY <1>8 DEF Check, TypeOK
  <2>3. seen[u] >= Len(events[Watched[u]]) => seen[u] = Len(events[Watched[u]])
    BY <2>1
  <2> QED
    BY <2>2, <2>3 DEF StreamsFollow, ReaderInv
<1> QED
  BY <1>1, <1>2, <1>3, <1>4, <1>5, <1>6, <1>7, <1>8 DEF Next

(* What was recorded in the audit, or sent to a client, is not taken back. *)
THEOREM NothingEverTakenBack == Spec => NothingIsTakenBack
<1>1. ChatInv /\ [Next]_vars =>
        [\A r \in Run :
           /\ row[r] \notin {"none", "running"} => row'[r] = row[r]
           /\ receipt[r] \notin {"none", "pending"} => receipt'[r] = receipt[r]]_durable
  BY OutcomeStep DEF OutcomesStay
<1>2. ChatInv /\ [Next]_vars =>
        [\A u \in Reader :
           /\ seen'[u] \in {0, seen[u], seen[u] + 1}
           /\ mode'[u] = "finished" =>
                Over(Watched[u]) /\ seen[u] = Len(events[Watched[u]])]_readers
  BY StreamStep DEF StreamsFollow
<1>3. Spec => FirstOutcomeStays
  BY InitChat, ChatStep, <1>1, PTL DEF Spec, FirstOutcomeStays
<1>4. Spec => StreamsExact
  BY InitChat, ChatStep, <1>2, PTL DEF Spec, StreamsExact
<1> QED
  BY <1>3, <1>4 DEF NothingIsTakenBack
===============================================================================
