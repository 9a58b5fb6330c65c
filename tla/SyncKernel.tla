------------------------------- MODULE SyncKernel -------------------------------
(***************************************************************************)
(* The staged synchronization kernel: one execute call that takes a request*)
(* through its stages, each of which an adapter answers, and returns what  *)
(* became of it.  A cancellation may be requested at any time; adapters    *)
(* and the listener of the progress events may fail whenever they are      *)
(* called; whatever fails before the commit is recovered from.             *)
(* MAX_EVENTS and MAX_ITEMS are far beyond what one execution reaches.     *)
(***************************************************************************)
EXTENDS Naturals, Sequences, FiniteSets

CONSTANTS
  Options,   \* what may be chosen at a decision
  Requests   \* [dryRun, entries, decisions, replayed]: what is executed, with the
             \* size of its plan; replayed is a set of [decision, option, plan]

VARIABLES
  request,
  stage, turn,    \* the stage and the number of its step
  wanted,       \* a cancellation was requested
  planned,      \* a plan was created
  selected,     \* decisions so far: [decision, option, from]
  staged,       \* the application returned its staged state
  attempted,    \* application_attempted
  there,        \* external: unpublished state exists
  published,    \* external: the new revision is the current one
  events,       \* recorded: [stage, phase]
  error,        \* "none", or "stage" once something failed
  byUser,       \* the failure is a cancellation
  recovery,     \* "none", "failed", "incomplete" or "complete"
  result        \* with outcome "none" until execute returns
vars == <<request, stage, turn, wanted, planned, selected, staged, attempted, there, published,
          events, error, byUser, recovery, result>>

Order == <<"SNAPSHOT", "COMPARISON", "PLANNING", "DECISION", "APPLICATION", "COMMIT">>
Steps(s) ==
  CASE s = "COMMIT" -> <<"started", "check", "call", "check", "commit", "completed">>
    [] OTHER -> <<"started", "check", "call", "check", "completed">>

Step == Steps(stage)[turn]
Running == error = "none" /\ result.outcome = "none"
Declared == 1..request.decisions

Init ==
  /\ request \in Requests
  /\ stage = "SNAPSHOT" /\ turn = 1
  /\ wanted = FALSE /\ planned = FALSE /\ selected = <<>>
  /\ staged = FALSE /\ attempted = FALSE /\ there = FALSE /\ published = FALSE
  /\ events = <<>> /\ error = "none" /\ byUser = FALSE /\ recovery = "none" /\ result = [outcome |-> "none"]

-------------------------------------------------------------------------------
(* What is left alone by the steps below.                                  *)
Data == <<request, wanted, planned, selected, staged, attempted, there, published>>

Failing(asked) == error' = "stage" /\ byUser' = asked /\ UNCHANGED <<stage, turn>>
Onward == turn' = turn + 1 /\ UNCHANGED <<stage, error, byUser>>

Recorded(phase) == events' = Append(events, [stage |-> stage, phase |-> phase])

Outcome(kind) ==
  [outcome |-> kind, planned |-> planned, stage |-> stage, selected |-> selected, published |-> kind = "COMMITTED",
   recovery |-> recovery, error |-> error, events |-> events]

(* emit; the listener may take the event, fail, or report a cancellation   *)
(* (_ApplicationEventStage).  The event is recorded in any case.           *)
Emit ==
  /\ Running /\ Step = "started"
  /\ Recorded("started")
  /\ \/ /\ IF stage = "DECISION" /\ Declared = {} /\ request.replayed = {} THEN turn' = 5 ELSE turn' = turn + 1
        /\ UNCHANGED <<stage, error, byUser>>
     \/ Failing(FALSE)
     \/ wanted /\ Failing(TRUE)
  /\ UNCHANGED <<Data, recovery, result>>

(* checkpoint; the port itself may fail (_ApplicationCancellationStage).   *)
(* Before its first turn _resolve_decisions looks for decisions that are   *)
(* not of this plan; after its last it is done.                            *)
Unknown == {r \in request.replayed : r.decision \notin Declared}

Check ==
  /\ Running /\ Step = "check"
  /\ IF stage = "DECISION" /\ turn = 2 /\ selected = <<>> /\ Unknown # {} THEN Failing(FALSE)
     ELSE IF wanted THEN Failing(TRUE)
     ELSE \/ Failing(FALSE)
          \/ /\ IF stage = "DECISION" /\ turn = 4 /\ Len(selected) < request.decisions
                  THEN turn' = 2 ELSE turn' = turn + 1
             /\ UNCHANGED <<stage, error, byUser>>
  /\ UNCHANGED <<Data, events, recovery, result>>

(* The stages before the decisions: the adapter answers what was asked     *)
(* for, something else, or nothing.                                        *)
Capture ==
  /\ Running /\ Step = "call" /\ stage \in {"SNAPSHOT", "COMPARISON", "PLANNING"}
  /\ \/ planned' = (stage = "PLANNING") /\ Onward
     \/ UNCHANGED planned
        /\ Failing(FALSE)
  /\ UNCHANGED <<request, wanted, selected, staged, attempted, there, published, events, recovery, result>>

(* One turn of _resolve_decisions.  A decision that was replayed has to be *)
(* one of this plan; the others are asked for (_ApplicationDecisionStage). *)
Decide ==
  /\ Running /\ Step = "call" /\ stage = "DECISION"
  /\ LET d == Len(selected) + 1
         replays == {r \in request.replayed : r.decision = d}
         good == {r \in replays : r.option \in Options /\ r.plan = "this"}
         chosen == IF replays = {} THEN Options ELSE {r.option : r \in good}
     IN \/ \E o \in chosen : selected' = Append(selected, [decision |-> d, option |-> o]) /\ Onward
        \/ /\ UNCHANGED selected
           /\ \/ replays # good /\ Failing(FALSE)
              \/ replays = {} /\ Failing(FALSE)
              \/ replays = {} /\ Failing(TRUE)
  /\ UNCHANGED <<request, wanted, planned, staged, attempted, there, published, events, recovery, result>>

(* _application.stage may fail with half of its work done.                 *)
Stage ==
  /\ Running /\ Step = "call" /\ stage = "APPLICATION"
  /\ attempted' = TRUE
  /\ \/ staged' = TRUE /\ there' = TRUE /\ Onward
     \/ staged' = TRUE /\ there' = TRUE /\ Failing(FALSE)
     \/ UNCHANGED staged /\ there' \in BOOLEAN /\ Failing(FALSE)
  /\ UNCHANGED <<request, wanted, planned, selected, published, events, recovery, result>>

Prepare ==
  /\ Running /\ Step = "call" /\ stage = "COMMIT"
  /\ Onward \/ Failing(FALSE)
  /\ UNCHANGED <<Data, events, recovery, result>>

(* _commit.commit raises only while it has not published.                  *)
Commit ==
  /\ Running /\ Step = "commit"
  /\ \/ published' = TRUE /\ there' = FALSE /\ Onward
     \/ UNCHANGED <<published, there>> /\ Failing(FALSE)
  /\ UNCHANGED <<request, wanted, planned, selected, staged, attempted, events, recovery, result>>

(* The last event of a stage.  Of the commit it is sent whatever becomes   *)
(* of it; then, and after planning when nothing is to be done, execute     *)
(* returns.                                                                *)
Complete ==
  LET done == Append(events, [stage |-> stage, phase |-> "completed"])
      returns == CASE stage = "COMMIT" -> "COMMITTED"
                   [] stage = "PLANNING" /\ request.dryRun -> "DRY_RUN"
                   [] stage = "PLANNING" /\ ~ request.entries /\ Declared = {} -> "NO_CHANGE"
                   [] OTHER -> "none"
  IN
  /\ Running /\ Step = "completed"
  /\ events' = done
  /\ \/ /\ returns = "none"
        /\ stage' = Order[(CHOOSE k \in DOMAIN Order : Order[k] = stage) + 1]
        /\ turn' = 1 /\ UNCHANGED <<error, byUser, result>>
     \/ /\ returns # "none"
        /\ result' = [Outcome(returns) EXCEPT !.events = done]
        /\ UNCHANGED <<stage, turn, error, byUser>>
     \/ /\ stage # "COMMIT" /\ UNCHANGED result
        /\ \/ Failing(FALSE)
           \/ wanted /\ Failing(TRUE)
  /\ UNCHANGED <<Data, recovery>>

-------------------------------------------------------------------------------
(* The except clause with _recover: the failure and the recovery are       *)
(* events of their own, which nobody has to hear.                          *)
Recover ==
  /\ error # "none" /\ result.outcome = "none" /\ recovery = "none"
  /\ \/ /\ recovery' = "failed" /\ UNCHANGED there
        /\ events' = events \o <<[stage |-> stage, phase |-> "failed"],
                                 [stage |-> "RECOVERY", phase |-> "started"]>>
     \/ /\ \E kept, removed \in BOOLEAN :
             /\ there' = (there /\ ~ removed)
             /\ recovery' = IF ~ kept \/ (attempted /\ ~ removed) THEN "incomplete" ELSE "complete"
        /\ events' = events \o <<[stage |-> stage, phase |-> "failed"],
                                 [stage |-> "RECOVERY", phase |-> "started"],
                                 [stage |-> "RECOVERY", phase |-> "completed"]>>
  /\ UNCHANGED <<request, stage, turn, wanted, planned, selected, staged, attempted, published,
                 error, byUser, result>>

ErrorOnly == error  \* one possible bug: what the recovery left is not told

FinalCode ==
  CASE recovery = "failed" -> "recovery failed"
    [] recovery = "incomplete" -> "recovery incomplete"
    [] OTHER -> error

(* Mutant: a failure of the recovery itself is not caught.                 *)
GiveRecovered ==
  /\ error # "none" /\ recovery \notin {"none", "failed"} /\ result.outcome = "none"
  /\ result' = [Outcome(IF byUser THEN "CANCELLED" ELSE "FAILED") EXCEPT !.error = FinalCode]
  /\ UNCHANGED <<Data, stage, turn, events, error, byUser, recovery>>

Give ==
  /\ error # "none" /\ recovery # "none" /\ result.outcome = "none"
  /\ result' = [Outcome(IF byUser THEN "CANCELLED" ELSE "FAILED") EXCEPT !.error = FinalCode]
  /\ UNCHANGED <<Data, stage, turn, events, error, byUser, recovery>>

(* The user's doing.                                                       *)
Ask ==
  /\ ~ wanted /\ result.outcome = "none" /\ wanted' = TRUE
  /\ UNCHANGED <<request, stage, turn, planned, selected, staged, attempted, there, published,
                 events, error, byUser, recovery, result>>

Work == Emit \/ Check \/ Capture \/ Decide \/ Stage \/ Prepare \/ Commit \/ Complete \/ Recover \/ Give
Next == Work \/ Ask

Fairness == WF_vars(Work)
Spec == Init /\ [][Next]_vars /\ Fairness
-------------------------------------------------------------------------------
(* SyncKernelResult.__post_init__                                          *)
WellFormed(r) ==
  /\ \A i \in DOMAIN r.selected : r.selected[i].decision = i /\ i \in Declared /\ r.selected[i].option \in Options
  /\ r.outcome = "COMMITTED" =>
       r.planned /\ r.published /\ Len(r.selected) = request.decisions /\ r.recovery = "none" /\ r.error = "none"
  /\ r.outcome # "COMMITTED" => ~ r.published
  /\ IF r.outcome \in {"CANCELLED", "FAILED"} THEN r.error # "none"
     ELSE r.recovery = "none" /\ r.error = "none"
  /\ r.outcome \in {"DRY_RUN", "NO_CHANGE"} => r.planned /\ r.selected = <<>>
  /\ r.outcome = "NO_CHANGE" => ~ request.entries /\ Declared = {}

(* Committed is what was published, and only that; recovery is never for   *)
(* what was published; unpublished state that stays behind is told; and a  *)
(* decision taken for another plan is never applied (execute).             *)
ResultIsTrue ==
  /\ published => recovery = "none"
  /\ result.outcome # "none" =>
       /\ WellFormed(result)
       /\ (result.outcome = "COMMITTED") = published
       /\ there => result.error \in {"recovery failed", "recovery incomplete"}
       /\ published => \A i \in DOMAIN selected : \A r \in request.replayed : r.decision = i =>
            r.plan = "this" /\ r.option = selected[i].option

(* The events tell the stages in their order, each of them begun once and  *)
(* ended before the next; what failed, be it in telling that it is         *)
(* complete, and the recovery come last (execute's emit, _recover).        *)
EventsTellAll ==
  /\ \A i, j \in DOMAIN events : i # j => events[i] # events[j]
  /\ \A i \in DOMAIN events :
       /\ events[i].phase # "started" => i > 1 /\ \E j \in 1..(i - 1) : events[j] = [stage |-> events[i].stage, phase |-> "started"]
       /\ events[i].phase = "started" /\ i > 1 => events[i - 1].phase # "started"
  /\ result.outcome # "none" /\ recovery # "failed" => events[Len(events)].phase # "started"

(* Every execution returns (execute).                                      *)
KernelReturns == <>(result.outcome # "none")
===============================================================================
