--------------------------- MODULE SidecarSupervisor ---------------------------
(***************************************************************************)
(* SidecarSupervisor of the desktop main process, with the processes that  *)
(* it launches (sidecar-process.ts) and the shutdown of the application    *)
(* that drives its stop (app-shutdown.ts, index.ts).  The main process is  *)
(* one JavaScript thread: a step is what it does between two waits, and    *)
(* timers, exits of processes, answers and requests of the user come in    *)
(* any order between them.                                                 *)
(***************************************************************************)
EXTENDS Naturals, FiniteSets

CONSTANTS
  Proc,             \* processes that may be launched
  None,             \* no process
  MaxRestarts,      \* maxRestarts: automatic launches in the life of the application
  MaxManualRetries  \* maxManualRetries: launches that the user may ask for

VARIABLES
  lifecycle, \* lifecycleState
  current,   \* process that the supervisor serves
  session,   \* process whose session is active
  exposed,   \* hasExposedAuthenticatedSession
  restarts,  \* remainingRestarts
  retries,   \* remainingManualRetries
  stopping,  \* stopping, and stopRequested resolved
  fiber,     \* what start, retryOnce and the restart after an exit wait for; said: the
             \* process has written its frame, or answered the probe
  pending,   \* launched processes that are not served yet
  ending,    \* terminationRequests: what terminateOnce remembers of a process
  failed,    \* failedTerminations
  drain,     \* the running stop: what drainStop waits for
  child,     \* process group of a launch; "left": its leader is gone, "silent": and its
             \* "exit" was emitted
  app,       \* where the shutdown of the application is
  assessed,  \* AppShutdownProgress.jobsPrepared
  busy,      \* sidecars that work on jobs
  late       \* those whose jobs began after it was decided that quitting is safe

supervisor == <<lifecycle, current, session, exposed, restarts, retries, stopping, fiber,
                pending, ending, failed, drain>>
shutdown == <<app, assessed>>
jobs == <<busy, late>>
vars == <<supervisor, child, shutdown, jobs>>

Fibers == {"start", "retry", "restart"}
Wait(at, p, error) == [at |-> at, proc |-> p, error |-> error, said |-> FALSE]
Idle == Wait("none", None, "none")
NoDrain == [at |-> "none", launches |-> {}, procs |-> {}, bad |-> FALSE]
Errors == {"integrity", "incompatible", "timeout", "stopping", "other"}
Structural == {"integrity", "incompatible"}  \* launch errors that no restart follows

Init ==
  /\ lifecycle = "idle" /\ current = None /\ session = None /\ exposed = FALSE
  /\ restarts = MaxRestarts /\ retries = MaxManualRetries /\ stopping = FALSE
  /\ fiber = [f \in Fibers |-> Idle]
  /\ pending = {} /\ failed = {}
  /\ ending = [p \in Proc |-> "none"]
  /\ drain = NoDrain
  /\ child = [p \in Proc |-> "none"]
  /\ app = "running" /\ assessed = FALSE
  /\ busy = {} /\ late = {}

Alive(p) == child[p] \in {"up", "left", "silent"}

(* terminateOnce joins a termination that runs or has succeeded, and asks  *)
(* again for one that has failed.                                          *)
Terminate(ps) ==
  ending' = [p \in Proc |-> IF p \in ps /\ ending[p] = "none" THEN "running" ELSE ending[p]]

Unavailable == lifecycle' = "unavailable" /\ session' = None

(* A launch has come to nothing: another attempt while the budget lasts.   *)
(* Errors of integrity and compatibility are reported without asking       *)
(* whether a stop is under way.                                            *)
Relaunches(f, error) == f # "retry" /\ error \notin Structural /\ restarts > 0 /\ ~ stopping
Relaunch(f, error) ==
  /\ Relaunches(f, error)
  /\ restarts' = restarts - 1
  /\ fiber' = [fiber EXCEPT ![f] = Wait("verify", None, "none")]
  /\ UNCHANGED <<lifecycle, session>>
GiveUp(f, error) ==
  /\ ~ Relaunches(f, error)
  /\ fiber' = [fiber EXCEPT ![f] = Idle]
  /\ IF ~ stopping \/ (f # "retry" /\ error \in Structural)
       THEN Unavailable ELSE UNCHANGED <<lifecycle, session>>
  /\ UNCHANGED restarts
LaunchEnds(f, error) == Relaunch(f, error) \/ GiveUp(f, error)

-------------------------------------------------------------------------------
(* start, when the application is ready.                                   *)
Start ==
  /\ lifecycle = "idle" /\ ~ stopping
  /\ lifecycle' = "starting"
  /\ fiber' = [fiber EXCEPT !["start"] = Wait("verify", None, "none")]
  /\ UNCHANGED <<current, session, exposed, restarts, retries, stopping, pending, ending, failed,
                 drain, child, shutdown, jobs>>

(* The user asks for another launch.                                       *)
Retry ==
  /\ lifecycle = "unavailable" /\ ~ stopping /\ retries > 0 /\ fiber["retry"] = Idle
  /\ retries' = retries - 1
  /\ lifecycle' = "starting"
  /\ fiber' = [fiber EXCEPT !["retry"] = Wait("verify", None, "none")]
  /\ UNCHANGED <<current, session, exposed, restarts, stopping, pending, ending, failed, drain,
                 child, shutdown, jobs>>

(* The payload is verified, then the process is created.  The creation is  *)
(* the one wait of a launch that a stop does not cut short.                *)
Verified(f) ==
  /\ fiber[f].at = "verify"
  /\ fiber' = [fiber EXCEPT ![f].at = "launch"]
  /\ UNCHANGED <<lifecycle, current, session, exposed, restarts, retries, stopping, pending,
                 ending, failed, drain, child, shutdown, jobs>>

LaunchFails(f) ==
  /\ \/ fiber[f].at = "verify" /\ \E error \in {"integrity", "other"} : LaunchEnds(f, error)
     \/ fiber[f].at = "launch" /\ LaunchEnds(f, "other")
  /\ UNCHANGED <<current, exposed, retries, stopping, pending, ending, failed, drain,
                 child, shutdown, jobs>>

Launch(f) ==
  /\ fiber[f].at = "launch"
  /\ \E p \in Proc :
       /\ child[p] = "none" /\ \A q \in Proc : child[q] = "none" => p <= q
       /\ child' = [child EXCEPT ![p] = "up"]
       /\ pending' = pending \cup {p}
       /\ IF stopping
            THEN /\ fiber' = [fiber EXCEPT ![f] = Wait("cleanup", p, "stopping")]
                 /\ Terminate({p})
            ELSE /\ fiber' = [fiber EXCEPT ![f] = Wait("ready", p, "none")]
                 /\ UNCHANGED ending
  /\ UNCHANGED <<lifecycle, current, session, exposed, restarts, retries, stopping, failed, drain,
                 shutdown, jobs>>

(* The readiness frame is accepted: the probe goes out.                    *)
Ready(f) ==
  /\ fiber[f].at = "ready" /\ fiber[f].said
  /\ fiber' = [fiber EXCEPT ![f] = Wait("probe", fiber[f].proc, "none")]
  /\ UNCHANGED <<lifecycle, current, session, exposed, restarts, retries, stopping, pending,
                 ending, failed, drain, child, shutdown, jobs>>

(* No frame or answer in time, a bad one, or an exit first.                *)
CheckFails(f) ==
  LET p == fiber[f].proc IN
  /\ fiber[f].at \in {"ready", "probe"}
  /\ \E error \in {"timeout", "incompatible", "other"} :
       /\ error = "incompatible" => fiber[f].at = "ready" /\ fiber[f].said
       /\ error = "other" => fiber[f].said \/ child[p] # "up"
       /\ fiber' = [fiber EXCEPT ![f] = Wait("cleanup", p, error)]
  /\ Terminate({p})
  /\ UNCHANGED <<lifecycle, current, session, exposed, restarts, retries, stopping, pending,
                 failed, drain, child, shutdown, jobs>>

(* The probe was answered: the process is served, and its exit is listened *)
(* for from now on.                                                        *)
Serve(f) ==
  LET p == fiber[f].proc IN
  /\ fiber[f].at = "probe" /\ fiber[f].said
  /\ current' = p /\ session' = p /\ exposed' = TRUE
  /\ lifecycle' = "ready"
  /\ pending' = pending \ {p}
  /\ fiber' = [fiber EXCEPT ![f] = Idle]
  /\ UNCHANGED <<restarts, retries, stopping, ending, failed, drain, child, shutdown, jobs>>

(* The "exit" of a process is emitted to who listens, once.  handleExit    *)
(* starts the restart, with the termination of what is left of the group.  *)
(* Before Serve nobody does.                                               *)
Exit(p) ==
  /\ child[p] = "left"
  /\ child' = [child EXCEPT ![p] = "silent"]
  /\ IF current = p /\ ~ stopping
       THEN /\ current' = None /\ session' = None
            /\ lifecycle' = "restarting"
            /\ fiber' = [fiber EXCEPT !["restart"] = Wait("reap", p, "none")]
            /\ Terminate({p})
       ELSE UNCHANGED <<current, session, lifecycle, fiber, ending>>
  /\ UNCHANGED <<exposed, restarts, retries, stopping, pending, failed, drain, shutdown, jobs>>

-------------------------------------------------------------------------------
(* The end of a termination, with what goes on in the same turn: the       *)
(* launch that failed (its own error is lost when the termination fails    *)
(* too), or the restart after an exit.                                     *)
CleaningUp(p) == {f \in Fibers : fiber[f].proc = p /\ fiber[f].at = "cleanup"}
Reaping(p) == {f \in Fibers : fiber[f].proc = p /\ fiber[f].at = "reap"}

TerminationSucceeds(p) ==
  /\ ending[p] = "running"
  /\ ending' = [ending EXCEPT ![p] = "done"]
  /\ failed' = failed \ {p}
  /\ child' = [child EXCEPT ![p] = "gone"]
  /\ busy' = busy \ {p}
  /\ pending' = pending \ {fiber[f].proc : f \in CleaningUp(p)}
  /\ \/ \E f \in CleaningUp(p) : LaunchEnds(f, fiber[f].error)
     \/ \E f \in Reaping(p) : LaunchEnds(f, "other")
     \/ /\ CleaningUp(p) \cup Reaping(p) = {}
        /\ UNCHANGED <<fiber, restarts, lifecycle, session>>
  /\ UNCHANGED <<current, exposed, retries, stopping, drain, shutdown, late>>

(* The group survives its signals, or its working directory stays.         *)
TerminationFailsSilently(p) ==  \* one possible bug: the restart that waited gives up unreported
  /\ ending[p] = "running"
  /\ ending' = [ending EXCEPT ![p] = "none"]
  /\ failed' = failed \cup {p}
  /\ drain' = [drain EXCEPT !.bad = @ \/ p \in drain.procs]
  /\ fiber' = [f \in Fibers |-> IF fiber[f].proc = p THEN Idle ELSE fiber[f]]
  /\ pending' = pending \ {p}
  /\ UNCHANGED <<child, busy, restarts, lifecycle, session, current, exposed, retries, stopping,
                 shutdown, late>>

TerminationFails(p) ==
  /\ ending[p] = "running"
  /\ ending' = [ending EXCEPT ![p] = "none"]
  /\ failed' = failed \cup {p}
  /\ \/ UNCHANGED <<child, busy>>
     \/ child' = [child EXCEPT ![p] = "gone"] /\ busy' = busy \ {p}
  /\ drain' = [drain EXCEPT !.bad = @ \/ p \in drain.procs]
  /\ pending' = pending \ {fiber[f].proc : f \in CleaningUp(p)}
  /\ \/ \E f \in CleaningUp(p) : LaunchEnds(f, "other")
     \/ \E f \in Reaping(p) :
          /\ fiber' = [fiber EXCEPT ![f] = Idle]
          /\ IF stopping THEN UNCHANGED <<lifecycle, session>> ELSE Unavailable
          /\ UNCHANGED restarts
     \/ /\ CleaningUp(p) \cup Reaping(p) = {}
        /\ UNCHANGED <<fiber, restarts, lifecycle, session>>
  /\ UNCHANGED <<current, exposed, retries, stopping, shutdown, late>>

-------------------------------------------------------------------------------
(* stop: the session is revoked, and every process that is served, pending *)
(* or left over from a failed termination is terminated.  A launch that    *)
(* waits for its payload, its frame or its probe gives up at once.         *)
Stop ==
  LET procs == pending \cup failed \cup ({current} \ {None})
      started == {f \in Fibers : fiber[f].at \in {"launch", "ready", "probe", "cleanup"}}
  IN
  /\ stopping' = TRUE
  /\ lifecycle' = "stopping"
  /\ current' = None /\ session' = None
  /\ Terminate(procs)
  /\ fiber' = [f \in Fibers |->
                CASE fiber[f].at = "verify" -> Idle
                  [] fiber[f].at \in {"ready", "probe"} ->
                       Wait("cleanup", fiber[f].proc, "stopping")
                  [] OTHER -> fiber[f]]
  /\ drain' = [at |-> "first", launches |-> started, procs |-> procs, bad |-> FALSE]
  /\ UNCHANGED <<exposed, restarts, retries, pending, failed, child>>

(* drainStop waits for the launches and for its own terminations, then for *)
(* every termination that still runs.  No process is pending by then that  *)
(* it did not know: nothing is served any more once stopping is set.       *)
DrainFirstOnly ==  \* one possible bug: terminations that started meanwhile are not awaited
  /\ drain.at = "first"
  /\ \A p \in drain.procs : ending[p] # "running"
  /\ drain' = [drain EXCEPT !.at = "rest", !.procs = {}]
  /\ UNCHANGED <<lifecycle, current, session, exposed, restarts, retries, stopping, fiber, pending,
                 ending, failed, child, shutdown, jobs>>

DrainFirst ==
  /\ drain.at = "first"
  /\ \A f \in drain.launches : fiber[f].at = "none"
  /\ \A p \in drain.procs : ending[p] # "running"
  /\ drain' = [drain EXCEPT !.at = "rest", !.procs = {p \in Proc : ending[p] = "running"}]
  /\ UNCHANGED <<lifecycle, current, session, exposed, restarts, retries, stopping, fiber, pending,
                 ending, failed, child, shutdown, jobs>>

StopSucceeds ==
  /\ drain.at = "rest" /\ \A p \in drain.procs : ending[p] # "running"
  /\ ~ drain.bad /\ failed = {}
  /\ drain' = [NoDrain EXCEPT !.at = "over"]
  /\ lifecycle' = "stopped"
  /\ app' = "exited"
  /\ UNCHANGED <<current, session, exposed, restarts, retries, stopping, fiber, pending, ending,
                 failed, child, assessed, jobs>>

(* A termination failed, or the time is over: the application stays, and   *)
(* quitting may be tried again.  The abandoned drain has no other effect.  *)
StopFails ==
  /\ \/ drain.at = "rest" /\ (\A p \in drain.procs : ending[p] # "running")
        /\ (drain.bad \/ failed # {})
     \/ drain.at \in {"first", "rest"}
  /\ drain' = NoDrain
  /\ Unavailable
  /\ app' = "running"
  /\ UNCHANGED <<current, exposed, restarts, retries, stopping, fiber, pending, ending, failed,
                 child, assessed, jobs>>

-------------------------------------------------------------------------------
(* isExplicitSafeEmpty: no session was ever there that could have admitted *)
(* a job.                                                                  *)
SafeEmpty == ~ exposed /\ session = None /\ lifecycle \in {"idle", "starting", "unavailable"}

(* completeAppShutdown goes on to stopSidecar: the file grants are revoked,*)
(* which takes a while, then the supervisor stops.  The broker of the      *)
(* grants is there once start has returned.                                *)
GoOn ==
  IF lifecycle # "idle" /\ fiber["start"] = Idle
    THEN app' = "revoking" /\ UNCHANGED <<supervisor, child, late>>
    ELSE app' = "stopping" /\ Stop /\ late' = {}

Quit ==
  /\ app = "running"
  /\ IF assessed \/ SafeEmpty
       THEN GoOn
       ELSE app' = "preparing" /\ UNCHANGED <<supervisor, child, late>>
  /\ UNCHANGED <<assessed, busy>>

(* prepare_shutdown: the sidecar of the active session finds that no job   *)
(* is active, and says so.  It goes on admitting jobs.                     *)
AnswersUnsafe ==  \* one possible bug: quitting goes on while jobs run
  /\ app = "preparing" /\ session # None /\ child[session] = "up"
  /\ app' = "answered"
  /\ UNCHANGED <<supervisor, child, assessed, jobs>>

Answers ==
  /\ app = "preparing" /\ session # None /\ child[session] = "up" /\ session \notin busy
  /\ app' = "answered"
  /\ UNCHANGED <<supervisor, child, assessed, jobs>>

Received ==
  /\ app = "answered"
  /\ assessed' = TRUE
  /\ GoOn
  /\ UNCHANGED busy

(* No answer, or not a safe one: the user has it asked for again, with the *)
(* jobs cancelled or not, or stays.                                        *)
Stay ==
  /\ app \in {"preparing", "answered"}
  /\ app' \in {"preparing", "running"}
  /\ late' = {}
  /\ UNCHANGED <<supervisor, child, assessed, busy>>

Revoked ==
  /\ app = "revoking"
  /\ app' = "stopping"
  /\ Stop
  /\ late' = {}
  /\ UNCHANGED <<assessed, busy>>

-------------------------------------------------------------------------------
(* The processes: they report, answer, work on jobs, and may end.  One     *)
(* that is being terminated, or has survived that, is taken to stay.       *)
Speak(f) ==
  /\ fiber[f].at \in {"ready", "probe"} /\ child[fiber[f].proc] = "up" /\ ~ fiber[f].said
  /\ fiber' = [fiber EXCEPT ![f].said = TRUE]
  /\ UNCHANGED <<lifecycle, current, session, exposed, restarts, retries, stopping, pending,
                 ending, failed, drain, child, shutdown, jobs>>

Leave(p) ==
  /\ child[p] = "up" /\ ending[p] = "none" /\ p \in pending \cup {current}
  /\ child' = [child EXCEPT ![p] = "left"]
  /\ busy' = busy \ {p}
  /\ UNCHANGED <<supervisor, shutdown, late>>

StartJob(p) ==
  /\ session = p /\ child[p] = "up" /\ p \notin busy
  /\ busy' = busy \cup {p}
  /\ late' = (IF app \in {"answered", "revoking"} THEN late \cup {p} ELSE late)
  /\ UNCHANGED <<supervisor, child, shutdown>>

EndJob(p) ==
  /\ p \in busy
  /\ busy' = busy \ {p}
  /\ UNCHANGED <<supervisor, child, shutdown, late>>

FiberStep(f) == Verified(f) \/ LaunchFails(f) \/ Launch(f) \/ Ready(f) \/ CheckFails(f) \/ Serve(f)
Settles(p) == TerminationSucceeds(p) \/ TerminationFails(p)
DrainStep == DrainFirst \/ StopSucceeds \/ StopFails

Next ==
  \/ Start \/ Retry \/ Quit \/ Answers \/ Received \/ Stay \/ Revoked \/ DrainStep
  \/ \E f \in Fibers : FiberStep(f) \/ Speak(f)
  \/ \E p \in Proc : Settles(p) \/ Exit(p) \/ Leave(p) \/ StartJob(p) \/ EndJob(p)

Spec == Init /\ [][Next]_vars

-------------------------------------------------------------------------------
TypeOK ==
  /\ lifecycle \in {"idle", "starting", "ready", "restarting", "unavailable", "stopping", "stopped"}
  /\ current \in Proc \cup {None} /\ session \in Proc \cup {None} /\ exposed \in BOOLEAN
  /\ restarts \in 0 .. MaxRestarts /\ retries \in 0 .. MaxManualRetries /\ stopping \in BOOLEAN
  /\ fiber \in [Fibers -> [at : {"none", "verify", "launch", "ready", "probe", "cleanup", "reap"},
                           proc : Proc \cup {None}, error : Errors \cup {"none"},
                           said : BOOLEAN]]
  /\ pending \subseteq Proc /\ failed \subseteq Proc /\ busy \subseteq Proc /\ late \subseteq Proc
  /\ ending \in [Proc -> {"none", "running", "done"}]
  /\ drain \in [at : {"none", "first", "rest", "over"}, launches : SUBSET Fibers,
                procs : SUBSET Proc, bad : BOOLEAN]
  /\ child \in [Proc -> {"none", "up", "left", "silent", "gone"}]
  /\ app \in {"running", "preparing", "answered", "revoking", "stopping", "exited"} /\ assessed \in BOOLEAN

(* The application exits only when no process that it ever launched is     *)
(* left: not one of a launch in flight, of a cleanup after an exit, of a   *)
(* failed termination or of an earlier attempt to quit.                    *)
ExitLeavesNothing ==
  app = "exited" =>
    /\ lifecycle = "stopped"
    /\ \A p \in Proc : ~ Alive(p)
    /\ \A f \in Fibers : fiber[f] = Idle

(* A start, a manual retry, the restart after an exit and a stop never     *)
(* launch side by side, nor beside a served process; launches are bounded  *)
(* for the life of the application; and two processes live only where the  *)
(* termination of the older one has failed.                                *)
Launched == {p \in Proc : child[p] # "none"}
OneSidecar ==
  /\ Cardinality({f \in Fibers : fiber[f] # Idle} \cup ({current} \ {None})) <= 1
  /\ Cardinality({p \in Proc : Alive(p)} \ failed) <= 1
  /\ Cardinality(Launched) <= 1 + MaxRestarts + MaxManualRetries
  /\ session # None => session = current /\ lifecycle = "ready" /\ ending[session] = "none"

(* A stop cuts no job off that was there when quitting was found to be     *)
(* safe, by the sidecar or because no session had ever been served.        *)
OnlyLateJobsAreCut == [][stopping' /\ ~ stopping => busy \subseteq late]_vars

(* A stop cuts no job off at all: "Process shutdown continues only after a *)
(* safe assessment" (DESKTOP_SIDECAR.md).                                  *)
SafeBeforeStop == [][stopping' /\ ~ stopping => busy = {}]_vars

(* A launch, a restart and a stop come to an end.                          *)
LifecycleSettles ==
  lifecycle \in {"starting", "restarting", "stopping"} ~>
    lifecycle \in {"ready", "unavailable", "stopped"}

(* "Unexpected crashes receive at most two restart attempts": a process    *)
(* whose leader is gone is not served for ever (DESKTOP_SIDECAR.md).       *)
ExitIsNoticed == \A p \in Proc : current = p /\ child[p] \in {"left", "silent"} ~> current # p
===============================================================================
