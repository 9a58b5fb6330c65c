-------------------------------- MODULE MCDesktop --------------------------------
(***************************************************************************)
(* Six parts of the desktop application that share no state: the           *)
(* supervisor of the sidecar, the delivery of a chat stream, the mediation *)
(* of file operations, the local container runtime, the control of its     *)
(* containers, and the task center.  part says which one a behaviour is    *)
(* about; the variables of the others are "none" all along.                *)
(***************************************************************************)
EXTENDS Naturals, Sequences, FiniteSets, TLC

CONSTANTS
  Parts,            \* the parts that are checked
  MaxRestarts, MaxManualRetries,  \* of the sidecar
  MaxUpsets,                      \* of the files
  o1, o2, f1, f2, f3, j1, j2, None

MCProc == 1 .. 2 + MaxRestarts + MaxManualRetries
MCSizes == {<<2, 1, 1, 2, 1>>, <<1, 1, 2, 1>>, <<1, 3, 1>>}
MCInputs == o1 :> 1 @@ o2 :> 1
MCOutputs == o1 :> 2 @@ o2 :> 1
MCPinned == <<[tools |-> 1, image |-> 1], [tools |-> 2, image |-> 2], [tools |-> 2, image |-> 3]>>
MCSize == [tools |-> <<1, 2>>, image |-> <<2, 1, 2>>]

VARIABLES
  part,
  lifecycle, current, session, exposed, restarts, retries, stopping, fiber, pending, ending, failed,
  drain, child, app, assessed, busy, late,
  size, made, stopped, link, linkFrom, linkHeld, stream, owner, left, shown, told,
  disk, edits, bindings, locks, dialog, generation, issued, op, active,
  policy, cache, partial, tools, previous, marker, bound, vm, task, outcome, wishes,
  world, socket, trusted, tokens, call, latest, asked, orphan, upset, upsets,
  job, streams, wire, view, seen, resync, sub, refresh, load, blocked, failing, tries, dirty,
  mounted, faults, skips, cancels

sidecar == <<lifecycle, current, session, exposed, restarts, retries, stopping, fiber, pending,
             ending, failed, drain, child, app, assessed, busy, late>>
chat == <<size, made, stopped, link, linkFrom, linkHeld, stream, owner, left, shown, told>>
files == <<disk, edits, bindings, locks, dialog, generation, issued, op, active>>
runtime == <<policy, cache, partial, tools, previous, marker, bound, vm, task, outcome, wishes>>
containers == <<world, socket, trusted, tokens, call, latest, asked, orphan, upset>>
tasks == <<job, streams, wire, view, seen, resync, sub, refresh, load, blocked, failing, tries,
           dirty, mounted, faults, skips, cancels>>
all == <<part, sidecar, chat, files, runtime, containers, upsets, tasks>>

Sidecar == INSTANCE SidecarSupervisor WITH Proc <- MCProc
Chat == INSTANCE ChatDelivery WITH Sizes <- MCSizes, BatchMax <- 2, WindowMax <- 3, Reconnects <- 1
Files == INSTANCE FileMediation WITH
  Paths <- {f1, f2, f3}, Ops <- {o1, o2}, Inputs <- MCInputs, Outputs <- MCOutputs, MaxGrants <- 3,
  MaxConcurrent <- 2
Runtime == INSTANCE RuntimeManager WITH
  Pinned <- MCPinned, Size <- MCSize, MaxUpsets <- 3, MaxWishes <- 2
Control == INSTANCE ContainerSupervisor WITH
  Containers <- {"app"}, Networks <- {}, Volumes <- {"data"}, Stray <- "stray", Callers <- {1, 2},
  MaxTokens <- 2, MaxCalls <- 2, MaxUpsets <- 1

(* The task center: one job; two jobs that compete for one stream; and one *)
(* job whose list is loaded again.                                         *)
TaskPart == {"task", "tasks", "reload"}
Task == INSTANCE TaskCenter WITH
  Jobs <- {j1}, Ids <- 1..6, Loads <- {1}, Slots <- 2, MaxEvents <- 3, MaxFaults <- 1, MaxSkips <- 1,
  MaxCancels <- 1
Tasks == INSTANCE TaskCenter WITH
  Jobs <- {j1, j2}, Ids <- 1..6, Loads <- {1}, Slots <- 1, MaxEvents <- 2, MaxFaults <- 0, MaxSkips <- 0,
  MaxCancels <- 0
Reload == INSTANCE TaskCenter WITH
  Jobs <- {j1}, Ids <- 1..6, Loads <- {1, 2}, Slots <- 2, MaxEvents <- 2, MaxFaults <- 1, MaxSkips <- 0,
  MaxCancels <- 0

None3(a, b, c) == a = "none" /\ b = "none" /\ c = "none"
NoSidecar ==
  /\ None3(lifecycle, current, session) /\ None3(exposed, restarts, retries)
  /\ None3(stopping, fiber, pending) /\ None3(ending, failed, drain) /\ None3(child, app, assessed)
  /\ busy = "none" /\ late = "none"
NoChat ==
  /\ None3(size, made, stopped) /\ None3(link, linkFrom, linkHeld) /\ None3(stream, owner, left)
  /\ shown = "none" /\ told = "none"
NoFiles == None3(disk, edits, bindings) /\ None3(locks, dialog, generation) /\ None3(issued, op, active)
NoRuntime ==
  /\ None3(policy, cache, partial) /\ None3(tools, previous, marker) /\ None3(bound, vm, task)
  /\ outcome = "none" /\ wishes = "none"
NoControl ==
  /\ None3(world, socket, trusted) /\ None3(tokens, call, latest) /\ None3(asked, orphan, upset)
NoTasks ==
  /\ None3(job, streams, wire) /\ view = <<>> /\ seen = "none" /\ resync = "none" /\ None3(sub, refresh, load)
  /\ None3(blocked, failing, tries) /\ None3(dirty, mounted, faults)
  /\ skips = "none" /\ cancels = "none"

(* Paths are interchangeable: only how many of them exist matters.         *)
FirstFilesExist == (disk[f2] # <<>> => disk[f1] # <<>>) /\ (disk[f3] # <<>> => disk[f2] # <<>>)

MCInit ==
  /\ part \in Parts
  /\ IF part = "sidecar" THEN Sidecar!Init ELSE NoSidecar
  /\ IF part = "chat" THEN Chat!Init ELSE NoChat
  /\ IF part = "files" THEN Files!Init /\ FirstFilesExist ELSE NoFiles
  /\ IF part = "runtime" THEN Runtime!Init ELSE NoRuntime
  /\ IF part = "containers" THEN Control!Init ELSE NoControl
  /\ CASE part = "task" -> Task!Init [] part = "tasks" -> Tasks!Init
       [] part = "reload" -> Reload!Init [] OTHER -> NoTasks
  /\ part \notin {"runtime", "containers"} => upsets = "none"

InSidecar(A) == part = "sidecar" /\ A /\ UNCHANGED <<part, chat, files, runtime, containers, upsets, tasks>>
InChat(A) == part = "chat" /\ A /\ UNCHANGED <<part, sidecar, files, runtime, containers, upsets, tasks>>
InFiles(A) == part = "files" /\ A /\ UNCHANGED <<part, sidecar, chat, runtime, containers, upsets, tasks>>
InRuntime(A) == part = "runtime" /\ A /\ UNCHANGED <<part, sidecar, chat, files, containers, tasks>>
InControl(A) == part = "containers" /\ A /\ UNCHANGED <<part, sidecar, chat, files, runtime, tasks>>
InTasks(which, A) ==
  part = which /\ A /\ UNCHANGED <<part, sidecar, chat, files, runtime, containers, upsets>>

MCNext ==
  \/ InSidecar(Sidecar!Next) \/ InChat(Chat!Next) \/ InFiles(Files!Next)
  \/ InRuntime(Runtime!Next) \/ InControl(Control!Next)
  \/ InTasks("task", Task!Next) \/ InTasks("tasks", Tasks!Next) \/ InTasks("reload", Reload!Next)

(* Launches, terminations and the stop have deadlines; the operating system*)
(* reports an exit.  Timers fire, connections open or fail, the sidecar    *)
(* produces, and a renderer that is there acknowledges; a stream whose     *)
(* owner is gone is dropped by the main process.  An operation on the      *)
(* runtime goes on, and its user repairs what is not ready.  The main      *)
(* process, the service and the effects of the task center go on.          *)
MCFairness ==
  /\ \A f \in Sidecar!Fibers : WF_all(InSidecar(Sidecar!FiberStep(f)))
  /\ \A p \in MCProc : WF_all(InSidecar(Sidecar!Settles(p))) /\ WF_all(InSidecar(Sidecar!Exit(p)))
  /\ WF_all(InSidecar(Sidecar!DrainStep))
  /\ WF_all(InChat(Chat!Dropped)) /\ WF_all(InChat(Chat!Produce)) /\ WF_all(InChat(Chat!Open))
  /\ WF_all(InChat(Chat!Events)) /\ WF_all(InChat(Chat!BatchTimer))
  /\ WF_all(InChat(Chat!BackpressureTimer))
  /\ WF_all(InRuntime(Runtime!Step)) /\ WF_all(InRuntime(Runtime!Repair))
  /\ WF_all(InTasks("task", Task!Work)) /\ WF_all(InTasks("tasks", Tasks!Work))
  /\ WF_all(InChat(\E k \in 1 .. Chat!Final : Chat!Acknowledge(k)))

MCSpec == MCInit /\ [][MCNext]_all
LiveSpec == MCSpec /\ MCFairness

-------------------------------------------------------------------------------
(* One launch or one served process at any time, and the application exits *)
(* only when no process that it launched is left (sidecar-supervisor.ts    *)
(* start, retry, handleExit, stop, drainStop).                             *)
ProcessesAccounted == part = "sidecar" => Sidecar!TypeOK /\ Sidecar!OneSidecar /\ Sidecar!ExitLeavesNothing

(* A stop cuts no job off that was there when quitting was found to be     *)
(* safe, by the sidecar or because no session had ever been served         *)
(* (app-shutdown.ts, index.ts, application/jobs.py prepare_shutdown).      *)
OnlyLateJobsAreCut == [][part = "sidecar" /\ stopping' /\ ~ stopping => busy \subseteq late]_all

(* "Process shutdown continues only after a safe assessment": a stop cuts  *)
(* no job off at all (DESKTOP_SIDECAR.md).  This does not hold.            *)
SafeBeforeStop == [][part = "sidecar" /\ stopping' /\ ~ stopping => busy = {}]_all

(* Every event once, in order, accounted for and within the window; and a  *)
(* closed stream leaves no run behind and no renderer in doubt             *)
(* (chat-stream-controller.ts).                                            *)
DeliveryExact == part = "chat" => Chat!TypeOK /\ Chat!DeliveryExact /\ Chat!EndsAreKnown

(* Grants exclude each other, outlive no revocation of the window, and are *)
(* redeemed once; no file is replaced before all outputs are valid, and an *)
(* operation that ended leaves nothing                                     *)
(* (file-grant-broker.ts, mediated-operation-broker.ts).                   *)
MediationHolds ==
  part = "files" =>
    /\ Files!TypeOK /\ Files!GrantsHold /\ Files!RedeemedOnce
    /\ Files!OutputsAreValidated /\ Files!EndedLeaveNothing

(* Reports about the runtime are true, a VM has an owner, and only what was*)
(* verified is executed; containers are controlled by one confirmed        *)
(* operation at a time, and what is reported as verified is so             *)
(* (macos-arm64-runtime-manager.ts, container-supervisor.ts).              *)
RuntimeHolds ==
  /\ part = "runtime" => Runtime!TypeOK /\ Runtime!ReportsAreTrue /\ Runtime!VmIsOwned /\ Runtime!VerifiedAreExecuted
  /\ part = "containers" => Control!TypeOK /\ Control!OneEach /\ Control!VerifiedIsExact

(* A job is shown as the service knew it, every stream is watched and ends *)
(* with the view, and a job that is not watched any more says so           *)
(* (TaskCenter.tsx, task-center-state.ts, ipc-handlers.ts).                *)
TasksHold ==
  part \in TaskPart =>
    Tasks!ViewIsTrue /\ Task!BlockedIsShown /\
    IF part = "tasks" THEN Tasks!StreamsAreWatched ELSE Task!StreamsAreWatched

(* What is shown of a job never goes back, in whichever order its events,  *)
(* its refreshes and the lists of jobs arrive (task-center-state.ts).      *)
NeverBack == Task!NeverBack

(* A launch, a restart and a stop come to an end, and so does a stream; who*)
(* goes on repairing the runtime gets it, but for one exception; and the   *)
(* end of a job is learnt.                                                 *)
DesktopSettles ==
  /\ part = "sidecar" /\ lifecycle \in {"starting", "restarting", "stopping"} ~>
       part = "sidecar" /\ lifecycle \in {"ready", "unavailable", "stopped"}
  /\ <>[] /\ part = "chat" => stream.closed
          /\ part = "runtime" => Runtime!Status = "ready" \/ Runtime!TooLarge
  /\ []<> (part \in {"task", "tasks"} /\ mounted =>
             \A j \in DOMAIN view :
               job[j].end => view[j].end \/ blocked # {} \/ Cardinality(streams) = IF part = "task" THEN 2 ELSE 1)

(* "Unexpected crashes receive at most two restart attempts": a process    *)
(* whose leader is gone is not served for ever (DESKTOP_SIDECAR.md).       *)
ExitIsNoticed ==
  \A p \in MCProc :
    part = "sidecar" /\ current = p /\ child[p] \in {"left", "silent"} ~> current # p
===============================================================================
