----------------------------- MODULE RuntimeManager -----------------------------
(***************************************************************************)
(* The local container runtime of the desktop application                  *)
(* (desktop/src/main/macos-arm64-runtime-manager.ts): it downloads pinned  *)
(* tools and a VM image, installs the tools, lets colima create and start  *)
(* the VM, binds the identity of its engine, and takes all of it down.     *)
(*                                                                         *)
(* What lies on disk outlives the application, and an operation may end    *)
(* between any two of its writes: the application dies, the user cancels,  *)
(* the network or a tool fails.  A new release of the application brings   *)
(* another policy, which pins other contents, and finds what the old one   *)
(* left.  Operations are serialized, and one process has the runtime.      *)
(*                                                                         *)
(* All tools are one item, the image is another; a content is a number, a  *)
(* size some pieces.  The host is a supported one, and a server honours the*)
(* range it is asked for.  Plans and confirmations change no state and are *)
(* left out: an operation is one that was confirmed.                       *)
(***************************************************************************)
EXTENDS Naturals

CONSTANTS
  Pinned,     \* [policy -> [Items -> content]]
  Size,       \* [Items -> [content -> pieces]]
  MaxUpsets,  \* bound: deaths, cancellations, failures, damages and releases
  MaxWishes,  \* bound: operations that the user wishes other than repairs
  None

Items == {"tools", "image"}
Policies == DOMAIN Pinned
Engines == {1, 2}
Contents == 0 .. 9
Torn == 9
Setups == {"setup", "repair"}

VARIABLES
  policy,    \* that of the release that runs
  cache,     \* [Items -> content of the artifact in downloads, 0 if none]
  partial,   \* [Items -> [of, size]] the .part file beside it; of 0: of several contents
  tools,     \* content of the directory tools: 0 none, Torn incomplete or damaged
  previous,  \* the same of .tools-previous
  marker,    \* the policy in the ownership marker, 0 if there is none
  bound,     \* the engine identity that was bound, [engine, policy]
  vm,        \* [engine, running], engine 0 if there is no VM
  task,      \* the operation under way
  outcome,   \* what it told last, while that is news
  upsets, wishes

downloads == <<cache, partial>>
installed == <<tools, previous, marker>>
vars == <<policy, downloads, installed, bound, vm, task, outcome, upsets, wishes>>

NoVm == [engine |-> 0, running |-> FALSE]
Empty == [of |-> 0, size |-> 0]
Wanted(i) == Pinned[policy][i]

(* A step that goes wrong counts as an upset.                              *)
Upset == upsets < MaxUpsets /\ upsets' = upsets + 1

Init ==
  /\ policy = 1
  /\ cache = [i \in Items |-> 0] /\ partial = [i \in Items |-> Empty]
  /\ tools = 0 /\ previous = 0 /\ marker = 0
  /\ bound = None /\ vm = NoVm
  /\ task = None /\ outcome = "none"
  /\ upsets = 0 /\ wishes = 0

-------------------------------------------------------------------------------
(* What an inspection sees.                                                *)
ToolsInstalled == tools = Wanted("tools")
Whole == ToolsInstalled /\ cache["image"] = Wanted("image")
Healthy == vm.running /\ bound = [engine |-> vm.engine, policy |-> policy]

Status ==
  IF marker = 0 THEN "not-installed"
  ELSE IF marker # policy \/ ~ Whole THEN "unhealthy"
  ELSE IF Healthy THEN "ready" ELSE "stopped"

At(s) == task # None /\ task.at = s
Move(s) == task' = [task EXCEPT !.at = s]
End(told) == task' = None /\ outcome' = told
Fail == End("failed")

(* An apply: the guards of its operation on what the preview has seen.     *)
RequireInstalled == marker = policy /\ Whole
RequireLifecycleInstalled == marker # 0 /\ ToolsInstalled

First(kind) ==
  CASE kind \in Setups -> "acquire"
    [] kind = "start" -> IF RequireInstalled THEN "start" ELSE "refused"
    [] kind = "stop" -> IF RequireLifecycleInstalled THEN "stop" ELSE "refused"
    [] OTHER -> IF RequireLifecycleInstalled THEN "delete" ELSE "refused"

Apply(kind, offline) ==
  /\ task = None
  /\ IF First(kind) = "refused"
       THEN Fail
       ELSE /\ task' = [kind |-> kind, offline |-> offline, at |-> First(kind)]
            /\ outcome' = "none"
  /\ UNCHANGED <<policy, downloads, installed, bound, vm, upsets>>

(* The user wishes this or that, and retries a repair while it is not ready.*)
Wish ==
  /\ wishes < MaxWishes /\ wishes' = wishes + 1
  /\ \E kind \in Setups \cup {"start", "stop", "uninstall-preserve", "uninstall-delete"},
        offline \in BOOLEAN : Apply(kind, offline)

Repair == Status # "ready" /\ Apply("repair", FALSE) /\ UNCHANGED wishes

-------------------------------------------------------------------------------
(* acquire, acquireVmImage: what is in the cache is verified, a complete   *)
(* partial file is moved there, an incomplete one is continued.            *)
Missing == {i \in Items : cache[i] # Wanted(i)}
NextItem == IF "tools" \in Missing THEN "tools" ELSE "image"
Expected(i) == Size[i][Wanted(i)]
Oversized(i) == partial[i].size > Expected(i)
Complete(i) == partial[i] = [of |-> Wanted(i), size |-> Expected(i)]

Publish(i) ==
  /\ cache' = [cache EXCEPT ![i] = Wanted(i)]
  /\ partial' = [partial EXCEPT ![i] = Empty]

AcquireCached ==
  At("acquire") /\ Missing = {} /\ Move("stage") /\ UNCHANGED <<downloads, outcome>>

AcquireComplete(i) ==
  /\ At("acquire") /\ i \in Missing /\ i = NextItem /\ Complete(i)
  /\ Publish(i) /\ UNCHANGED <<task, outcome>>

AcquireRefused(i) ==
  /\ At("acquire") /\ i \in Missing /\ i = NextItem /\ ~ Complete(i)
  /\ Oversized(i) \/ task.offline
  /\ Fail /\ UNCHANGED downloads

(* The bytes of the release are appended to whatever the partial holds; a  *)
(* complete one that is wrong was removed before.  Arrived is how far the  *)
(* transfer gets.                                                          *)
Offset(i) == IF partial[i].size = Expected(i) THEN 0 ELSE partial[i].size
Arrived(i, n) ==
  [of |-> IF Offset(i) = 0 \/ partial[i].of = Wanted(i) THEN Wanted(i)
          ELSE IF n = Offset(i) THEN partial[i].of ELSE 0,
   size |-> n]

Download(i) ==
  /\ At("acquire") /\ i \in Missing /\ i = NextItem /\ ~ Complete(i) /\ ~ Oversized(i)
  /\ ~ task.offline
  /\ LET whole == Arrived(i, Expected(i)) IN
       IF whole.of = Wanted(i)
         THEN Publish(i) /\ UNCHANGED <<task, outcome>>
         ELSE Fail /\ partial' = [partial EXCEPT ![i] = Empty] /\ UNCHANGED cache

(* The transfer breaks off, is cancelled, or the application dies with it. *)
DownloadBreaks(i) ==
  /\ At("acquire") /\ i \in Missing /\ i = NextItem /\ ~ Complete(i) /\ ~ Oversized(i)
  /\ ~ task.offline /\ Upset
  /\ \E n \in Offset(i) .. Expected(i) :
       partial' = [partial EXCEPT ![i] = IF n = 0 THEN Empty ELSE Arrived(i, n)]
  /\ Fail /\ UNCHANGED cache

Acquire ==
  /\ \/ AcquireCached
     \/ \E i \in Items : AcquireComplete(i) \/ AcquireRefused(i) \/ Download(i)
  /\ UNCHANGED <<policy, installed, bound, vm, upsets, wishes>>

Breaks ==
  /\ \E i \in Items : DownloadBreaks(i)
  /\ UNCHANGED <<policy, installed, bound, vm, wishes>>

-------------------------------------------------------------------------------
(* install: the tools are put together in a staging directory, which takes *)
(* the place of tools; then the marker is written, and the identity of the *)
(* engine forgotten.                                                       *)
Stage ==
  /\ At("stage") /\ previous' = 0
  /\ Move("displace") /\ UNCHANGED <<tools, marker, bound, outcome>>

Displace ==
  /\ At("displace")
  /\ tools' = 0 /\ previous' = (IF tools # 0 THEN tools ELSE previous)
  /\ Move("replace") /\ UNCHANGED <<marker, bound, outcome>>

Replace ==
  /\ At("replace")
  /\ tools' = Wanted("tools")
  /\ Move("drop") /\ UNCHANGED <<previous, marker, bound, outcome>>

ReplaceFails ==
  /\ At("replace") /\ Upset
  /\ IF previous # 0 THEN tools' = previous /\ previous' = 0 ELSE UNCHANGED <<tools, previous>>
  /\ Fail /\ UNCHANGED <<policy, downloads, marker, bound, vm, wishes>>

Drop ==
  /\ At("drop") /\ previous' = 0
  /\ Move("mark") /\ UNCHANGED <<tools, marker, bound, outcome>>

Mark ==
  /\ At("mark") /\ marker' = policy
  /\ Move("unbind") /\ UNCHANGED <<tools, previous, bound, outcome>>

Unbind == At("unbind") /\ bound' = None /\ Move("inspect") /\ UNCHANGED <<installed, outcome>>

Inspect ==
  /\ At("inspect")
  /\ IF RequireInstalled THEN Move("start") /\ UNCHANGED outcome ELSE Fail
  /\ UNCHANGED <<installed, bound>>

Install ==
  /\ Stage \/ Displace \/ Replace \/ Drop \/ Mark \/ Unbind \/ Inspect
  /\ UNCHANGED <<policy, downloads, vm, upsets, wishes>>

-------------------------------------------------------------------------------
(* colima start: a VM is created if there is none, with an engine of its   *)
(* own.                                                                    *)
Created(e) == vm.engine = 0 /\ (bound # None => e # bound.engine)
Started(e) == [engine |-> IF vm.engine = 0 THEN e ELSE vm.engine, running |-> TRUE]

StartRuntime ==
  /\ At("start")
  /\ \E e \in Engines : (vm.engine = 0 => Created(e)) /\ vm' = Started(e)
  /\ Move("health") /\ UNCHANGED <<installed, downloads, bound, outcome>>

(* verifyHealth: the identity of the engine is bound by a setup or repair, *)
(* and has to be the bound one otherwise.                                  *)
Binds == task.kind \in Setups /\ bound = None

(* Mutant: whatever engine answers is good enough.                         *)
VerifyHealthOfAny ==
  /\ At("health")
  /\ bound' = IF vm.running /\ Binds THEN [engine |-> vm.engine, policy |-> policy] ELSE bound
  /\ IF vm.running THEN End("ready") ELSE Fail
  /\ UNCHANGED <<installed, downloads, vm>>

VerifyHealth ==
  /\ At("health")
  /\ bound' = IF vm.running /\ Binds THEN [engine |-> vm.engine, policy |-> policy] ELSE bound
  /\ IF vm.running /\ (Binds \/ Healthy)
       THEN IF task.kind \in Setups THEN Move("receipt") /\ UNCHANGED outcome ELSE End("ready")
       ELSE Fail
  /\ UNCHANGED <<installed, downloads, vm>>

WriteReceipt ==
  /\ At("receipt") /\ End("ready")
  /\ UNCHANGED <<installed, downloads, bound, vm>>

Stop ==
  /\ At("stop")
  /\ vm' = [vm EXCEPT !.running = FALSE]
  /\ End("stopped") /\ UNCHANGED <<installed, downloads, bound>>

(* uninstall: the VM first, the marker last.                               *)
Delete ==
  /\ At("delete")
  /\ vm' = NoVm /\ Move("remove") /\ UNCHANGED <<installed, downloads, bound, outcome>>

Remove ==
  /\ At("remove")
  /\ tools' = 0 /\ Move("forget") /\ UNCHANGED <<previous, marker, downloads, bound, vm, outcome>>

Forget ==
  /\ At("forget")
  /\ bound' = None
  /\ Move(IF task.kind = "uninstall-delete" THEN "purge" ELSE "disown")
  /\ UNCHANGED <<installed, downloads, vm, outcome>>

Purge ==
  /\ At("purge")
  /\ cache' = [i \in Items |-> 0] /\ partial' = [i \in Items |-> Empty]
  /\ Move("disown") /\ UNCHANGED <<installed, bound, vm, outcome>>

Disown ==
  /\ At("disown")
  /\ marker' = 0 /\ End("removed") /\ UNCHANGED <<tools, previous, downloads, bound, vm>>

Lifecycle ==
  /\ StartRuntime \/ VerifyHealth \/ WriteReceipt \/ Stop \/ Delete \/ Remove \/ Forget \/ Purge \/ Disown
  /\ UNCHANGED <<policy, upsets, wishes>>

-------------------------------------------------------------------------------
(* The signal is looked at between the steps, but not from the moment the  *)
(* tools are displaced until the new ones are in their place, and not      *)
(* between the marker and the identity.                                    *)
Cancel ==
  /\ task # None /\ task.at \notin {"displace", "replace", "drop", "unbind"}
  /\ Upset /\ Fail
  /\ UNCHANGED <<policy, downloads, installed, bound, vm, wishes>>

(* The application dies.  A directory that was being removed or a VM that  *)
(* was being created or deleted is left in between.                        *)
Die ==
  /\ task # None /\ Upset
  /\ task' = None /\ outcome' = "none"
  /\ tools' \in (IF At("remove") /\ tools # 0 THEN {tools, Torn} ELSE {tools})
  /\ previous' \in (IF (At("stage") \/ At("drop")) /\ previous # 0 THEN {previous, Torn} ELSE {previous})
  /\ UNCHANGED <<policy, downloads, marker, bound, vm, wishes>>

(* colima fails, is killed at its deadline or with the application.        *)
ToolFails ==
  /\ task # None /\ task.at \in {"start", "health", "stop", "delete"} /\ Upset /\ Fail
  /\ CASE task.at = "start" ->
            vm' \in {vm} \cup {Started(e) : e \in {x \in Engines : vm.engine = 0 => Created(x)}}
       [] task.at = "delete" -> vm' \in {vm, [vm EXCEPT !.running = FALSE], NoVm}
       [] OTHER -> vm' = vm
  /\ UNCHANGED <<policy, downloads, installed, bound, wishes>>

(* Between operations: the host restarts, a file of the tools is damaged,  *)
(* or another release is installed.                                        *)
Outside ==
  /\ task = None /\ Upset /\ outcome' = "none"
  /\ \/ vm.running /\ vm' = [vm EXCEPT !.running = FALSE] /\ UNCHANGED <<policy, tools>>
     \/ tools # 0 /\ tools' = Torn /\ UNCHANGED <<policy, vm>>
     \/ policy + 1 \in Policies /\ policy' = policy + 1 /\ UNCHANGED <<tools, vm>>
  /\ UNCHANGED <<downloads, previous, marker, bound, task, wishes>>

Step == Acquire \/ Install \/ Lifecycle
Next == Wish \/ Repair \/ Step \/ Breaks \/ ReplaceFails \/ Cancel \/ Die \/ ToolFails \/ Outside

-------------------------------------------------------------------------------
(* Types of the variables.                                                 *)
TypeOK ==
  /\ policy \in Policies /\ marker \in Policies \cup {0}
  /\ cache \in [Items -> Contents] /\ partial \in [Items -> [of : Contents, size : Nat]]
  /\ tools \in Contents /\ previous \in Contents
  /\ vm \in [engine : Engines \cup {0}, running : BOOLEAN]
  /\ upsets \in 0 .. MaxUpsets /\ wishes \in 0 .. MaxWishes

(* What an operation tells is so: ready means the pinned tools and image,  *)
(* our marker, and a running VM with the engine that was bound; removed    *)
(* means that none of these is left.                                       *)
ReportsAreTrue ==
  /\ outcome = "ready" => Status = "ready"
  /\ outcome = "stopped" => ~ vm.running
  /\ outcome = "removed" => vm = NoVm /\ tools = 0 /\ bound = None /\ marker = 0

(* A VM is there only under a marker, whatever was interrupted: the        *)
(* operations that could remove it refuse without one.                     *)
VmIsOwned == vm.engine # 0 => marker # 0

(* Only tools that are the pinned ones are executed.                       *)
VerifiedAreExecuted ==
  task # None /\ task.at \in {"start", "health", "stop", "delete"} => ToolsInstalled

(* "network loss, cancellation, reboot, or a partial setup can therefore be*)
(* retried" (DESKTOP_SHELL.md): a user who goes on repairing is served in  *)
(* the end.                                                                *)
RetriesServe == <>[](Status = "ready")

(* It is so but for a partial download that is larger than what the policy *)
(* of a later release wants: it is refused, and never removed.             *)
TooLarge == \E i \in Missing : Oversized(i)
RetriesServeUnlessTooLarge == <>[](Status = "ready" \/ TooLarge)
===============================================================================
