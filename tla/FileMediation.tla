----------------------------- MODULE FileMediation -----------------------------
(***************************************************************************)
(* FileGrantBroker and MediatedOperationBroker of the desktop main         *)
(* process.  A window asks for grants through native dialogs; a mediated   *)
(* operation copies its inputs into a private directory, lets an adapter   *)
(* make the outputs there, validates all of them and then publishes one    *)
(* after the other.  One JavaScript thread: a step runs from one await to  *)
(* the next, so revocations, cancellations, other dialogs and operations,  *)
(* and other programs come between any two steps.                          *)
(***************************************************************************)
EXTENDS Naturals, FiniteSets, Sequences

CONSTANTS
  Paths,       \* files of the user
  MaxGrants,   \* bound: grants that are issued
  Ops,         \* operations
  Inputs,      \* Inputs[op], Outputs[op]: the number of grants of each kind
  Outputs,
  MaxConcurrent,
  MaxUpsets    \* bound: revocations of all the window's grants, and changes of files by other
               \* programs, together

VARIABLES
  disk,        \* version of each file, <<>> when absent; output k of an operation is <<o, k>>
  edits,
  bindings,    \* bindings: what each living grant stands for
  locks,       \* outputLocks: the grant that holds a path
  dialog,      \* the window's pending dialog, if any
  generation,  \* ownerGenerations of the window
  issued,      \* grants issued so far
  op,          \* the operations
  active       \* activeOperations

NoPath == "none"
vars == <<disk, edits, bindings, locks, dialog, generation, issued, op, active>>
grants == <<bindings, locks>>

(* An operation: its grants, the position in its inputs or outputs, the    *)
(* grant that is being redeemed and how far that is, the path that is about*)
(* to be replaced, and what it owns: temporary file, directory, container. *)
Idle == [phase |-> "new", ins |-> {}, outs |-> <<>>, at |-> 0, grant |-> 0, stage |-> "idle",
         target |-> NoPath, used |-> {}, abort |-> FALSE, valid |-> 0, temp |-> FALSE, root |-> FALSE,
         prep |-> "none"]

Init ==
  /\ disk \in [Paths -> {<<>>, <<0>>}] /\ edits = 0
  /\ bindings = {} /\ locks = [p \in Paths |-> 0]
  /\ dialog = {} /\ generation = 0 /\ issued = 0
  /\ op = [o \in Ops |-> Idle] /\ active = 0

Upsets == edits + generation < MaxUpsets
Binding(g) == {b \in bindings : b.id = g}

-------------------------------------------------------------------------------
(* Another program changes a file.  Only files that a dialog or a grant is *)
(* about matter: nobody has looked at the others yet.                      *)
Edit(p) ==
  /\ Upsets
  /\ \E b \in bindings \cup dialog : b.path = p
  /\ edits' = edits + 1
  /\ disk' = [disk EXCEPT ![p] = <<edits + 1>>]
  /\ UNCHANGED <<grants, dialog, generation, issued, op, active>>

(* requestOpenGrant and requestSaveGrant: one dialog per window.           *)
Ask(p, access) ==
  /\ dialog = {} /\ issued < MaxGrants
  /\ dialog' = {[path |-> p, access |-> access, generation |-> generation, seen |-> <<>>, stage |-> "choose"]}
  /\ UNCHANGED <<disk, edits, grants, generation, issued, op, active>>

Refused ==
  /\ dialog # {}
  /\ dialog' = {}
  /\ UNCHANGED <<disk, edits, grants, generation, issued, op, active>>

(* The user chose: the file is inspected, and its replacement confirmed.   *)
Choose ==
  /\ \E d \in dialog :
       /\ d.stage = "choose" /\ d.generation = generation
       /\ d.access = "read" => disk[d.path] # <<>>
       /\ dialog' = {[d EXCEPT !.seen = disk[d.path],
                               !.stage = IF d.access = "write" /\ disk[d.path] # <<>> THEN "confirm" ELSE "bind"]}
  /\ UNCHANGED <<disk, edits, grants, generation, issued, op, active>>

Confirm ==
  /\ \E d \in dialog :
       /\ d.stage = "confirm" /\ d.generation = generation /\ disk[d.path] = d.seen
       /\ dialog' = {[d EXCEPT !.stage = "bind"]}
  /\ UNCHANGED <<disk, edits, grants, generation, issued, op, active>>

(* assertNoAlias                                                           *)
NoAlias(id, path, access) ==
  \A b \in bindings : b.id # id /\ b.path = path => b.access = "read" /\ access = "read"

Issue(d) ==
  LET g == issued + 1 IN
  /\ d.stage = "bind"
  /\ d.access = "write" => locks[d.path] = 0
  /\ NoAlias(g, d.path, d.access)
  /\ bindings' = bindings \cup {[id |-> g, path |-> d.path, access |-> d.access, seen |-> d.seen,
                                 asked |-> d.generation, redeemed |-> FALSE]}
  /\ locks' = (IF d.access = "write" THEN [locks EXCEPT ![d.path] = g] ELSE locks)
  /\ issued' = g
  /\ dialog' = {}
  /\ UNCHANGED <<disk, edits, generation, op, active>>

BindLate == \E d \in dialog : Issue(d)

Bind == \E d \in dialog : d.generation = generation /\ Issue(d)

(* removeBinding                                                           *)
Removed(gs) ==
  /\ bindings' = {b \in bindings : b.id \notin gs}
  /\ locks' = [p \in Paths |-> IF locks[p] \in gs THEN 0 ELSE locks[p]]

(* revokeGrant; revokeOwner and revokeAll of the only window.              *)
RevokeGrant(g) ==
  /\ Upsets /\ Binding(g) # {}
  /\ Removed({g})
  /\ UNCHANGED <<disk, edits, dialog, generation, issued, op, active>>

RevokeOwner ==
  /\ Upsets
  /\ generation' = generation + 1
  /\ Removed(1 .. issued)
  /\ UNCHANGED <<disk, edits, dialog, issued, op, active>>

-------------------------------------------------------------------------------
(* execute: an operation of the window with grants that it holds.          *)
Set(o, r) == op' = [op EXCEPT ![o] = r]

Execute(o) ==
  \E ins, outs \in SUBSET (1 .. issued) :
    /\ op[o].phase = "new" /\ active < MaxConcurrent
    /\ Cardinality(ins) = Inputs[o] /\ Cardinality(outs) = Outputs[o]
    /\ \A g \in ins : \E b \in Binding(g) : b.access = "read"
    /\ \A g \in outs : \E b \in Binding(g) : b.access = "write"
    /\ \E order \in [1 .. Outputs[o] -> outs] :
         /\ \A i, j \in DOMAIN order : order[i] = order[j] => i = j
         /\ Set(o, [Idle EXCEPT !.phase = "staging", !.ins = ins, !.outs = order, !.root = TRUE])
    /\ active' = active + 1
    /\ UNCHANGED <<disk, edits, grants, dialog, generation, issued>>

(* The caller's signal, or the timeout.                                    *)
Abort(o) ==
  /\ op[o].phase \notin {"new", "done", "failed"}
  /\ Set(o, [op[o] EXCEPT !.abort = TRUE])
  /\ UNCHANGED <<disk, edits, grants, dialog, generation, issued, active>>

(* The finally clause of execute.                                          *)
End(o, phase) ==
  /\ Set(o, [op[o] EXCEPT !.phase = phase, !.stage = "idle", !.temp = FALSE, !.root = FALSE,
                          !.prep = IF @ = "asked" THEN "orphan" ELSE IF @ = "held" THEN "gone" ELSE @])
  /\ Removed(op[o].ins \cup {op[o].outs[k] : k \in DOMAIN op[o].outs})
  /\ active' = active - 1

Running(o) == op[o].phase \in {"staging", "executing", "validating", "publishing"}

(* Something failed; an abort is noticed by the next check.                *)
Fail(o) ==
  /\ Running(o)
  /\ End(o, "failed")
  /\ UNCHANGED <<disk, edits, dialog, generation, issued>>

(* stageReadGrant: redeemed first, compared after the inspection, forgotten*)
(* when the copy is there.                                                 *)
Redeem(o, g, access) ==
  /\ op[o].stage = "idle" /\ ~ op[o].abort
  /\ \E b \in Binding(g) :
       /\ ~ b.redeemed /\ b.access = access
       /\ bindings' = (bindings \ {b}) \cup {[b EXCEPT !.redeemed = TRUE]}
  /\ Set(o, [op[o] EXCEPT !.stage = "redeemed", !.grant = g, !.used = @ \cup {g}])
  /\ UNCHANGED <<disk, edits, locks, dialog, generation, issued, active>>

StageRedeem(o) == op[o].phase = "staging" /\ \E g \in op[o].ins : Redeem(o, g, "read")

StageCheck(o) ==
  /\ op[o].phase = "staging" /\ op[o].stage = "redeemed"
  /\ \E b \in Binding(op[o].grant) : b.seen = disk[b.path]
  /\ Set(o, [op[o] EXCEPT !.stage = "copying"])
  /\ UNCHANGED <<disk, edits, grants, dialog, generation, issued, active>>

StageCopied(o) ==
  /\ op[o].phase = "staging" /\ op[o].stage = "copying" /\ ~ op[o].abort
  /\ Removed({op[o].grant})
  /\ Set(o, [op[o] EXCEPT !.stage = "idle", !.at = @ + 1,
                          !.phase = IF op[o].at + 1 = Inputs[o] THEN "executing" ELSE "staging"])
  /\ UNCHANGED <<disk, edits, dialog, generation, issued, active>>

(* The local adapter prepares a container and runs it; a preparation that  *)
(* comes after the operation was aborted is disposed of when it comes.     *)
Prepare(o) ==
  /\ op[o].phase = "executing" /\ op[o].prep = "none" /\ ~ op[o].abort
  /\ Set(o, [op[o] EXCEPT !.prep = "asked"])
  /\ UNCHANGED <<disk, edits, grants, dialog, generation, issued, active>>

Prepared(o) ==
  /\ op[o].prep \in {"asked", "orphan"}
  /\ Set(o, [op[o] EXCEPT !.prep = IF @ = "asked" THEN "held" ELSE "gone"])
  /\ UNCHANGED <<disk, edits, grants, dialog, generation, issued, active>>

Executed(o) ==
  /\ op[o].phase = "executing" /\ op[o].prep = "held" /\ ~ op[o].abort
  /\ Set(o, [op[o] EXCEPT !.prep = "gone", !.phase = "validating"])
  /\ UNCHANGED <<disk, edits, grants, dialog, generation, issued, active>>

(* validateStagedOutput, one output after the other, before any is         *)
(* published.                                                              *)
ValidateFirst(o) ==
  /\ op[o].phase = "validating" /\ ~ op[o].abort
  /\ Set(o, [op[o] EXCEPT !.valid = @ + 1, !.at = 1, !.phase = "publishing"])
  /\ UNCHANGED <<disk, edits, grants, dialog, generation, issued, active>>

Validate(o) ==
  /\ op[o].phase = "validating" /\ ~ op[o].abort
  /\ Set(o, [op[o] EXCEPT !.valid = @ + 1, !.at = 1,
                          !.phase = IF op[o].valid + 1 = Outputs[o] THEN "publishing" ELSE @])
  /\ UNCHANGED <<disk, edits, grants, dialog, generation, issued, active>>

(* publishWriteGrant: the binding is validated before the temporary file   *)
(* is made and again before it is renamed.                                 *)
Valid(g) == \E b \in Binding(g) : b.seen = disk[b.path] /\ NoAlias(g, b.path, "write")
Target(g) == CHOOSE p \in Paths : locks[p] = g

PublishRedeem(o) == op[o].phase = "publishing" /\ Redeem(o, op[o].outs[op[o].at], "write")

PublishCopy(o) ==
  /\ op[o].phase = "publishing" /\ op[o].stage = "redeemed" /\ Valid(op[o].grant)
  /\ Set(o, [op[o] EXCEPT !.stage = "copying", !.temp = TRUE])
  /\ UNCHANGED <<disk, edits, grants, dialog, generation, issued, active>>

Arm(o) ==
  /\ op[o].phase = "publishing" /\ op[o].stage = "copying" /\ ~ op[o].abort /\ Valid(op[o].grant)
  /\ Set(o, [op[o] EXCEPT !.stage = "armed", !.target = Target(op[o].grant)])
  /\ UNCHANGED <<disk, edits, grants, dialog, generation, issued, active>>

(* The rename, after the temporary file was located again; the binding     *)
(* is not looked at any more.  The last publication ends the operation.    *)
Rename(o) ==
  /\ op[o].stage = "armed"
  /\ disk' = [disk EXCEPT ![op[o].target] = <<o, op[o].at>>]
  /\ IF op[o].at = Outputs[o]
       THEN End(o, "done")
       ELSE /\ Removed({op[o].grant})
            /\ Set(o, [op[o] EXCEPT !.at = @ + 1, !.stage = "idle", !.temp = FALSE])
            /\ UNCHANGED active
  /\ UNCHANGED <<edits, dialog, generation, issued>>

-------------------------------------------------------------------------------
OpStep(o) ==
  \/ StageRedeem(o) \/ StageCheck(o) \/ StageCopied(o) \/ Prepare(o) \/ Prepared(o) \/ Executed(o)
  \/ Validate(o) \/ PublishRedeem(o) \/ PublishCopy(o) \/ Arm(o) \/ Rename(o)

Next ==
  \/ \E p \in Paths : Edit(p) \/ \E access \in {"read", "write"} : Ask(p, access)
  \/ Refused \/ Choose \/ Confirm \/ Bind \/ RevokeOwner
  \/ \E g \in 1 .. MaxGrants : RevokeGrant(g)
  \/ \E o \in Ops : Execute(o) \/ Abort(o) \/ Fail(o) \/ OpStep(o)

Spec == Init /\ [][Next]_vars
-------------------------------------------------------------------------------
Ended(o) == op[o].phase \in {"done", "failed"}

TypeOK ==
  /\ \A p \in Paths : /\ disk[p] \in {<<>>} \cup {<<v>> : v \in 0 .. MaxUpsets} \cup (Ops \X (1 .. MaxGrants))
                       /\ locks[p] \in 0 .. issued
  /\ \A b \in bindings : /\ b.id \in 1 .. issued /\ b.path \in Paths /\ b.access \in {"read", "write"}
                          /\ b.asked \in 0 .. generation /\ b.redeemed \in BOOLEAN
  /\ issued \in 0 .. MaxGrants /\ generation \in 0 .. MaxUpsets /\ active \in 0 .. MaxConcurrent
  /\ \A o \in Ops : /\ op[o].ins \cup op[o].used \subseteq 1 .. issued
                     /\ op[o].target \in Paths \cup {NoPath}
                     /\ op[o].stage \in {"idle", "redeemed", "copying", "armed"}
                     /\ op[o].prep \in {"none", "asked", "orphan", "held", "gone"}

(* What the window may use: a path that may be written belongs to one grant*)
(* only, its lock is held by exactly that grant, and every grant was asked *)
(* for after the last revocation of the window's grants, also when a dialog*)
(* or a replacement's confirmation was open while they were revoked.       *)
GrantsHold ==
  /\ \A b, c \in bindings : b # c /\ b.path = c.path => b.access = "read" /\ c.access = "read"
  /\ \A p \in Paths, g \in 1 .. MaxGrants :
       locks[p] = g <=> \E b \in Binding(g) : b.path = p /\ b.access = "write"
  /\ \A b \in bindings : b.asked = generation

(* A grant is redeemed once, by one operation, although the redemption     *)
(* takes several steps and other operations name the same grant.           *)
RedeemedOnce == \A o, q \in Ops : o # q => op[o].used \cap op[q].used = {}

(* No file of the user is replaced before all the outputs of the operation *)
(* were found valid.                                                       *)
OutputsAreValidated ==
  \A p \in Paths : \A o \in Ops, k \in 1 .. MaxGrants : disk[p] = <<o, k>> => op[o].valid = Outputs[o]

(* However an operation ends, its grants are gone with their locks, so are *)
(* its temporary file and its directory, the container it prepared is gone *)
(* or goes when it comes, and its place is free.                           *)
EndedLeaveNothing ==
  /\ \A o \in Ops : Ended(o) =>
       /\ \A b \in bindings : b.id \notin op[o].ins \cup {op[o].outs[k] : k \in DOMAIN op[o].outs}
       /\ ~ op[o].temp /\ ~ op[o].root /\ op[o].prep \in {"none", "orphan", "gone"}
  /\ active = Cardinality({o \in Ops : Running(o)})

(* Redeeming a grant that was revoked publishes nothing.                   *)
RevokedPublishesNothing ==
  [][\A p \in Paths : disk'[p] # disk[p] /\ Len(disk'[p]) = 2 => locks[p] # 0]_vars
===============================================================================
