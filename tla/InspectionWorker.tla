--------------------------- MODULE InspectionWorker ---------------------------
(***************************************************************************)
(* GEDCOM inspections: run_inspection supervises a child process that      *)
(* works in a private directory, GedcomService retains the finished        *)
(* directory as a lease until it is released, expires or the service is    *)
(* closed, and an instance of the application that starts an inspection    *)
(* removes the directories that dead instances left.  The instances of one *)
(* user share the temporary directory; any of them may die at any step,    *)
(* and its children then go on by themselves.                              *)
(***************************************************************************)
EXTENDS Naturals, FiniteSets

CONSTANTS
  Insp,       \* inspections, each with its own directory
  Homes,      \* the possible ways to spread them over instances
  Slots,      \* _WORKER_SLOTS
  MaxLeases,  \* leases that a service retains
  MaxChanges, \* bound: changes of the source file
  Mortal      \* bound: instances that may die

ASSUME InspectionAssumption == Slots \in Nat \ {0} /\ MaxLeases \in Nat \ {0}

VARIABLES
  app,       \* app[i]: the instance that runs the inspection
  source,    \* version of the inspected file
  alive,     \* the instance runs
  service,   \* its GedcomService: "open", "closing", "closed"
  free,      \* its free worker slots
  step,      \* where the inspection stands
  fprint,    \* version that the parent fingerprinted
  worker,    \* child: "none", "started", "indexed", "done", "broken", "gone"
  seen,      \* version that the child read
  files,     \* what the directory holds, with "root" for the directory itself
  removal,   \* the directory that it removes, as a set of at most one
  begun,     \* directories that a removal has begun on, and not taken away
  sweep,     \* directories that the inspection still has to look at
  over,      \* inspections that are cancelled or past their deadline
  leases,    \* _inspection_leases
  erasing    \* leases that are revoked, and not erased yet (_inspection_removals)

Apps == {app[i] : i \in Insp}
removals == <<removal, begun>>
disk == <<files, removals>>
child == <<worker, seen>>
leasing == <<service, leases, erasing>>
vars == <<app, source, alive, leasing, free, step, fprint, child, disk, sweep, over>>

Init ==
  /\ app \in Homes
  /\ source = 0
  /\ alive = [a \in Apps |-> TRUE]
  /\ service = [a \in Apps |-> "open"]
  /\ free = [a \in Apps |-> Slots]
  /\ step = [i \in Insp |-> "new"]
  /\ fprint = [i \in Insp |-> 0]
  /\ worker = [i \in Insp |-> "none"]
  /\ seen = [i \in Insp |-> 0]
  /\ files = [i \in Insp |-> {}]
  /\ removal = [i \in Insp |-> {}] /\ begun = {}
  /\ sweep = [i \in Insp |-> {}]
  /\ over = {} /\ leases = {} /\ erasing = {}

Runs(i) == alive[app[i]]
Ended == {"answered", "failed"}
Started == {"swept", "rooted", "owned", "spawned"}
Holding == Started \cup {"cleaning"}                    \* between _acquire_slot and its release
Stops(i) == i \in over                                 \* _check_deadline raises
Working(i) == worker[i] \in {"started", "indexed"}

Fails(i, to) ==                                         \* what the request knew is forgotten
  step' = [step EXCEPT ![i] = to] /\ fprint' = [fprint EXCEPT ![i] = 0] /\ over' = over \ {i}
Go(i, to) == step' = [step EXCEPT ![i] = to]
At(i, from) == Runs(i) /\ step[i] = from

-------------------------------------------------------------------------------
(* What happens around the inspections.                                    *)
Change ==
  /\ source < MaxChanges
  /\ source' = source + 1
  /\ UNCHANGED <<app, alive, leasing, free, step, fprint, child, disk, sweep, over>>

(* Its cancellation, or its deadline, where they can change something.     *)
Interrupt(i) ==
  /\ Runs(i) /\ step[i] \notin Ended \cup {"new", "cleaning", "discarding"}
  /\ over' = over \cup {i}
  /\ UNCHANGED <<app, source, alive, leasing, free, step, fprint, child, disk, sweep>>

(* An instance dies, and all that it knew is forgotten: its requests, its  *)
(* leases and the removals that it was at.                                 *)
Crash(a) ==
  LET mine == {i \in Insp : app[i] = a} IN
  /\ alive[a] /\ a \in Mortal
  /\ alive' = [alive EXCEPT ![a] = FALSE]
  /\ service' = [service EXCEPT ![a] = "closed"] /\ free' = [free EXCEPT ![a] = 0]
  /\ leases' = leases \ mine /\ erasing' = erasing \ mine /\ over' = over \ mine
  /\ step' = [i \in Insp |-> IF i \in mine THEN "lost" ELSE step[i]]
  /\ fprint' = [i \in Insp |-> IF i \in mine THEN 0 ELSE fprint[i]]
  /\ sweep' = [i \in Insp |-> IF i \in mine THEN {} ELSE sweep[i]]
  /\ removal' = [i \in Insp |-> IF i \in mine THEN {} ELSE removal[i]]
  /\ UNCHANGED <<app, source, child, files, begun>>

-------------------------------------------------------------------------------
(* _execute_inspect and run_inspection up to the slot.                     *)
Submit(i) ==
  /\ At(i, "new")
  /\ \/ /\ service[app[i]] = "open" /\ ~ Stops(i) /\ Go(i, "queued")
        /\ fprint' = [fprint EXCEPT ![i] = source] /\ UNCHANGED over
     \/ Fails(i, "failed")     \* closed, cancelled, too late, or refused by the preflight
  /\ UNCHANGED <<app, source, alive, leasing, free, child, disk, sweep>>

GiveUp(i) ==
  /\ At(i, "queued") /\ Stops(i) /\ Fails(i, "failed")
  /\ UNCHANGED <<app, source, alive, leasing, free, child, disk, sweep>>

(* _acquire_slot; _scratch_root lists the directories, of which it may see *)
(* only some (the listing of the temporary directory is cut).              *)
Acquire(i) ==
  /\ At(i, "queued") /\ ~ Stops(i) /\ free[app[i]] > 0
  /\ free' = [free EXCEPT ![app[i]] = @ - 1]
  /\ sweep' \in {[sweep EXCEPT ![i] = S] : S \in SUBSET {d \in Insp : files[d] # {}}}
  /\ Go(i, "swept")
  /\ UNCHANGED <<app, source, alive, leasing, fprint, child, disk, over>>

-------------------------------------------------------------------------------
(* shutil.rmtree: the entries are unlinked one by one, in the order of the *)
(* listing, which is any, and the directory goes when it is empty.  What   *)
(* an error spares stays: the worker and the sweep ignore it and go on     *)
(* with the next entry, the service logs it and stops there.               *)
Remove(i, d) ==
  /\ removal' = [removal EXCEPT ![i] = {d}]
  /\ begun' = begun \cup {d}

Unlink(i) ==
  /\ Runs(i)
  /\ \E d \in removal[i] : \E entry \in files[d] \ {"root"} :
       files' = [files EXCEPT ![d] = @ \ {entry}]
  /\ UNCHANGED <<app, source, alive, leasing, free, step, fprint, child, removals, sweep, over>>

(* What follows it is the slot and the end of the request, or the end of   *)
(* the lease's removal.                                                    *)
RemovalEnds(i) ==
  /\ Runs(i) /\ removal[i] # {}
  /\ \E d \in removal[i] :
       \/ UNCHANGED <<files, begun>>
       \/ /\ files[d] \subseteq {"root"}
          /\ files' = [files EXCEPT ![d] = {}]
          /\ begun' = begun \ {d}
  /\ removal' = [removal EXCEPT ![i] = {}]
  /\ IF step[i] = "cleaning" THEN free' = [free EXCEPT ![app[i]] = @ + 1] ELSE UNCHANGED free
  /\ IF step[i] \in {"cleaning", "discarding"} THEN Go(i, "failed") ELSE UNCHANGED step
  /\ IF step[i] = "answered" THEN erasing' = erasing \ {i} ELSE UNCHANGED erasing
  /\ UNCHANGED <<app, source, alive, service, leases, fprint, child, sweep, over>>

RemovalStep(i) == Unlink(i) \/ RemovalEnds(i)

-------------------------------------------------------------------------------
(* _cleanup_owned_directory: a directory goes when its owner's record is   *)
(* complete and its owner is no longer the process that wrote it.          *)
Stale(d) == "owner" \in files[d] /\ ~ Runs(d)
StaleUnlessMine(i, d) == "owner" \in files[d] /\ app[d] # app[i]

SweepAll(i, d) ==
  /\ At(i, "swept") /\ d \in sweep[i] /\ removal[i] = {}
  /\ sweep' = [sweep EXCEPT ![i] = @ \ {d}]
  /\ IF StaleUnlessMine(i, d) THEN Remove(i, d) ELSE UNCHANGED <<removal, begun>>
  /\ UNCHANGED <<app, source, alive, leasing, free, step, fprint, child, files, over>>

SweepOne(i, d) ==
  /\ At(i, "swept") /\ d \in sweep[i] /\ removal[i] = {}
  /\ sweep' = [sweep EXCEPT ![i] = @ \ {d}]
  /\ IF Stale(d) THEN Remove(i, d) ELSE UNCHANGED <<removal, begun>>
  /\ UNCHANGED <<app, source, alive, leasing, free, step, fprint, child, files, over>>

Swept(i) == step[i] = "swept" => sweep[i] = {} /\ removal[i] = {}

(* The finally clause: _stop_process (a child that the kill does not end   *)
(* within a second is left to the kill), then the removal of the directory *)
(* and the slot, or, when it succeeded, the slot alone.                    *)
Finally(i, success) ==
  IF success
    THEN /\ Go(i, "returned") /\ free' = [free EXCEPT ![app[i]] = @ + 1]
         /\ UNCHANGED <<child, fprint, over, removal, begun>>
    ELSE /\ Fails(i, "cleaning") /\ Remove(i, i)
         /\ worker' = [worker EXCEPT ![i] = "gone"] /\ seen' = [seen EXCEPT ![i] = 0]
         /\ UNCHANGED free

(* An exception after the slot was taken; memory above the budget, or that *)
(* cannot be read, is one.                                                 *)
Abandon(i) ==
  /\ Runs(i) /\ step[i] \in Started /\ Swept(i)
  /\ Finally(i, FALSE)
  /\ UNCHANGED <<app, source, alive, leasing, files, sweep>>

Checked(i) == Stops(i) /\ step[i] # "spawned" /\ Abandon(i)      \* _check_deadline

MakeRoot(i) ==
  /\ At(i, "swept") /\ Swept(i) /\ ~ Stops(i)
  /\ files' = [files EXCEPT ![i] = {"root"}]
  /\ Go(i, "rooted")
  /\ UNCHANGED <<app, source, alive, leasing, free, fprint, child, removals, sweep, over>>

(* The owner's record: the process and its start.                          *)
WriteOwner(i) ==
  /\ At(i, "rooted") /\ ~ Stops(i)
  /\ files' = [files EXCEPT ![i] = @ \cup {"owner"}]
  /\ Go(i, "owned")
  /\ UNCHANGED <<app, source, alive, leasing, free, fprint, child, removals, sweep, over>>

Spawn(i) ==
  /\ At(i, "owned") /\ ~ Stops(i)
  /\ worker' = [worker EXCEPT ![i] = "started"]
  /\ Go(i, "spawned")
  /\ UNCHANGED <<app, source, alive, leasing, free, fprint, seen, disk, sweep, over>>

-------------------------------------------------------------------------------
(* _child_main: the source is read and its index built, the result is      *)
(* written last.  Any failure is written instead; a child that cannot      *)
(* write, or dies, ends with a code other than zero.                       *)
ChildIndexes(i) ==
  /\ worker[i] = "started"
  /\ IF "root" \in files[i]
       THEN /\ files' = [files EXCEPT ![i] = @ \cup {"index"}]
            /\ worker' = [worker EXCEPT ![i] = "indexed"]
            /\ seen' = [seen EXCEPT ![i] = source]
       ELSE worker' = [worker EXCEPT ![i] = "broken"] /\ UNCHANGED <<files, seen>>
  /\ UNCHANGED <<app, source, alive, leasing, free, step, fprint, removals, sweep, over>>

ChildEnds(i, name) ==
  /\ Working(i) /\ (name = "result" => worker[i] = "indexed")
  /\ IF "root" \in files[i]
       THEN /\ files' = [files EXCEPT ![i] = @ \cup {name}]
            /\ worker' = [worker EXCEPT ![i] = "done"]
       ELSE worker' = [worker EXCEPT ![i] = "broken"] /\ UNCHANGED files
  /\ UNCHANGED <<app, source, alive, leasing, free, step, fprint, seen, removals, sweep, over>>

ChildDies(i) ==
  /\ Working(i)
  /\ worker' = [worker EXCEPT ![i] = "broken"]
  /\ UNCHANGED <<app, source, alive, leasing, free, step, fprint, seen, disk, sweep, over>>

-------------------------------------------------------------------------------
(* _monitor_process: cancellation, deadline, then the exit of the child;   *)
(* policy.verify, the outputs, the failure or the result of the child.     *)
Outputs(i) == "failure" \notin files[i] /\ {"index", "result"} \subseteq files[i]

Monitor(i) ==
  /\ At(i, "spawned")
  /\ \/ (Stops(i) \/ worker[i] = "broken") /\ Finally(i, FALSE)
     \/ ~ Stops(i) /\ worker[i] = "done" /\ Finally(i, fprint[i] = source /\ Outputs(i))
  /\ UNCHANGED <<app, source, alive, leasing, files, sweep>>

-------------------------------------------------------------------------------
(* _execute_inspect again: the result is bound to the source, the lease is *)
(* entered under the lock, and whatever fails removes the directory.       *)
Leases(a) == {i \in leases : app[i] = a}

Register(i) ==
  /\ At(i, "returned")
  /\ ~ Stops(i) /\ service[app[i]] = "open" /\ Cardinality(Leases(app[i])) < MaxLeases
  /\ leases' = leases \cup {i}
  /\ Go(i, "answered")
  /\ UNCHANGED <<app, source, alive, service, erasing, free, fprint, child, disk, sweep, over>>

NotRetained(i) ==
  /\ At(i, "returned")
  /\ Fails(i, "discarding") /\ Remove(i, i)
  /\ UNCHANGED <<app, source, alive, leasing, free, child, files, sweep>>

(* The job's cleanup and the timer both call _expire_inspection.           *)
Expire(i) ==
  /\ Runs(i) /\ i \in leases
  /\ leases' = leases \ {i}
  /\ erasing' = erasing \cup {i}
  /\ UNCHANGED <<app, source, alive, service, free, step, fprint, child, disk, sweep, over>>

Erase(i) ==
  /\ Runs(i) /\ i \in erasing /\ removal[i] = {}
  /\ Remove(i, i)
  /\ UNCHANGED <<app, source, alive, leasing, free, step, fprint, child, files, sweep, over>>

(* close: refuses new leases, revokes those it finds, and returns when all *)
(* the removals under way have ended.                                      *)
Close(a) ==
  /\ alive[a] /\ service[a] = "open"
  /\ service' = [service EXCEPT ![a] = "closing"]
  /\ erasing' = erasing \cup Leases(a)
  /\ leases' = leases \ Leases(a)
  /\ UNCHANGED <<app, source, alive, free, step, fprint, child, disk, sweep, over>>

CloseReturns(a) ==
  /\ alive[a] /\ service[a] = "closing"
  /\ \A i \in erasing : app[i] # a
  /\ service' = [service EXCEPT ![a] = "closed"]
  /\ UNCHANGED <<app, source, alive, leases, erasing, free, step, fprint, child, disk, sweep, over>>

-------------------------------------------------------------------------------
ParentStep(i) ==
  \/ Submit(i) \/ GiveUp(i) \/ Acquire(i) \/ (\E d \in Insp : SweepOne(i, d))
  \/ MakeRoot(i) \/ WriteOwner(i) \/ Spawn(i) \/ Monitor(i)
  \/ Checked(i) \/ Register(i) \/ NotRetained(i) \/ Erase(i) \/ RemovalStep(i)

ChildStep(i) ==
  ChildIndexes(i) \/ (\E name \in {"result", "failure"} : ChildEnds(i, name)) \/ ChildDies(i)

Next ==
  \/ Change
  \/ \E i \in Insp : Interrupt(i) \/ Abandon(i) \/ ParentStep(i) \/ ChildStep(i) \/ Expire(i)
  \/ \E a \in Apps : Crash(a) \/ Close(a) \/ CloseReturns(a)

Spec == Init /\ [][Next]_vars

-------------------------------------------------------------------------------
TypeOK ==
  /\ app \in Homes /\ source \in 0 .. MaxChanges
  /\ \A a \in Apps : /\ alive[a] \in BOOLEAN /\ service[a] \in {"open", "closing", "closed"}
                     /\ free[a] \in 0 .. Slots
  /\ \A i \in Insp :
       /\ step[i] \in Holding \cup Ended \cup {"new", "queued", "returned", "discarding", "lost"}
       /\ worker[i] \in {"none", "started", "indexed", "done", "broken", "gone"}
       /\ files[i] \subseteq {"root", "owner", "index", "result", "failure"}
       /\ files[i] # {} => "root" \in files[i]
       /\ removal[i] \subseteq Insp /\ Cardinality(removal[i]) <= 1
       /\ {fprint[i], seen[i]} \subseteq 0 .. MaxChanges
       /\ sweep[i] \subseteq Insp
  /\ UNION {begun, over, leases, erasing} \subseteq Insp

(* A lease that a living service holds is whole: its directory still has   *)
(* the owner's record, the index and the result, whatever the sweeps of    *)
(* other inspections and instances removed, and it was made from the       *)
(* source that was fingerprinted.  A closed service holds none.            *)
LeasesAreWhole ==
  /\ \A i \in leases :
       /\ {"owner", "index", "result"} \subseteq files[i]
       /\ worker[i] = "done" /\ seen[i] = fprint[i]
       /\ i \notin erasing
       /\ service[app[i]] = "open"
  /\ \A a \in Apps : service[a] = "closed" => \A i \in erasing : app[i] # a

(* An inspection that has ended while its instance lives leaves nothing:   *)
(* no child that still works, no directory but a leased one, one that is   *)
(* being erased or one that an error of the file system has spared, and    *)
(* its slot is free again.                                                 *)
EndedLeavesNothing ==
  /\ \A i \in Insp :
       Runs(i) /\ step[i] \in Ended =>
         ~ Working(i) /\ (files[i] # {} => i \in leases \cup erasing \cup begun)
  /\ \A a \in Apps :
       alive[a] => free[a] + Cardinality({i \in Insp : app[i] = a /\ step[i] \in Holding}) = Slots

(* Until a removal of its directory begins, whatever a crash leaves of an  *)
(* inspection can be recovered: content of the source is only in a         *)
(* directory whose owner's record is complete.  And no removal begins      *)
(* while the inspection is at work or its lease is held, whichever         *)
(* instance sweeps.                                                        *)
CrashIsReclaimable ==
  /\ \A i \in Insp \ begun : files[i] \cap {"index", "result"} # {} => "owner" \in files[i]
  /\ \A i \in begun : Runs(i) => step[i] \in {"cleaning", "discarding"} \cup Ended /\ i \notin leases

(* A removal cut by a crash or an error may leave the index without the    *)
(* owner's record, and no sweep removes such a directory: this does not    *)
(* hold (inspection_worker.py:636-641).                                    *)
ResidueIsReclaimable ==
  \A i \in Insp : ~ Runs(i) /\ "index" \in files[i] /\ (\A j \in Insp : removal[j] = {}) => "owner" \in files[i]

(* Every inspection whose instance lives ends, its child with it.          *)
InspectionsEnd ==
  \A i \in Insp : step[i] # "new" ~> (~ Runs(i) \/ step[i] \in Ended)
===============================================================================
