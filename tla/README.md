# AncestryLLM in TLA+

AncestryLLM is a local-first genealogy application: a Python service (command
line, console, and a private HTTP API that runs as a sidecar process) and an
Electron desktop that starts the sidecar and talks to it. This directory models
the parts of it in which processes, threads, coroutines, messages and crashes
meet, and the algorithms whose results are hard to foresee. TLC checks the models
on small instances, TLAPS proves some of the results for every value of the
constants.

Paths below are relative to the repository; `core/jobs.py` is short for
`src/ancestryllm/core/jobs.py`, a bare `.ts` file is in `desktop/src/main/`.
`PROJECT.json` maps every definition to the lines it stands for, lists the runs,
a mutant for every property, the hazards of the code and the theorems.

## 1. The system

### 1.1 Components, their state and operations

| Component | State | Operations |
|---|---|---|
| Mutation coordinator, `core/mutation.py` | journal (SQLite: operations, scopes, bindings), one lock file per scope, one catalog lock; the leases of this process | bind, rebind, interrupted, acquire, recover, validate, renew, transition, close, _maintain |
| Atomic file replacement, `core/atomic_file.py` | the destination, a staged file beside it, a record in the journal | acquire (`__enter__`), publish, _persist, _resolve, reconcile |
| Directory and bundle publication, `core/directory_mutation.py`, `core/bundle_mutation.py`, `core/publication.py`, `gedcom/sync_publication.py` | staged members, displaced originals and backups, a record per operation | acquire, track, committing, finish, reconcile |
| Job manager, `core/jobs.py`, `core/cancellation.py` | records, slots of a bounded queue, one lock per resource key, an executor, cancellation tokens | submit, _execute, cancel, discard_result, wait, shutdown |
| Job lifecycle, `application/jobs.py`, `storage/job_events.py` | last snapshot and numbered events of each job (database), subscriptions with a bounded queue | _on_snapshot, subscribe, next, cancel, prepare_shutdown, startup, close |
| Chat, `llm/chat.py`, `llm/chat_streaming.py`, `llm/async_stream.py` | sessions with messages, runs with a bounded replay, one task and one provider thread per run | start, run, open_stream, consume_stream, teardown, close; start, subscribe, cancel, shutdown, startup |
| LLM service, `llm/service.py`, `llm/execution.py`, `storage/operation_receipts.py` | audit rows and receipts (database), lanes with pending and active counters, a single-flight result cache | generate, async_stream, terminalize_stream_audit, reconcile_interrupted_stream_runs; admission, capacity, get_or_execute, close |
| Provider configuration, `llm/profiles.py`, `llm/provider_configuration.py`, `llm/endpoint_validation.py`, `llm/policy.py` | profiles and consents (database), one lock | create_profile, preview_consent, create_consent, revoke_consent, test; resolve_request, authorize |
| Inspection worker, `gedcom/inspection_worker.py`, `gedcom/service.py` | a child process, slots, a private directory, leases on results | inspect, monitor, terminate, sweep, release, close |
| GEDCOM, `gedcom/root_index.py`, `identity.py`, `graph.py`, `parser.py`, `quality.py` | an index file; else their inputs | build, verify, search; merge_people, scoped_tree_pointers, retained records |
| Synchronisation, `gedcom/sync_kernel.py`, `sync_algorithms.py`, `sync_manifest.py` | master, manifest with bindings and tombstones, snapshots | execute, update, rebase, merge of records |
| RootsMagic and ingress, `rootsmagic/source.py`, `rootsmagic/mapping.py`, `core/ingress.py` | a private copy of a database, a file being read | open, verify_source, read, _scope_people |
| Desktop main process, `sidecar-supervisor.ts`, `chat-stream-controller.ts`, `file-grant-broker.ts`, `mediated-operation-broker.ts`, `macos-arm64-runtime-manager.ts`, `container-supervisor.ts` | the supervised process, streams with their acknowledgement debt, file grants, the installed runtime and its containers | start, retry, stop; connect, acknowledge; grant, redeem, run; acquire, install, repair, start, stop, uninstall; authorize, control |
| Desktop renderer, `desktop/src/renderer/src/TaskCenter.tsx`, `task-center-state.ts` | the tasks in view, their subscriptions | load, refresh, subscribe, retry, cancel |
| Everything else (command tables, console, settings, OCR, containers' wrappers, release tooling) | files and view state | see `PROJECT.json` |

### 1.2 How they interact

* Publications of files and directories hold a **lease** of the coordinator while
  they write: the coordinator orders them across processes, the publication's own
  record in the same journal says how far it got, and whoever comes next after a
  crash calls `reconcile`, which takes the lease over with the next fence.
* `JobManager` runs functions in a thread pool. Every change of a job makes a
  snapshot **under the manager's lock and delivers it after leaving it**;
  `JobLifecycleService` is a listener, records what it is given and offers it to
  the subscribers. A client of the API replays what it has missed and then
  follows its queue; the task centre of the renderer is such a client, behind
  one channel of the main process.
* A chat run is a coroutine that consumes what a provider thread produces. It
  writes an audit row and a receipt in transactions of their own and publishes
  events that clients replay and follow by sequence number; the desktop's chat
  controller hands them on in batches against acknowledgements.
* A request to a provider reads its consent, its profile and the address of its
  endpoint in separate steps, passes a lane, and shares the execution of an
  identical one.
* The sidecar reconciles jobs and audits before it serves, and shuts chat, then
  jobs down; the desktop asks `prepare_shutdown` before it ends the sidecar.

### 1.3 What is hard, and what would be correct

* *Coordinator:* one owner of a scope whatever files are collected, linked or
  renamed; reservations outlive their owner; results true and final; recovery
  always possible.
* *Replacements and publications:* a recorded result tells the truth about the
  disk, nothing of an unfinished one stays behind, nobody else's file is touched.
* *Reads:* what is read of a file that others change is one version of it.
* *Jobs:* slots, locks and results accounted for exactly in every interleaving; an
  accepted cancellation is never answered with success; every job ends, its
  clients learn the one true outcome across lost writes, overflow and restart.
* *Chat and requests:* client, session, audit and receipt agree; counters exact,
  nothing executed twice at a time, nothing sent to a provider nobody consented to.
* *Desktop:* one sidecar, exact delivery, no file replaced before all is valid,
  true reports about the runtime, a view that never goes back.
* *Synchronisation:* what was deleted by hand stays away, a pointer means one
  person for ever, no record, fact or citation is lost or doubled.

The hazards of `PROJECT.json` name each at its line. One has no property yet
(faults of the database within a chat run, `llm/chat_streaming.py:355`).

## 2. The modules

| Module | Models | Grain of a step |
|---|---|---|
| `ScopeLocks` | `_catalog`, `_lock`, `_open_private`, `_unlock`, collection of lock files in `_maintain` | one system call |
| `MutationCoordinator` | `_acquire`, `recover`, `bind`, `validate`, `renew`, `transition`, `close`, pruning | one transaction, lock or check |
| `OperationLog` | abstract: what the journal promises | one change of an operation |
| `AtomicFile` | publication of one file and its reconciliation | one durable step |
| `AtomicReplace` | abstract: an operation opens, installs, and reports truly | |
| `SyncPublication` | a release directory: staging, exclusive rename, rollback, recovery, report | one durable step |
| `BundlePublication` | a set of files: staging, displacement, installation, finish, rollback, recovery | one durable step |
| `StagedFile` | the staged file of `core/publication.py` and its cleanup by name and handle | one system call |
| `SourceSnapshot` | copy, verification and reading of a RootsMagic database | one system call |
| `FileIngress` | reading an untrusted text file within its limits | one read or check |
| `JobManager` | submission, worker, cancellation, discarding, shutdown | what one thread does under one lock |
| `JobLifecycle` | snapshots, their delivery, event log, streams, shutdown, restart | as `JobManager`, and one delivery |
| `ChatStream` | sessions, runs, provider threads, audit, receipts, replay | what a coroutine does up to its next commit or wait |
| `ProviderExecution` | lanes, queue timeout, retries, shared executions, cache | what is done under one lock |
| `ProviderSetup` | profiles, consents, endpoint tests, and what a request reads of them | one transaction, lock or resolution |
| `InspectionWorker` | slots, private directory and its removal, child, deadline, leases, sweep | one system call or lock; of a removal, one entry |
| `RootIndex` | index of roots, its verification, pages and cursors | one system call or page |
| `IdentityMerge` | search within limits, merging, publication of the merge command | one candidate |
| `FamilyScope` | unique pointers, scopes of a tree, retained records, generations | one walk |
| `SyncKernel` | one `execute` over its ports with decisions, cancellation and recovery | one port call |
| `SyncMerge`, `RecordMerge` | the persons, and the other records, of an update | one update |
| `SidecarSupervisor` | launch, probe, exit, restarts, retry, stop, drain | what runs between two awaits |
| `ChatDelivery` | batches, acknowledgements, window, backpressure, reconnection | what runs between two awaits |
| `FileMediation` | grants, dialogs, operations with staged inputs and outputs | what runs between two awaits |
| `RuntimeManager` | acquisition, installation, binding, start, stop, uninstallation, crashes, policy updates | one durable step |
| `ContainerSupervisor` | authorized operations between two verifications | what runs between two awaits |
| `TaskCenter` | reducer, subscriptions, reloads, retries, and the main process behind them | one message or effect |

`MC*` modules give values that a configuration cannot write, and **suites** check
components that never meet in one run: `MCPublications`, `MCServices`, `MCDesktop`
and `MCFiles` have a variable `part` that says which component a behaviour is
about, and instantiate each over variables they share; those of the other parts
stay "none". A property of a suite is the conjunction of what the modules state,
each under its part. `*Proofs` modules hold the theorems.

Notes on the correspondence that a reader of the code will need:

**ScopeLocks.** The control state of a process walks through the system calls of
an acquisition (open the catalog lock, open and check each lock file, lock it,
leave the catalog) or of a collection. `dir` maps a scope's name to an inode, so
that a file opened before its name was collected is another one than the file
created after it. `MutationCoordinator` takes from it that a scope has one
owner, as an atomic `lockOf`.

**MutationCoordinator.** `at`, `gen` are the file system (which object a path
names, and its revision); `row` and `scopes` the journal; `held`, `req`,
`pc` the memory of an invocation. The identifiers of a file are its canonical
spelling and its inode, as `bind` computes them. `Rename` is another program
(only in the directories of `Foreign`), `LoseLockFile` a deleted lock file (only
for `LockLoss`); both are empty in the run `coordinator` and not in `files`. Expiry is a step that may happen at any time to any lease.

**AtomicFile.** One invocation per operation, any of which may reconcile what an
earlier one left. A crash keeps what is on disk and forgets what is in memory.
`Overwrite` and `ReplaceStage` are other programs. `misjudged` is a history
variable: operations whose reconciliation read a record that was out of date when
it got the lock (run `atomic_file_race`).

**SyncPublication, BundlePublication.** The coordinator is reduced to one lock
and one reservation, the POSIX branch is modelled, the check of the root and its
use are one step, and creating the root is left out. A bundle's recovery can be
refused for ever in two known ways (`RecoveryNeverStuck`, section 6), and
`misjudged` marks the same stale read as in `AtomicFile`.

**StagedFile, SourceSnapshot, FileIngress.** Another program writes only under
the names the model gives it. `SourceSnapshot` numbers the versions of a
database and reads it in one step; rows, nesting and Windows handles are left
out, a temporary directory after a crash is the operating system's. `FileIngress`
has one-byte characters; encodings, byte-order marks, NUL and archives are one
refusal, "format". Handles of Windows, `KeyboardInterrupt` and errors of `close`
are left out of all three.

**JobManager.** A submitting thread, a worker, cancelling and discarding threads
and the one that shuts down, each with a control state. The lock object of a key
is named by the job that made it, so that two jobs waiting for two objects of
one key can be told.

**JobLifecycle.** Keeps of a job what its snapshots show. `notice` holds, for
each thread of a job, the snapshot it has still to deliver; deliveries of
different threads come in any order. `log` is the full history, of which the
repository keeps the last `Retained` events. A client follows the route's
code: subscribe, replay, terminal check, queue, and the desktop's rules for
reconnecting.

**ChatStream.** The event loop is the actor: `agenda` is the rest of the running
coroutine up to where it waits. Between two entries the process may die or a
thread may run, but no other coroutine: this is what asyncio gives, and where the
code commits twice without waiting, only a crash can come between. `events[r]` is
everything published; the replay keeps the last `Replay`. Left out: faults of the
database during a run, an answer's text (`text` or only `blank`). The deadline is
one step although the code also tells the thread to stop by a timer. An oversized
chunk takes the path of a failure.

**ProviderExecution, ProviderSetup.** Costs, limits, purposes and data classes are
reduced to models; a provider is determined by its endpoint, which is not pinned
when the request executes. A revision is what a snapshot shows, as the digest is
of that.

**InspectionWorker.** Every removal of a directory (`Finally`, `NotRetained`,
`Erase`, `SweepOne`) is `shutil.rmtree`: `Remove` begins it, `Unlink` takes one
entry at a time in any order, `RemovalEnds` takes the empty directory away or
leaves what an error spared; the instance may die in between, and an orphan child
may write. `begun` holds the directories that a removal has begun on and not taken
away: of those the properties promise only that their inspection was over. An
instance that dies forgets everything, its requests, leases and removals. A sweep
may overlook any directory, which stands for the cut of the listing at 32 entries.
The roots of an older layout and the second that a killed child is waited for are
left out.

**RootIndex, IdentityMerge, FamilyScope.** A candidate is its place in display
order, a search what its text finds; the in-memory search matches other fields
than the index does, which the model keeps. Scores, conflicts and safety of a
pair are inputs; records of clusters that were merged before are assessed
nondeterministically. Iteration over sets takes any order.

**SyncKernel, SyncMerge, RecordMerge.** Adapters are external: they answer or
fail. Error codes are reduced, MAX_EVENTS is never reached. Time is left out of
the manifest, person matching reduced to an identity.

**SidecarSupervisor.** A quit walks through the sidecar's answer (`Answers`), its
arrival (`Received`), the revocation of the file grants (`Revoked`) and the stop;
jobs are admitted until the stop, as nothing in the sidecar or the application
closes admission (`StartJob`). `late` is a history variable: the jobs that began
after the answer. That the broker does not exist for a moment after the first start
is left out: its revocation may take no time. A process that was terminated is
taken to stay away; diagnostics and the Windows branch are left out.

**ChatDelivery, FileMediation.** A client resumes from `receivedSequence`, as
the code does (the document says the acknowledged cursor). A read grant that is
staged does not notice a revocation during the copy, and a revocation frees the
path while a publication is armed, as in the code. Outputs are published one by
one. Digests and the remote adapter are abstracted.

**RuntimeManager, ContainerSupervisor.** The host is supported and the server
honours ranges; plan and confirmation checks are left out; damage comes between
operations. Compose is external, the clock is an expiry event, parsing is
abstracted.

**TaskCenter.** Requests are served in order, over one channel from main to
renderer; the service may skip events. Artifacts, labels, the clock and refused
cancellations are left out.

## 3. What is checked

| Run | Properties | Question |
|---|---|---|
| `publications` | `TypeOK`, `OneOwner`, `OwnerStillNamed`, `CatalogIsLeft`; `PublicationsHold`, `SetsAreWhole` | Has a scope ever two owners, or one whose lock file is no longer the named one, and is the catalog lock always left? Is a release directory whole at every moment, are reports true, can the next invocation finish, do files of others survive, is a result recorded for a set true of the whole set? |
| `coordinator` | `TypeOK`, `Reservations`, `MutationsHold`, `PausedOwnerKeeps`, `LogSpec` | Do overlapping mutations with aliases, expiry, crashes, recovery and pruning lose updates, record untrue results, lose reservations or wait in a circle? Does the journal implement `OperationLog`? |
| `files` | `ReplacementsHold`, `ReplaceSpec`; `AliasesExclude`; `ReadsAreWhole`, `StagesHold`, `RootsHold`, `PeopleHold` | Is a recorded replacement true after any crash and interference, does it implement `AtomicReplace`? Do aliases of a file exclude each other when other programs rename files and lock files are deleted? Are reads one version, stages claimed and cleaned as sealed, index pages true? Do merged people and scopes follow from limits, conflicts and relations? |
| `job_manager` | `JobsHold`, `JobsEnd` | Are slots, locks, results and cancellations exact, does shutdown miss no job, does every job end? |
| `job_events` | `EventsAreTold`, `NumbersAreFresh`, `EndsAreLearnt` | One true outcome, contiguous streams, fresh numbers; do log and client learn every outcome? |
| `chat_stream` | `RunsAgree`, `NothingIsTakenBack`, `EverythingEnds` | Do client, session, audit and receipt agree; are streams without gap; do runs, threads and streams end? |
| `services` | `InspectionsHold`, `RequestsExact`, `KernelIsTrue`, `MergesHold`, `MergesLoseNothing`, `WorkEnds` | Are leases whole, do inspections that end leave nothing but what a removal spared, is a crash before a removal reclaimable, are lanes, cache and consent exact, is a synchronisation's result true, does a merge lose, double or resurrect anything, does everything end? |
| `desktop` | `ProcessesAccounted`, `OnlyLateJobsAreCut`, `DeliveryExact`, `MediationHolds`, `RuntimeHolds`, `TasksHold`, `NeverBack`, `DesktopSettles` | One sidecar, a stop that cuts off no job the assessment could have seen, exact delivery, files replaced only when all is valid, true reports about runtime and containers, a task view that is true and never goes back; does everything settle? |
| `atomic_file_race` | `InterruptedIsInert` | *violated:* "An interrupted acquisition is inert." |
| `job_safe_to_quit` | `SafeToQuitIsSafe` | *violated:* `safe_to_quit` while a terminal snapshot is under way. |
| `sidecar_exit` | `ExitIsNoticed` | *violated:* "unexpected crashes receive at most two restart attempts". |
| `safe_before_stop` | `SafeBeforeStop` | *violated:* "Process shutdown continues only after a safe assessment". |

Each property has a mutant: a plausible bug in the code it is about, written
beside the definition it changes, under which TLC finds the property violated.

### 3.1 Bounds, and why they are enough

* `publications`: 3 processes (an owner, one that acquires, one that collects), 2
  scopes (so that an acquisition can fail between its locks), 4 inodes (one more
  than can be open or named at once in the interesting case). 2 releases, and 2
  bundles of 2 targets of which one is a link: one that is interrupted and one
  that recovers it.
* `coordinator`: 2 invocations, each of which may crash and come back as the next
  one; 2 operations that share one of two files through an alias; 3 inodes, so
  that a publication changes identity; `MaxGen` 2 revisions; `MaxFence` 2, an
  owner and its recovery.
* `files`: 3 interchangeable invocations (two that overlap and one that
  reconciles), one foreign content; two mutations (`MutationCoordinator` again)
  whose destinations are two existing files, one in a directory other programs write to,
  the lock file of the other one deletable, with `MaxGen` 1 and `MaxFence` 2; 2 changes of a database while it is copied;
  7 texts of up to 3 bytes with `MaxLine` 2, `MaxRecords` 2, `Chunk` 2 and 2
  changes, so that each limit is met and a line spans two chunks; 4 changes of a
  staging name; 2 builders, 3 candidates, 5 searches, 1 upset; 5 people of 3
  files with limits that each cut the search off (bucket 4, pairs 3, scored 6,
  candidates 4, per person 2, adjudications 3); five family trees: a plain one,
  an uncle who marries his niece, two with cycles, two files with equal pointers.
* `job_manager`: 2 jobs that name both of two keys, the pool and the queue just as
  large; one with a cleanup and a protected section. A third job, which would
  make a new lock object while a second still waits, is beyond the time of a run;
  section 4 proves `JobsHold` for any number of jobs.
* `job_events`: 1 job number, 2 starts (the second one recovers), 1 progress
  report (a snapshot that may be overtaken), `Retained` 2 and `QueueSize` 1, so
  that both overflow, writes that fail in the first start.
* `chat_stream`: 2 runs one after the other in 1 session, 1 client that follows the
  first, 2 starts, 1 chunk, 1 cancellation by a client, room for one message
  pair, one known run and one event in the replay, so that each limit is met.
* `services`: 2 inspections over 1 slot and 1 lease, in one or two instances of which
  one may die; 3 requests over one lane;
  two writers of settings and 2 calls, one set-up with 3 calls and one write of
  the command line, one request with a consent, one write and one change of the
  address; a kernel request with no, one or two decisions; 4 releases of which 3
  updates take any sequence (a record must come, go and come back).
* `desktop`: `MaxRestarts` 1, `MaxManualRetries` 1; one reconnection of a chat stream
  over three sizes of events; 2 file operations on 3 interchangeable paths with 3
  grants; 3 policies of the runtime; 2 callers, 2 authorizations and 2 calls of
  the containers; task centre with one job, 3 events, 1 fault, skip and cancel;
  with two jobs that compete for one stream; and with one that is loaded twice.

Counters are capped by guards with the named bounds (`MaxGen`, `MaxFence`,
`MaxStarts`, `MaxProgress`, `MaxChunks`, `MaxCancels`, `MaxId`, `MaxUpsets`,
`MaxWishes`, ...). Deadlock is not checked where a run may rightly stop: all
operations resolved, all jobs over, the last start shut down.

### 3.2 Fairness

* `ScopeLocks`: a process inside the catalog section goes on (it calls nothing
  that waits there) or dies, and the operating system then closes its files.
* `JobManager`: the executor takes work, a submitting thread and a worker go on.
  Strong fairness of `Ends`: `lock.acquire(timeout=0.05)` is tried again
  and again, and a function that has a safe point comes to it.
* `JobLifecycle`: threads deliver, protected sections end, a client comes back;
  a process other than the last one ends some day (`WF(Crash)`), which is what
  reconciliation at the next start needs. A stream that can be overtaken again
  and again by disconnections gets its replay some day (`SF(SendReplay)`).
* `ChatStream`: the loop runs what is ready, a deadline passes (`TimeOut` is part
  of `Read`), a provider call returns so that its thread sees the stop event, and
  a process that has ended is started again while starts are left.
* `services`: a parent goes on and its deadline interrupts a child; a request takes
  its next step or times out; the kernel's ports answer or fail.
* `desktop`: launches, terminations and the stop have deadlines, the operating
  system reports an exit, timers fire, connections open or fail, a renderer that
  is there acknowledges. `WF(Repair)` is a user who goes on repairing a runtime
  that is not ready; `DesktopSettles` promises the runtime only to that one.

Nothing is assumed of clients' cancellations, disconnections, crashes of the last
process, or of other programs.

## 4. What is proved

For any number of processes, scopes, operations, paths, jobs and so on; the named
ASSUMEs of the modules are the only premises but where a theorem states another.

* `ScopeLocksProofs`: `TypeCorrect`, `MutualExclusion` (`OneOwner`) and
  `CollectionSparesOwners` (`OwnerStillNamed`). None is inductive by itself: two
  processes can only be kept apart if one knows which of them is in the catalog
  section and that a file opened there is still the named one. `IInv` adds
  `CatalogInv` (the control states of the section are those of the holder of the
  catalog lock), `PendingInv` and `LockedInv` (what has been opened and locked so
  far), `ProgressInv` and `UnlinkInv` (a collector unlinks a file nobody has
  locked).
* `MutationCoordinatorProofs`: `TypeCorrect` in every environment. While lock
  files are left alone (`LockLoss = {}`), `ReservationsHold` (an unresolved
  operation keeps exactly its scopes, a resolved one none) and `ImplementsLog`
  (refinement of `OperationLog`, of which the finality of results is a part). The
  inductive invariant is `BaseInv /\ LeaseInv`: the holder of a lease has all the
  scopes of its request locked (`HeldInv`), its locks are its own (`LockInv`) and
  so is its row (`OwnerInv`), because whoever would take the row over needs the
  same locks. Every action then maps to a step of the log or to a stutter.
  In the second part, `AliasesAreExcluded` (`AliasesExclude`) needs no assumption
  on lost lock files: by `RequestInv` an owner has locked the names and the inodes
  of everything it insists on (`CoverInv`), so two owners that are still fresh work
  on different files. With `LockLoss = {}`, `MutationsCorrect` (`MutationsHold`)
  adds `ExactInv` (what a holder of a lease has checked no other changes until it
  publishes, `FreshInv`, unless another program moved it, `MovedInv`) for results
  and lost updates, and `WaitInv` (interrupted operations are ordered by who
  reserves what the others' paths name now, `OrderInv`) for the absence of circles.
  `PausedOwner` (`PausedOwnerKeeps`) follows from the same invariant.
* `AtomicFileProofs`: `TypeCorrect`; `ReplacementsCorrect` (`ReplacementsHold`: a
  recorded result is true and every interruption can be resolved);
  `AliensSpared` (`SparesAliens`); and `Implements` (`ReplaceSpec`), by a
  refinement mapping under which each durable step is a step of `AtomicReplace`
  or a stutter. The invariant ties what an invocation remembers of its stage to
  the directory and the record, and says of a record which of the durable steps
  can have been the last.
* `SyncPublicationProofs`: `SyncTyped`, `AlwaysWhole` (`GenerationsAreWhole`),
  `ReportsStayTrue` (`ReportsHold`) and `AlwaysRecoverable` (`RecoveryIsPossible`),
  the safety of the release directory in `PublicationsHold`. `RecInv` ties the
  directory of an operation to its durable record: `Written` while it grows, at
  most one entry ahead of what is sealed, `Removed` once a cleanup is recorded. `OwnerInv` says
  by control state how far the directory of a living owner can be ahead of that
  record, `MarkInv` what `finish` has established before it removes or commits. A
  recoverer has read its copy of the record before it had the lock, so little is
  known of the copy (`MemInv`), and all conclusions come from what it compares under
  the lock. `LockedStep` reduces a step under the lock to what it does to one
  directory.
* `BundlePublicationProofs`: `BundleTyped`, `AlienFilesAreKept`
  (`ForeignFilesSurvive`), `ResultsAreWhole` (`RecordsWholeSets`) and
  `RecoveryGoesOn` (`RecoveryResolves`), for any number of targets. The copy of the
  record names the originals of the durable one always, and is the durable one
  unless the operation is misjudged (`AgreeInv`). `FilesInv` says by the record
  where the original and the new file of every target can be (at the target, in the
  backup, moved beside it, nowhere else), `OwnerInv` and `StepInv` say by control
  state which of the places it is for the target at hand, `FreshInv` and `OwnInv`
  that an operation's files carry its name from its record on and are no original,
  `LinkInv` that a link is moved and never copied. That a refused recovery stays
  refused (`RefusedInv`) needs that nobody but its own recoverers has the lock.
  Every action has a step of its own, and under it one per part of the invariant;
  `LockedStep` and `ApartStep` leave only the operation at hand to be looked at.
  Both publications assume of their constants that None is nothing else and that
  contents differ (`SyncAssumption`, `BundleAssumption`), which TLC evaluates for
  the constants of `MCPublications`.
* `JobManagerProofs`: `JobsCorrect` (`JobsHold`). Slots and references are
  counted: `SlotInv` (free slots and the threads that hold one make `max_pending`)
  and `TableInv` (the references of a lock are the jobs that use it, all of which
  have the same lock object). A count only stays right if nobody gives back twice;
  `SubmittedInv`, `FutureInv` and `WorkerInv` relate the control states of
  submission, future, worker and snapshot so that exactly one of the failing
  submission, the withdrawing cancellation and the ending worker ever does.
  `GotInv` (two holders of one key have different lock objects) and `TableInv`
  contradict each other for two running jobs with a common key.
* `JobLifecycleProofs`: `EventsTold` (`EventsAreTold`) and `FreshNumbers`
  (`NumbersAreFresh`). That a job has one true end in the log does not follow from
  the log alone: three threads deliver its snapshots in any order. `WorkInv` and
  `NoticeInv` say that whatever a thread has still to deliver is true of the job
  (`Truthful`): a terminal snapshot is its outcome, one that shows a cancellation
  is of a job that can no longer complete. `LogInv` carries that over the death of
  the process. `StreamInv` says that the queue of a stream holds just the numbers
  between what it has sent, or will replay, and the end of the log. Numbers are
  fresh because `NextNumber` is beyond the log at every start; that such a number
  exists is an induction, done with the well-foundedness of `<` on sets
  (`Greatest`).
* `ChatStreamProofs`: `RunsAlwaysAgree` (`RunsAgree`) and `NothingEverTakenBack`
  (`NothingIsTakenBack`). Three parties end a run - its task, a cancellation and
  the next start - and each commits the row, the receipt and the event one after
  the other, with a crash possible between any two. What is still to be done is in
  `agenda`, so the invariant says of every item what is already true of its run
  (`AgendaInv`), and of a run that reads without a running row that its end is on
  the agenda (`ReadingInv`); hence the second party to end a run finds the first
  one's outcome and keeps it. `BusyInv` names the one holder of a busy session,
  and `ReaderInv` numbers what a stream has yet to send from what it has sent. The
  assumption is that the mark of a synchronous request is no run (`NoSync`). That
  finitely many runs have begun, which the order of recovery needs, is proved
  (`FiniteInv`), not assumed.

With deleted lock files `Reservations` and the refinement fail: an owner that has
passed `_validate_owner` writes to a row that somebody else has resolved by then,
as the UPDATE of `transition` (`core/mutation.py:738`) names neither token nor
fence. Setting `LockLoss = {a}` in `Coordinator.cfg` and checking either of the two
alone shows it, in a behaviour of twelve steps.

Only model-checked: `CatalogIsLeft`, `JobsEnd`, `EndsAreLearnt`, `EverythingEnds`,
`WorkEnds` and `DesktopSettles` (liveness, out of the prover's reach, as is
ENABLED), and the safety of the suites `services` and `desktop` and of the other
half of `files` (`ReadsAreWhole`, `StagesHold`, `RootsHold`, `PeopleHold`,
`InspectionsHold`, `RequestsExact`, `KernelIsTrue`, `MergesHold`,
`MergesLoseNothing`, `ProcessesAccounted`, `OnlyLateJobsAreCut`, `DeliveryExact`,
`MediationHolds`, `RuntimeHolds`, `TasksHold`, `NeverBack`). What `PublicationsHold`
and `SetsAreWhole` say in `MCPublications` of one component at a time is proved
above, conjunct by conjunct. Of the rest, what the algorithms of
`IdentityMerge`, `FamilyScope`, `SyncMerge` and `RecordMerge` compute is a matter
of induction over data.

## 5. Findings

1. **A replacement that took place is recorded as aborted**
   (`atomic_file_race`). `reconcile` reads the missing record at
   `core/atomic_file.py:201` and gets the lock only after the owner has recorded,
   staged, renamed and died. It keeps to what it read.
2. **`safe_to_quit` too early** (`job_safe_to_quit`). A job leaves
   `manager.active()` before its terminal snapshot is recorded
   (`application/jobs.py:826`); after `close` the snapshot is dropped and the next
   start reports the completed job as failed.
3. **A sidecar that is gone is served** (`sidecar_exit`). The exit listener is
   added after the probe was awaited (`sidecar-supervisor.ts:591`); an exit in
   between is never noticed and no restart is tried, other than
   `docs/reference/DESKTOP_SIDECAR.md:155` says.
4. **A job is cut off by a quit that was found safe** (`safe_before_stop`). The
   assessment closes no admission. While its answer travels, or the grants of the
   file broker are revoked (`index.ts:362`), a job may be submitted, and the stop
   ends the sidecar under it; `DESKTOP_SIDECAR.md:206` says that active work is
   never silently abandoned and that shutdown "continues only after a safe
   assessment". What does hold is `OnlyLateJobsAreCut`: the jobs that are cut off
   all began after the answer.

### Disagreements without a run of their own

Found while modelling; the definitions named here are in the modules and can be
given to TLC in a configuration of the same suite.

* *Bundle recovery stuck* (`RecoveryNeverStuck`): "Recovery restores the old complete
  set or finishes the verified new set" (MUTATION_RECOVERY.md), but two states are
  refused by every later recovery.
* *Residue of a cut removal* (`ResidueIsReclaimable`): `rmtree` may have unlinked the
  owner's record before it is cut by a crash or spares the index with an error; no
  sweep removes a directory without that record (`inspection_worker.py:593-604`,
  `:636-641`), while `INSPECTION_RESULTS.md:60` says that the scan "provides restart
  cleanup for residual owned directories". (`INSPECTION_WORKER.md:131` means unmarked
  directories to be kept, for those that are not marked yet.)
* *Chat pause* (`SourceIsPaused`): a reconnection resumes a paused stream.
* *Revocation* (`RevokedPublishesNothing`): outputs may be published after their
  window was revoked.
* *Close of the lanes* (`QueuedWorkStops`): queued work is executed after close.
* *A stream that stops short* (`StopsOnlyWhenTold`, `api/app.py:1044`): it returns
  when the job is over after the replay, without the events queued since.
* *Receipts pending for ever* (`ReceiptsResolve`, `llm/service.py:471`): the scan reads
  running audit rows only; a crash between the two commits leaves a receipt.
* *Runtime* (`RetriesServe`): a `.part` longer than what a new policy pins blocks
  set-up and repair for ever (manager `:359`; DESKTOP_SHELL.md promises that a retry
  serves); a crash leaves `.install-*` and `.tools-previous`; stop and
  uninstallation are refused when the marker or the tools do not verify, a repair
  when resources drifted; a failed termination of compose is passed over
  (`failAfterTermination`).
* *Consent* (how-to `desktop-provider-consent.md:57-67`): the grant is read once per
  run, so that a withdrawal during a run takes no effect; a configuration snapshot
  can be torn by the command line, which writes between its transactions.
* *Task centre* (`Learns`): a second load while a refresh is under way leaves an id in
  `subscriptionsRef` that is never subscribed again (DESKTOP_SHELL.md ~200); a job
  refused for `JOB_SUBSCRIBER_LIMIT` is not retried when a failure frees a slot.
* *Scopes* (`DescendantsAreFound`): `scoped_tree_pointers` (`gedcom/graph.py:195-267`)
  loses the descendants of a person it first kept as a co-parent, depending on the
  order; `_scope_people` of RootsMagic does not. `ancestor_generations` misses a
  cycle among ancestors of one generation. The connected scope ignores the
  generation limit; ANCI, DESI, SUBN and custom references are not rewritten.
* *Synchronisation* (`PeopleStayDeleted`): a person deleted by hand comes back under a
  new pointer after a rebase (ARCHITECTURE.md:1487); deleting one of two undated
  occupations removes the other with the next update; a bound person with several
  namesakes gets a new pointer with each snapshot; facts kept out by a namesake's
  tombstone do not return; a note that cites a source is added again.
* *Settings:* `ModuleRegistry.enable/disable` save without a revision
  (`core/modules.py:108,113`), the configuration in memory is never read again
  after another process saved.

## 6. Kept in the modules, not checked by a run

Besides those named above: `StreamCloses`, `RetriesServeUnlessTooLarge`,
`LifecycleSettles`, `Disappeared` (parts or variants of the liveness that
`DesktopSettles` checks) and the type invariants of `AtomicFile`, `JobManager`,
`JobLifecycle` and `ChatStream`, whose runs check stronger things.

## 7. Not modelled

Parts without state or concurrency of their own are listed in `PROJECT.json`
with the reason. Beyond that: faults of the database inside a chat run, Windows
branches where they take the same steps, the wording and redaction of messages,
progress and outcome texts, retention of receipts, the synchronous stream of the
LLM service.

## 8. Plan

Next, proofs about the desktop's supervisors and brokers, whose safety is stated in
their modules, and about `AtomicFile`'s neighbours among the readers and staging
directories. Then database faults in `ChatStream`.
