------------------------------ MODULE ScopeLocks ------------------------------
(***************************************************************************)
(* The operating-system locks behind LocalMutationCoordinator, at the      *)
(* grain of one system call per step (core/mutation.py: _open_private,     *)
(* _lock, _unlock, _catalog, the lock phase of _acquire, and the lock-file *)
(* collection of _maintain).                                               *)
(*                                                                         *)
(* Every scope has a lock file in <namespace>/locks.  A lock is an         *)
(* exclusive, non-blocking flock on the inode a process has open, so the   *)
(* lock protects an inode and not a name: a collector that unlinks a file  *)
(* between another process's open and flock would leave two owners of one  *)
(* scope, each on an inode of its own.  The catalog lock, which is never   *)
(* collected, serialises opening with collection.                          *)
(***************************************************************************)
EXTENDS Integers, FiniteSets

CONSTANTS
  Proc,     \* coordinator instances (a flock belongs to an open file, so two
            \* instances in one OS process exclude each other as well)
  Scope,    \* opaque resource identifiers
  Inode,    \* inode numbers the kernel can give to lock files
  None      \* no process, no inode

ASSUME ScopeLocksAssumption == None \notin Proc \cup Inode

VARIABLES
  slot,    \* slot[s]: inode that the lock-file name of s points to, or None
  catalog, \* process that holds catalog.lock, or None
  pc,      \* control state of each process
  role,    \* what the process entered the catalog for
  todo,    \* scopes the running loop has still to visit
  want,    \* scopes of the acquisition; of a collector, the file to unlink
  fd,      \* fd[p][s]: inode that p has open for s, or None
  locked   \* locked[p]: scopes whose open inode p holds the flock of

vars == <<slot, catalog, pc, role, todo, want, fd, locked>>

PC == {"idle", "loop", "opened", "checked", "held", "releasing", "unlink"}
Role == {"acquire", "collect"}

Init ==
  /\ slot = [s \in Scope |-> None]
  /\ catalog = None
  /\ pc = [p \in Proc |-> "idle"]
  /\ role = [p \in Proc |-> "acquire"]
  /\ todo = [p \in Proc |-> {}]
  /\ want = [p \in Proc |-> {}]
  /\ fd = [p \in Proc |-> [s \in Scope |-> None]]
  /\ locked = [p \in Proc |-> {}]

(* Mutant: the catalog is taken without waiting for its present holder.    *)
EnterCatalogUnserialised(p, r, S, w) ==
  /\ pc[p] = "idle"
  /\ catalog' = p
  /\ pc' = [pc EXCEPT ![p] = "loop"]
  /\ role' = [role EXCEPT ![p] = r]
  /\ todo' = [todo EXCEPT ![p] = S]
  /\ want' = [want EXCEPT ![p] = w]
  /\ UNCHANGED <<slot, fd, locked>>

(* Enter the catalog with the scopes to visit.  The code polls for the     *)
(* catalog for five seconds and gives up; giving up changes nothing.  Both *)
(* loops have a fixed order, which non-blocking locks make irrelevant.     *)
EnterCatalog(p, r, S, w) ==
  /\ pc[p] = "idle"
  /\ catalog = None
  /\ catalog' = p
  /\ pc' = [pc EXCEPT ![p] = "loop"]
  /\ role' = [role EXCEPT ![p] = r]
  /\ todo' = [todo EXCEPT ![p] = S]
  /\ want' = [want EXCEPT ![p] = w]
  /\ UNCHANGED <<slot, fd, locked>>

(* _acquire with its ordered scope identifiers.                            *)
BeginAcquire(p, S) == EnterCatalog(p, "acquire", S, S)

(* _maintain walks the lock files it finds.                                *)
BeginCollect(p) ==
  EnterCatalog(p, "collect", {s \in Scope : slot[s] # None}, {})

(* An inode number is free when no name and no descriptor refers to it.    *)
FreeInode(s, i) == slot[s] # i /\ \A q \in Proc : fd[q][s] # i

(* os.open(O_CREAT): the inode the name points to, or a new one.           *)
OpenSlot(p, s) ==
  /\ pc[p] = "loop"
  /\ s \in todo[p]
  /\ \E i \in Inode :
       /\ IF slot[s] = None THEN FreeInode(s, i) ELSE i = slot[s]
       /\ slot' = [slot EXCEPT ![s] = i]
       /\ fd' = [fd EXCEPT ![p][s] = i]
  /\ todo' = [todo EXCEPT ![p] = @ \ {s}]
  /\ pc' = [pc EXCEPT ![p] = "opened"]
  /\ UNCHANGED <<catalog, role, want, locked>>

(* The file that _lock has open and not locked yet.                        *)
Pending(p, s) == fd[p][s] # None /\ s \notin locked[p]

(* _open_private compares the open inode with the one the name points to.  *)
CheckName(p, s) ==
  /\ pc[p] = "opened"
  /\ Pending(p, s)
  /\ fd[p][s] = slot[s]
  /\ pc' = [pc EXCEPT ![p] = "checked"]
  /\ UNCHANGED <<slot, catalog, role, todo, want, fd, locked>>

(* flock(LOCK_EX | LOCK_NB) on the inode that p has open succeeds.         *)
FlockFree(p, s) ==
  \A q \in Proc \ {p} : ~ (s \in locked[q] /\ fd[q][s] = fd[p][s])

AcquireLock(p, s) ==
  /\ pc[p] = "checked"
  /\ role[p] = "acquire"
  /\ Pending(p, s)
  /\ FlockFree(p, s)
  /\ locked' = [locked EXCEPT ![p] = @ \cup {s}]
  /\ pc' = [pc EXCEPT ![p] = "loop"]
  /\ UNCHANGED <<slot, catalog, role, todo, want, fd>>

(* MUTATION_CONFLICT, or MUTATION_JOURNAL_UNSAFE from the comparison.      *)
Refused(p, s) ==
  /\ Pending(p, s)
  /\ \/ pc[p] = "opened" /\ fd[p][s] # slot[s]
     \/ pc[p] = "checked" /\ ~ FlockFree(p, s)
  /\ fd' = [fd EXCEPT ![p][s] = None]

(* Mutant: the refused path returns without leaving the catalog.           *)
AcquireFailKeepsCatalog(p, s) ==
  /\ role[p] = "acquire"
  /\ Refused(p, s)
  /\ todo' = [todo EXCEPT ![p] = {}]
  /\ pc' = [pc EXCEPT ![p] = "releasing"]
  /\ UNCHANGED <<slot, catalog, role, want, locked>>

(* A refused acquisition leaves the catalog first and then gives back the  *)
(* locks it had taken so far.                                              *)
AcquireFail(p, s) ==
  /\ role[p] = "acquire"
  /\ Refused(p, s)
  /\ catalog' = None
  /\ todo' = [todo EXCEPT ![p] = {}]
  /\ pc' = [pc EXCEPT ![p] = "releasing"]
  /\ UNCHANGED <<slot, role, want, locked>>

AcquireDone(p) ==
  /\ pc[p] = "loop"
  /\ role[p] = "acquire"
  /\ todo[p] = {}
  /\ catalog' = None
  /\ pc' = [pc EXCEPT ![p] = "held"]
  /\ UNCHANGED <<slot, role, todo, want, fd, locked>>

(* One _unlock: at the end of a mutation, at close(), or of the partial    *)
(* set of a failed acquisition.  The catalog is not held.                  *)
Release(p, s) ==
  /\ pc[p] \in {"held", "releasing"}
  /\ s \in locked[p]
  /\ locked' = [locked EXCEPT ![p] = @ \ {s}]
  /\ fd' = [fd EXCEPT ![p][s] = None]
  /\ pc' = [pc EXCEPT ![p] = "releasing"]
  /\ UNCHANGED <<slot, catalog, role, todo, want>>

Released(p) ==
  /\ pc[p] = "releasing"
  /\ locked[p] = {}
  /\ pc' = [pc EXCEPT ![p] = "idle"]
  /\ want' = [want EXCEPT ![p] = {}]
  /\ UNCHANGED <<slot, catalog, role, todo, fd, locked>>

(* Mutant: the collector does not probe the lock before unlinking.         *)
CollectUnprobed(p, s) ==
  /\ pc[p] = "checked"
  /\ role[p] = "collect"
  /\ Pending(p, s)
  /\ fd' = [fd EXCEPT ![p][s] = None]
  /\ want' = [want EXCEPT ![p] = {s}]
  /\ pc' = [pc EXCEPT ![p] = "unlink"]
  /\ UNCHANGED <<slot, catalog, role, todo, locked>>

(* The collector's probe lock is given back at once, because the handle    *)
(* has to be closed before the file can be deleted on Windows; want names  *)
(* the file whose unlink is due.                                           *)
CollectProbe(p, s) ==
  /\ pc[p] = "checked"
  /\ role[p] = "collect"
  /\ Pending(p, s)
  /\ FlockFree(p, s)
  /\ fd' = [fd EXCEPT ![p][s] = None]
  /\ want' = [want EXCEPT ![p] = {s}]
  /\ pc' = [pc EXCEPT ![p] = "unlink"]
  /\ UNCHANGED <<slot, catalog, role, todo, locked>>

CollectSkip(p, s) ==
  /\ role[p] = "collect"
  /\ Refused(p, s)
  /\ pc' = [pc EXCEPT ![p] = "loop"]
  /\ UNCHANGED <<slot, catalog, role, todo, want, locked>>

(* Mutant: the collector leaves its loop in a state of its own.            *)
CollectUnlinkLost(p, s) ==
  /\ pc[p] = "unlink"
  /\ s \in want[p]
  /\ slot' = [slot EXCEPT ![s] = None]
  /\ want' = [want EXCEPT ![p] = {}]
  /\ pc' = [pc EXCEPT ![p] = "unlinked"]
  /\ UNCHANGED <<catalog, role, todo, fd, locked>>

CollectUnlink(p, s) ==
  /\ pc[p] = "unlink"
  /\ s \in want[p]
  /\ slot' = [slot EXCEPT ![s] = None]
  /\ want' = [want EXCEPT ![p] = {}]
  /\ pc' = [pc EXCEPT ![p] = "loop"]
  /\ UNCHANGED <<catalog, role, todo, fd, locked>>

CollectDone(p) ==
  /\ pc[p] = "loop"
  /\ role[p] = "collect"
  /\ todo[p] = {}
  /\ catalog' = None
  /\ pc' = [pc EXCEPT ![p] = "idle"]
  /\ UNCHANGED <<slot, role, todo, want, fd, locked>>

(* The process dies: the kernel closes its descriptors.                    *)
Crash(p) ==
  /\ pc[p] # "idle"
  /\ catalog' = IF catalog = p THEN None ELSE catalog
  /\ pc' = [pc EXCEPT ![p] = "idle"]
  /\ todo' = [todo EXCEPT ![p] = {}]
  /\ want' = [want EXCEPT ![p] = {}]
  /\ fd' = [fd EXCEPT ![p] = [s \in Scope |-> None]]
  /\ locked' = [locked EXCEPT ![p] = {}]
  /\ UNCHANGED <<slot, role>>

(* The straight-line code of one process between entering the catalog and  *)
(* leaving it.                                                             *)
CatalogStep(p) ==
  \/ \E s \in Scope : \/ OpenSlot(p, s)
                      \/ CheckName(p, s)
                      \/ AcquireLock(p, s)
                      \/ AcquireFail(p, s)
                      \/ CollectProbe(p, s)
                      \/ CollectSkip(p, s)
                      \/ CollectUnlink(p, s)
  \/ AcquireDone(p)
  \/ CollectDone(p)

Next ==
  \E p \in Proc :
    \/ \E S \in SUBSET Scope \ {{}} : BeginAcquire(p, S)
    \/ BeginCollect(p)
    \/ CatalogStep(p)
    \/ \E s \in Scope : Release(p, s)
    \/ Released(p)
    \/ Crash(p)

Spec == Init /\ [][Next]_vars

(* A running process executes its next statement; nothing obliges a caller *)
(* to begin a mutation or to end one.                                      *)
Fairness == \A p \in Proc : WF_vars(CatalogStep(p))

FairSpec == Spec /\ Fairness

-------------------------------------------------------------------------------
(* Types of the variables.                                                 *)
TypeOK ==
  /\ slot \in [Scope -> Inode \cup {None}]
  /\ catalog \in Proc \cup {None}
  /\ pc \in [Proc -> PC]
  /\ role \in [Proc -> Role]
  /\ todo \in [Proc -> SUBSET Scope]
  /\ want \in [Proc -> SUBSET Scope]
  /\ fd \in [Proc -> [Scope -> Inode \cup {None}]]
  /\ locked \in [Proc -> SUBSET Scope]

(* A process owns the scopes of a complete acquisition.                    *)
Owns(p, s) == pc[p] = "held" /\ s \in want[p]

(* No scope ever has two owners, however acquisition, release, collection  *)
(* of lock files and process deaths interleave: removing an unused lock    *)
(* file cannot split ownership across two inodes (core/mutation.py         *)
(* _catalog and _maintain; docs/reference/MUTATION_RECOVERY.md).           *)
OneOwner ==
  \A p, q \in Proc : \A s \in Scope : Owns(p, s) /\ Owns(q, s) => p = q

(* Collection never fences a live owner: the inode it locked is still the  *)
(* one its lock file names, which _validate_owner re-checks before every   *)
(* publication step.                                                       *)
OwnerStillNamed ==
  \A p \in Proc : \A s \in Scope :
    Owns(p, s) => s \in locked[p] /\ fd[p][s] = slot[s]

(* Whoever enters the catalog leaves it, also on the refused and failing   *)
(* paths: a coordinator cannot starve every other one.                     *)
CatalogIsLeft == \A p \in Proc : catalog = p ~> catalog # p

===============================================================================
