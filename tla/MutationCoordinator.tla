-------------------------- MODULE MutationCoordinator --------------------------
(***************************************************************************)
(* LocalMutationCoordinator (core/mutation.py): the durable journal of     *)
(* operations, the scopes they reserve, and the fenced leases that the     *)
(* coordinators of one namespace hold on them.  A coordinator is driven by *)
(* one adapter, which binds paths, acquires, announces the commit, checks  *)
(* the lease, publishes by a rename and records the result; it can die     *)
(* between any two of these steps, and another coordinator recovers what   *)
(* it left.  ScopeLocks models how the locks themselves are taken; here    *)
(* all the locks of an acquisition are taken in one step or not at all.    *)
(***************************************************************************)
EXTENDS Integers, FiniteSets

CONSTANTS
  Proc,        \* coordinators, each with at most one mutation under way
  Key,         \* idempotency keys, one per intended mutation
  Path,        \* spellings of file names
  Canon,       \* Canon[s]: the canonical path a spelling resolves to
  Bound,       \* Bound[k]: spellings whose scopes the mutation binds
  Dest,        \* Dest[k]: the spelling the mutation replaces
  Object,      \* inode numbers of the files concerned
  Retained,    \* keys whose request has retain_outcome set
  Foreign,     \* canonical paths a program outside the protocol may rename
  LockLoss,    \* scopes whose lock file may be deleted from outside
  MaxGen,      \* bound: change times an inode goes through
  MaxFence,    \* bound: acquisitions of one operation
  None         \* no file, no process, no operation

ASSUME MutationCoordinatorAssumption ==
  /\ Canon \in [Path -> Path]
  /\ Bound \in [Key -> SUBSET Path]
  /\ Dest \in [Key -> Path]
  /\ \A k \in Key : Dest[k] \in Bound[k]
  /\ Retained \subseteq Key
  /\ Path \cap Object = {}
  /\ None \notin Proc \cup Key \cup Path \cup Object
  /\ None \notin Object \X (0..MaxGen)
  /\ MaxGen \in Nat
  /\ MaxFence \in Nat

VARIABLES
  at,       \* at[c]: inode that canonical path c names, or None
  gen,      \* gen[o]: change time of inode o
  moved,    \* canonical paths whose revision an outside program changed
  row,      \* row[k]: the journal's record of the operation of k
  scopes,   \* scopes[id]: operation that reserves the scope, or None
  lockOf,   \* lockOf[id]: holder of the lock its lock file names, or None
  pc,       \* control state of each coordinator and its adapter
  req,      \* req[p]: the request p works on
  expect,   \* expect[p]: revisions p insists on
  held,     \* held[p]: scopes p has locked
  fence,    \* fence[p]: fencing number of p's lease
  live,     \* live[p]: p's lease has not expired
  done      \* done[k]: publications made for k

journal == <<row, scopes>>
files == <<at, gen, moved, done>>
vars == <<at, gen, moved, row, scopes, lockOf, pc, req, expect, held, fence,
          live, done>>

Id == Path \cup Object
File == {Canon[s] : s \in Path}
Terminal == {"COMMITTED", "ABORTED"}
Open == {"PREPARED", "COMMITTING", "RECOVERY_REQUIRED"}

(* Control states: a request in memory, locks taken, a lease held, and the *)
(* owner check passed but its write still due.                             *)
Requesting == {"bound", "checked", "rebound"}
Locked == {"locked", "relocked"}
Leased == {"prepared", "precommit", "committing", "ready", "swapped",
           "recovering", "finishing"}
PC == {"idle", "resolved"} \cup Requesting \cup Locked \cup Leased

-------------------------------------------------------------------------------
(* _revision: what stat says of the file a path names.                     *)
Revision(s) ==
  LET o == at[Canon[s]] IN IF o = None THEN None ELSE <<o, gen[o]>>

Seen(S) == [s \in S |-> Revision(s)]

(* Mutant: only the selected spelling and the inode are identified.        *)
IdsAsSpelled(S) == S \cup ({at[Canon[s]] : s \in S} \ {None})

(* bind: the selected and canonical names and the inode, when there is one *)
(* (names that only differ in case share an identifier).                   *)
Ids(S) ==
  S \cup {Canon[s] : s \in S} \cup ({at[Canon[s]] : s \in S} \ {None})

Request(k) == [key |-> k, ids |-> Ids(Bound[k]), seen |-> Seen(Bound[k])]

NoRow == [state |-> "absent", req |-> None, owner |-> None, fence |-> 0]

Init ==
  /\ at \in [File -> Object \cup {None}]
  /\ gen = [o \in Object |-> 0]
  /\ moved = {}
  /\ row = [k \in Key |-> NoRow]
  /\ scopes = [id \in Id |-> None]
  /\ lockOf = [id \in Id |-> None]
  /\ pc = [p \in Proc |-> "idle"]
  /\ req = [p \in Proc |-> None]
  /\ expect = [p \in Proc |-> None]
  /\ held = [p \in Proc |-> {}]
  /\ fence = [p \in Proc |-> 0]
  /\ live = [p \in Proc |-> FALSE]
  /\ done = [k \in Key |-> 0]

Unresolved(k) == row[k].state \in Open

(* bind, with a request built from it.                                     *)
Bind(p, k) ==
  /\ pc[p] = "idle"
  /\ pc' = [pc EXCEPT ![p] = "bound"]
  /\ req' = [req EXCEPT ![p] = Request(k)]
  /\ expect' = [expect EXCEPT ![p] = Seen(Bound[k])]
  /\ UNCHANGED <<files, journal, lockOf, held, fence, live>>

(* interrupted and rebind: the recorded request, for authorised paths.     *)
Rebind(p, k) ==
  /\ pc[p] = "idle"
  /\ Unresolved(k)
  /\ pc' = [pc EXCEPT ![p] = "rebound"]
  /\ req' = [req EXCEPT ![p] = row[k].req]
  /\ UNCHANGED <<files, journal, lockOf, expect, held, fence, live>>

(* The caller gives up, on an error or because it has its answer.          *)
Drop(p) ==
  /\ pc[p] \in Requesting
  /\ pc' = [pc EXCEPT ![p] = "idle"]
  /\ req' = [req EXCEPT ![p] = None]
  /\ expect' = [expect EXCEPT ![p] = None]
  /\ UNCHANGED <<files, journal, lockOf, held, fence, live>>

(* acquire's first transaction: nothing recorded for the key, or this very *)
(* intent without a result.  Otherwise the caller has a result or an error *)
(* (Drop).                                                                 *)
CheckRecord(p) ==
  /\ pc[p] = "bound"
  /\ LET r == row[req[p].key] IN
       r.state = "absent" \/ (r.state \in Open /\ r.req = req[p])
  /\ pc' = [pc EXCEPT ![p] = "checked"]
  /\ UNCHANGED <<files, journal, lockOf, req, expect, held, fence, live>>

(* Mutant: the lock of an expired lease counts as free.                    *)
LockAllExpired(p, S, next) ==
  /\ \A id \in S : IF lockOf[id] = None THEN TRUE ELSE ~ live[lockOf[id]]
  /\ lockOf' = [id \in Id |-> IF id \in S THEN p ELSE lockOf[id]]
  /\ held' = [held EXCEPT ![p] = S]
  /\ pc' = [pc EXCEPT ![p] = next]
  /\ UNCHANGED <<files, journal, req, fence, live>>

LockAll(p, S, next) ==
  /\ \A id \in S : lockOf[id] = None
  /\ lockOf' = [id \in Id |-> IF id \in S THEN p ELSE lockOf[id]]
  /\ held' = [held EXCEPT ![p] = S]
  /\ pc' = [pc EXCEPT ![p] = next]
  /\ UNCHANGED <<files, journal, req, fence, live>>

(* A conflicting lock refuses the acquisition (Drop).                      *)
Lock(p) ==
  /\ pc[p] = "checked"
  /\ LockAll(p, req[p].ids, "locked")
  /\ UNCHANGED expect

(* Mutant: recovery locks the scopes of the original request only.         *)
RelockOriginal(p) ==
  /\ pc[p] = "rebound"
  /\ LockAll(p, req[p].ids, "relocked")
  /\ expect' = [expect EXCEPT ![p] = Seen(Bound[req[p].key])]

(* Recovery fences the present inode as well as the original reservation,  *)
(* and insists on the revisions that the fresh bind has seen.              *)
Relock(p) ==
  LET S == Bound[req[p].key] IN
  /\ pc[p] = "rebound"
  /\ LockAll(p, req[p].ids \cup Ids(S), "relocked")
  /\ expect' = [expect EXCEPT ![p] = Seen(S)]

(* Every lock of p goes back, and p is as if it had never asked.           *)
Forgotten(p) ==
  /\ lockOf' = [id \in Id |-> IF lockOf[id] = p THEN None ELSE lockOf[id]]
  /\ pc' = [pc EXCEPT ![p] = "idle"]
  /\ req' = [req EXCEPT ![p] = None]
  /\ expect' = [expect EXCEPT ![p] = None]
  /\ held' = [held EXCEPT ![p] = {}]
  /\ fence' = [fence EXCEPT ![p] = 0]
  /\ live' = [live EXCEPT ![p] = FALSE]

(* Mutant: an operation's own reservation refuses it as well.              *)
ReservableOnce(k, S) == \A id \in S : scopes[id] = None

(* No other operation has reserved one of the scopes.                      *)
Reservable(k, S) == \A id \in S : scopes[id] \in {None, k}

Fresh(p) == expect[p] = Seen(Bound[req[p].key])

(* The checks of acquire's second transaction.                             *)
Admitted(p) ==
  LET r == row[req[p].key] IN
  /\ IF pc[p] = "locked" THEN r.state = "absent"
                         ELSE r.state \in Open /\ r.req = req[p]
  /\ Reservable(req[p].key, held[p])
  /\ Fresh(p)

(* The writes of acquire's second transaction.                             *)
Own(p, state, next) ==
  LET k == req[p].key IN
  /\ row[k].fence < MaxFence
  /\ row' = [row EXCEPT ![k] = [state |-> state, req |-> req[p], owner |-> p,
                                fence |-> row[k].fence + 1]]
  /\ scopes' = [id \in Id |-> IF id \in held[p] /\ scopes[id] = None
                               THEN k ELSE scopes[id]]
  /\ fence' = [fence EXCEPT ![p] = row[k].fence + 1]
  /\ live' = [live EXCEPT ![p] = TRUE]
  /\ pc' = [pc EXCEPT ![p] = next]
  /\ UNCHANGED <<files, lockOf, req, expect, held>>

Acquire(p) ==
  /\ pc[p] = "locked"
  /\ Admitted(p)
  /\ Own(p, "PREPARED", "prepared")

Recover(p) ==
  /\ pc[p] = "relocked"
  /\ Admitted(p)
  /\ Own(p, "RECOVERY_REQUIRED", "recovering")

(* A recorded result, a reservation or a stale revision ends the attempt.  *)
Refuse(p) ==
  /\ pc[p] \in Locked
  /\ ~ Admitted(p)
  /\ Forgotten(p)
  /\ UNCHANGED <<files, journal>>

(* _validate_owner: the locks p holds are the named ones, and the journal  *)
(* knows no later owner.                                                   *)
Owner(p) ==
  LET r == row[req[p].key] IN
  /\ \A id \in held[p] : lockOf[id] = p
  /\ r.owner = p /\ r.fence = fence[p]

(* validate: an unexpired owner.                                           *)
Valid(p) == live[p] /\ Owner(p)

(* An UPDATE by operation identifier, which no other condition guards.     *)
Update(k, state) ==
  row' = [row EXCEPT ![k].state = IF @ = "absent" THEN @ ELSE state]

At(p, here, next) ==
  /\ pc[p] = here
  /\ pc' = [pc EXCEPT ![p] = next]
  /\ UNCHANGED <<req, expect, held, fence, live>>

(* transition(COMMITTING) re-checks owner, expiry and revisions ...        *)
CommitCheck(p) ==
  /\ At(p, "prepared", "precommit")
  /\ Valid(p)
  /\ Fresh(p)
  /\ UNCHANGED <<files, journal, lockOf>>

(* ... and writes, in a transaction of its own.                            *)
CommitWrite(p) ==
  /\ At(p, "precommit", "committing")
  /\ Update(req[p].key, "COMMITTING")
  /\ UNCHANGED <<files, scopes, lockOf>>

(* The adapter's last look at its lease before the rename.                 *)
Validate(p) ==
  /\ At(p, "committing", "ready")
  /\ Valid(p)
  /\ UNCHANGED <<files, journal, lockOf>>

(* An inode no name refers to; the kernel may reuse it with a later time.  *)
NewFile(o) == gen[o] < MaxGen /\ \A c \in File : at[c] # o

(* The rename: a new file under the name, and the inode that loses a name  *)
(* gets a new change time.                                                 *)
Publish(p) ==
  LET k == req[p].key
      c == Canon[Dest[k]]
  IN
  /\ At(p, "ready", "swapped")
  /\ \E o \in Object :
       /\ NewFile(o)
       /\ at' = [at EXCEPT ![c] = o]
       /\ at[c] # None => gen[at[c]] < MaxGen
       /\ gen' = [x \in Object |-> IF x \in {o, at[c]} THEN gen[x] + 1 ELSE gen[x]]
  /\ done' = [done EXCEPT ![k] = @ + 1]
  /\ UNCHANGED <<moved, journal, lockOf>>

(* A terminal transition: the lease may have expired, ownership may not.   *)
(* A lease that was only prepared can be aborted, and a recovered one      *)
(* resolved as the adapter finds the files.                                *)
FinishCheck(p) ==
  /\ \E here \in {"prepared", "committing", "ready", "swapped", "recovering"} :
       At(p, here, "finishing")
  /\ Owner(p)
  /\ UNCHANGED <<files, journal, lockOf>>

(* Mutant: the result is recorded and the reservation left behind.         *)
FinishWriteKeeping(p) ==
  LET k == req[p].key IN
  /\ At(p, "finishing", "resolved")
  /\ Update(k, IF done[k] > 0 THEN "COMMITTED" ELSE "ABORTED")
  /\ UNCHANGED <<files, scopes, lockOf>>

FinishWrite(p) ==
  LET k == req[p].key IN
  /\ At(p, "finishing", "resolved")
  /\ Update(k, IF done[k] > 0 THEN "COMMITTED" ELSE "ABORTED")
  /\ scopes' = [id \in Id |-> IF scopes[id] = k THEN None ELSE scopes[id]]
  /\ UNCHANGED <<files, lockOf>>

(* The locks go after the result is recorded; the caller keeps its request *)
(* and may retry with it, for the revisions that it was made for.          *)
Release(p) ==
  /\ pc[p] = "resolved"
  /\ lockOf' = [id \in Id |-> IF lockOf[id] = p THEN None ELSE lockOf[id]]
  /\ pc' = [pc EXCEPT ![p] = "bound"]
  /\ expect' = [expect EXCEPT ![p] = req[p].seen]
  /\ held' = [held EXCEPT ![p] = {}]
  /\ fence' = [fence EXCEPT ![p] = 0]
  /\ live' = [live EXCEPT ![p] = FALSE]
  /\ UNCHANGED <<files, journal, req>>

(* Mutants: close gives the reservation up; close has a state of its own.  *)
CloseFreeing(p) ==
  LET k == req[p].key IN
  /\ pc[p] \in Leased
  /\ row' = [row EXCEPT ![k].state = "RECOVERY_REQUIRED"]
  /\ scopes' = [id \in Id |-> IF scopes[id] = k THEN None ELSE scopes[id]]
  /\ Forgotten(p)
  /\ UNCHANGED files

CloseAsExpired(p) ==
  LET k == req[p].key IN
  /\ pc[p] \in Leased
  /\ row' = [row EXCEPT ![k].state = IF live[p] THEN "RECOVERY_REQUIRED" ELSE "EXPIRED"]
  /\ Forgotten(p)
  /\ UNCHANGED <<files, scopes>>

(* close: the reservation stays, for whoever recovers it (and so does a    *)
(* result, in the column of its own that state stands for here).           *)
Close(p) ==
  LET k == req[p].key IN
  /\ pc[p] \in Leased
  /\ row' = [row EXCEPT ![k].state =
               IF row[k].owner = p /\ row[k].fence = fence[p] /\ Unresolved(k)
                 THEN "RECOVERY_REQUIRED" ELSE @]
  /\ Forgotten(p)
  /\ UNCHANGED <<files, scopes>>

(* The process dies; the kernel drops its locks.                           *)
Crash(p) ==
  /\ pc[p] # "idle"
  /\ Forgotten(p)
  /\ UNCHANGED <<files, journal>>

(* Time passes the lease's expiry, or the request's deadline that bounds   *)
(* every renewal; a renewal before that changes nothing seen here.         *)
Expire(p) ==
  /\ live[p]
  /\ live' = [live EXCEPT ![p] = FALSE]
  /\ UNCHANGED <<files, journal, lockOf, pc, req, expect, held, fence>>

(* _maintain forgets old results that nobody asked to retain (the code     *)
(* keeps the newest 256 of them).                                          *)
Prune(k) ==
  /\ k \notin Retained
  /\ row[k].state \in Terminal
  /\ row' = [row EXCEPT ![k] = NoRow]
  /\ UNCHANGED <<files, scopes, lockOf, pc, req, expect, held, fence, live>>

(* A program outside the protocol renames, links or deletes a file.        *)
Rename(c, o) ==
  /\ c \in Foreign \ moved
  /\ at[c] # o
  /\ \A x \in {o, at[c]} \ {None} : gen[x] < MaxGen
  /\ at' = [at EXCEPT ![c] = o]
  /\ gen' = [x \in Object |-> IF x \in {o, at[c]} THEN gen[x] + 1 ELSE gen[x]]
  /\ moved' = moved \cup {d \in File : d = c \/ at[d] \in {o, at[c]} \ {None}}
  /\ UNCHANGED <<done, journal, lockOf, pc, req, expect, held, fence, live>>

(* Somebody deletes a lock file: its next opener locks a new inode.        *)
LoseLockFile(id) ==
  /\ id \in LockLoss
  /\ lockOf[id] # None
  /\ lockOf' = [lockOf EXCEPT ![id] = None]
  /\ UNCHANGED <<files, journal, pc, req, expect, held, fence, live>>

Step(p) ==
  \/ \E k \in Key : Bind(p, k) \/ Rebind(p, k)
  \/ Drop(p)
  \/ CheckRecord(p)
  \/ Lock(p)
  \/ Relock(p)
  \/ Acquire(p)
  \/ Recover(p)
  \/ Refuse(p)
  \/ CommitCheck(p)
  \/ CommitWrite(p)
  \/ Validate(p)
  \/ Publish(p)
  \/ FinishCheck(p)
  \/ FinishWrite(p)
  \/ Release(p)
  \/ Close(p)
  \/ Crash(p)
  \/ Expire(p)

Next ==
  \/ \E p \in Proc : Step(p)
  \/ \E k \in Key : Prune(k)
  \/ \E c \in Foreign \cap File : \E o \in Object \cup {None} : Rename(c, o)
  \/ \E id \in LockLoss \cap Id : LoseLockFile(id)

Spec == Init /\ [][Next]_vars

-------------------------------------------------------------------------------
(* Types of the variables.                                                 *)
Revisions == (Object \X (0..MaxGen)) \cup {None}
Expected == UNION {[Bound[k] -> Revisions] : k \in Key}
Requests == [key : Key, ids : SUBSET Id, seen : Expected]
Rows == [state : {"absent"} \cup Open \cup Terminal, req : Requests \cup {None},
         owner : Proc \cup {None}, fence : 0..MaxFence]

TypeOK ==
  /\ at \in [File -> Object \cup {None}]
  /\ gen \in [Object -> 0..MaxGen]
  /\ moved \subseteq File
  /\ row \in [Key -> Rows]
  /\ scopes \in [Id -> Key \cup {None}]
  /\ lockOf \in [Id -> Proc \cup {None}]
  /\ pc \in [Proc -> PC]
  /\ req \in [Proc -> Requests \cup {None}]
  /\ expect \in [Proc -> Expected \cup {None}]
  /\ held \in [Proc -> SUBSET Id]
  /\ fence \in [Proc -> 0..MaxFence]
  /\ live \in [Proc -> BOOLEAN]
  /\ done \in [Key -> Nat]

(* An operation without a result keeps every scope of its request, through *)
(* crashes, closes and recoveries, and a resolved one keeps none: nobody   *)
(* can mutate a file an interrupted operation may have half replaced, and  *)
(* nothing stays blocked by one that is over.                              *)
Reservations ==
  \A k \in Key :
    IF Unresolved(k)
      THEN \A id \in row[k].req.ids : scopes[id] = k
      ELSE \A id \in Id : scopes[id] # k

(* An owner that has passed its last check replaces exactly the revision   *)
(* the caller authorised: no other mutation got in between, through this   *)
(* spelling, another one or a hard link, and whatever crashed before.      *)
NoLostUpdate ==
  \A p \in Proc : pc[p] = "ready" =>
    \/ Fresh(p)
    \/ \E s \in Bound[req[p].key] : Canon[s] \in moved

(* A recorded result tells what happened to the file, and stays true: an   *)
(* aborted mutation never publishes, also not when its paused owner wakes  *)
(* up after somebody else's recovery, and a committed one has published    *)
(* exactly once, however its request is retried.                           *)
ResultIsTrue ==
  \A k \in Retained :
    /\ row[k].state = "ABORTED" => done[k] = 0
    /\ row[k].state = "COMMITTED" => done[k] = 1

(* Both: what is published is what was authorised and what is recorded.    *)
MutationsAreExact == NoLostUpdate /\ ResultIsTrue

(* Interrupted operations never wait on each other: while nobody works on  *)
(* them, at least one of them can be recovered.                            *)
Recoverable(k) ==
  Unresolved(k) /\ Reservable(k, row[k].req.ids \cup Ids(Bound[k]))

NoRecoveryDeadlock ==
  (\E k \in Key : Unresolved(k)) /\ moved = {} => \E k \in Key : Recoverable(k)

(* What is recorded is true, and what is not can be resolved.              *)
MutationsHold == MutationsAreExact /\ NoRecoveryDeadlock

(* Two owners never work on one inode: a hard link to the file that has    *)
(* appeared under a name since its mutation was interrupted cannot be      *)
(* mutated while that mutation is being reconciled.  An owner whose lock   *)
(* file was replaced has stopped being one (_validate_owner).              *)
AliasesExclude ==
  \A p, q \in Proc :
    /\ p # q
    /\ {pc[p], pc[q]} \subseteq Leased
    /\ Owner(p) /\ Fresh(p)
    /\ Owner(q) /\ Fresh(q)
    => Ids(Bound[req[p].key]) \cap Ids(Bound[req[q].key]) = {}

(* A lease that expires does not release ownership: its operation is not   *)
(* taken over while its owner lives (MUTATION_RECOVERY.md).                *)
PausedOwnerKeeps ==
  [][\A p \in Proc : pc[p] \in Leased /\ pc'[p] \in Leased => (Owner(p) => Owner(p)')]_vars

(* The journal as OperationLog describes it.                               *)
Status(k) ==
  IF Unresolved(k) THEN "open"
  ELSE IF row[k].state = "COMMITTED" THEN "committed"
  ELSE IF row[k].state = "ABORTED" THEN "aborted"
  ELSE "absent"

Reserved(k) == {id \in Id : scopes[id] = k}

Log == INSTANCE OperationLog WITH
  status <- [k \in Key |-> Status(k)],
  reserved <- [k \in Key |-> Reserved(k)]

LogSpec == Log!Spec
================================================================================
