--------------------------- MODULE ScopeLocksProofs ---------------------------
(***************************************************************************)
(* OneOwner and OwnerStillNamed hold for any number of coordinators,       *)
(* scopes and inodes.  Neither is inductive by itself: both follow from    *)
(* the catalog serialising everything that opens, locks or unlinks         *)
(* (CatalogInv), which makes the name of a locked file stable (LockedInv)  *)
(* and keeps the file a collector is about to unlink free (UnlinkInv).     *)
(***************************************************************************)
EXTENDS ScopeLocks, TLAPS

InCatalog == {"loop", "opened", "checked", "unlink"}

(* Only the holder of the catalog is inside one of the loops.              *)
CatalogInv == \A p \in Proc : pc[p] \in InCatalog <=> catalog = p

(* Outside _lock every descriptor that is open is locked; inside it there  *)
(* is at most one that is not, and after the comparison it is the named.   *)
PendingInv ==
  \A p \in Proc :
    /\ pc[p] \notin {"opened", "checked"} => \A s \in Scope : ~ Pending(p, s)
    /\ \A s, t \in Scope : Pending(p, s) /\ Pending(p, t) => s = t
    /\ \A s \in Scope : Pending(p, s) => s \notin todo[p]
    /\ pc[p] = "checked" => \A s \in Scope : Pending(p, s) => fd[p][s] = slot[s]

(* A lock is held on the inode that its lock file names, by one process.   *)
LockedInv ==
  \A p \in Proc : \A s \in locked[p] :
    /\ fd[p][s] = slot[s]
    /\ fd[p][s] # None
    /\ s \notin todo[p]
    /\ \A q \in Proc : s \in locked[q] => p = q

(* An acquisition accounts for all its scopes; nothing else holds locks.   *)
ProgressInv ==
  \A p \in Proc :
    /\ role[p] = "acquire" /\ pc[p] \in {"loop", "opened", "checked"} =>
         \A s \in want[p] : s \in todo[p] \/ s \in locked[p] \/ Pending(p, s)
    /\ pc[p] = "held" => want[p] \subseteq locked[p]
    /\ pc[p] = "idle" => locked[p] = {}
    /\ role[p] = "collect" /\ pc[p] \in InCatalog => locked[p] = {}
    /\ pc[p] = "unlink" => role[p] = "collect"

(* The file that a collector is about to unlink is nobody's lock.          *)
UnlinkInv ==
  \A p \in Proc : pc[p] = "unlink" =>
    \A s \in want[p] : \A q \in Proc : s \notin locked[q]

IInv ==
  /\ TypeOK
  /\ CatalogInv
  /\ PendingInv
  /\ LockedInv
  /\ ProgressInv
  /\ UnlinkInv

USE DEF PC, Role, InCatalog

(* The invariant holds before any coordinator has done anything.           *)
LEMMA InitIInv == Init => IInv
  BY ScopeLocksAssumption DEF Init, IInv, TypeOK, CatalogInv, PendingInv,
     LockedInv, ProgressInv, UnlinkInv, Pending

(* Every step keeps the variables in their types (_open_private .. close). *)
LEMMA TypeStep == TypeOK /\ [Next]_vars => TypeOK'
<1> SUFFICES ASSUME TypeOK, [Next]_vars PROVE TypeOK'
  OBVIOUS
<1> USE DEF TypeOK
<1>1. CASE UNCHANGED vars
  BY <1>1 DEF vars
<1>2. CASE \E p \in Proc : \E S \in SUBSET Scope \ {{}} : BeginAcquire(p, S)
  BY <1>2 DEF BeginAcquire, EnterCatalog
<1>3. CASE \E p \in Proc : BeginCollect(p)
  <2> DEFINE N == {s \in Scope : slot[s] # None}
  <2>1. N \in SUBSET Scope
    OBVIOUS
  <2> HIDE DEF N
  <2>2. PICK p \in Proc : EnterCatalog(p, "collect", N, {})
    BY <1>3 DEF BeginCollect, N
  <2> QED
    BY <2>1, <2>2 DEF EnterCatalog
<1>4. CASE \E p \in Proc : \E s \in Scope : OpenSlot(p, s)
  BY <1>4 DEF OpenSlot
<1>5. CASE \E p \in Proc : \E s \in Scope : CheckName(p, s)
  BY <1>5 DEF CheckName
<1>6. CASE \E p \in Proc : \E s \in Scope : AcquireLock(p, s)
  BY <1>6 DEF AcquireLock
<1>7. CASE \E p \in Proc : \E s \in Scope : AcquireFail(p, s)
  BY <1>7 DEF AcquireFail, Refused
<1>8. CASE \E p \in Proc : \E s \in Scope : CollectProbe(p, s)
  BY <1>8 DEF CollectProbe
<1>9. CASE \E p \in Proc : \E s \in Scope : CollectSkip(p, s)
  BY <1>9 DEF CollectSkip, Refused
<1>10. CASE \E p \in Proc : \E s \in Scope : CollectUnlink(p, s)
  BY <1>10 DEF CollectUnlink
<1>11. CASE \E p \in Proc : AcquireDone(p)
  BY <1>11 DEF AcquireDone
<1>12. CASE \E p \in Proc : CollectDone(p)
  BY <1>12 DEF CollectDone
<1>13. CASE \E p \in Proc : \E s \in Scope : Release(p, s)
  BY <1>13 DEF Release
<1>14. CASE \E p \in Proc : Released(p)
  BY <1>14 DEF Released
<1>15. CASE \E p \in Proc : Crash(p)
  BY <1>15 DEF Crash
<1> QED
  BY <1>1, <1>2, <1>3, <1>4, <1>5, <1>6, <1>7, <1>8, <1>9, <1>10, <1>11,
     <1>12, <1>13, <1>14, <1>15 DEF Next, CatalogStep

(* Every step preserves the inductive invariant: one step per action of    *)
(* the coordinator.                                                        *)
LEMMA StepIInv == IInv /\ [Next]_vars => IInv'
<1> SUFFICES ASSUME IInv, [Next]_vars PROVE IInv'
  OBVIOUS
<1> DEFINE Rest == CatalogInv /\ PendingInv /\ LockedInv /\ ProgressInv /\ UnlinkInv
<1>t. TypeOK'
  BY TypeStep DEF IInv
<1> SUFFICES Rest'
  BY <1>t DEF IInv
<1> USE ScopeLocksAssumption
<1> USE DEF IInv, TypeOK, CatalogInv, PendingInv, LockedInv, ProgressInv,
            UnlinkInv, Pending
<1>1. CASE UNCHANGED vars
  BY <1>1 DEF vars
<1>2. CASE \E p \in Proc : \E S \in SUBSET Scope \ {{}} : BeginAcquire(p, S)
  <2>1. PICK p \in Proc, S \in SUBSET Scope \ {{}} : BeginAcquire(p, S)
    BY <1>2
  <2>2. CatalogInv'
    BY <2>1 DEF BeginAcquire, EnterCatalog
  <2>3. PendingInv'
    BY <2>1 DEF BeginAcquire, EnterCatalog
  <2>4. LockedInv'
    BY <2>1 DEF BeginAcquire, EnterCatalog
  <2>5. ProgressInv'
    BY <2>1 DEF BeginAcquire, EnterCatalog
  <2>6. UnlinkInv'
    BY <2>1 DEF BeginAcquire, EnterCatalog
  <2> QED
    BY <2>2, <2>3, <2>4, <2>5, <2>6
<1>3. CASE \E p \in Proc : BeginCollect(p)
  <2>1. PICK p \in Proc : BeginCollect(p)
    BY <1>3
  <2>2. CatalogInv'
    BY <2>1 DEF BeginCollect, EnterCatalog
  <2>3. PendingInv'
    BY <2>1 DEF BeginCollect, EnterCatalog
  <2>4. LockedInv'
    BY <2>1 DEF BeginCollect, EnterCatalog
  <2>5. ProgressInv'
    BY <2>1 DEF BeginCollect, EnterCatalog
  <2>6. UnlinkInv'
    BY <2>1 DEF BeginCollect, EnterCatalog
  <2> QED
    BY <2>2, <2>3, <2>4, <2>5, <2>6
<1>4. CASE \E p \in Proc : \E s \in Scope : OpenSlot(p, s)
  <2>1. PICK p \in Proc, s \in Scope : OpenSlot(p, s)
    BY <1>4
  <2>2. CatalogInv'
    BY <2>1 DEF OpenSlot, FreeInode
  <2>3. PendingInv'
    BY <2>1 DEF OpenSlot, FreeInode
  <2>4. LockedInv'
    BY <2>1 DEF OpenSlot, FreeInode
  <2>5. ProgressInv'
    BY <2>1 DEF OpenSlot, FreeInode
  <2>6. UnlinkInv'
    BY <2>1 DEF OpenSlot, FreeInode
  <2> QED
    BY <2>2, <2>3, <2>4, <2>5, <2>6
<1>5. CASE \E p \in Proc : \E s \in Scope : CheckName(p, s)
  <2>1. PICK p \in Proc, s \in Scope : CheckName(p, s)
    BY <1>5
  <2>2. CatalogInv'
    BY <2>1 DEF CheckName
  <2>3. PendingInv'
    BY <2>1 DEF CheckName
  <2>4. LockedInv'
    BY <2>1 DEF CheckName
  <2>5. ProgressInv'
    BY <2>1 DEF CheckName
  <2>6. UnlinkInv'
    BY <2>1 DEF CheckName
  <2> QED
    BY <2>2, <2>3, <2>4, <2>5, <2>6
<1>6. CASE \E p \in Proc : \E s \in Scope : AcquireLock(p, s)
  <2>1. PICK p \in Proc, s \in Scope : AcquireLock(p, s)
    BY <1>6
  <2>2. CatalogInv'
    BY <2>1 DEF AcquireLock, FlockFree
  <2>3. PendingInv'
    BY <2>1 DEF AcquireLock, FlockFree
  <2>4. LockedInv'
    BY <2>1 DEF AcquireLock, FlockFree
  <2>5. ProgressInv'
    BY <2>1 DEF AcquireLock, FlockFree
  <2>6. UnlinkInv'
    BY <2>1 DEF AcquireLock, FlockFree
  <2> QED
    BY <2>2, <2>3, <2>4, <2>5, <2>6
<1>7. CASE \E p \in Proc : \E s \in Scope : AcquireFail(p, s)
  <2>1. PICK p \in Proc, s \in Scope : AcquireFail(p, s)
    BY <1>7
  <2>2. CatalogInv'
    BY <2>1 DEF AcquireFail, Refused
  <2>3. PendingInv'
    BY <2>1 DEF AcquireFail, Refused
  <2>4. LockedInv'
    BY <2>1 DEF AcquireFail, Refused
  <2>5. ProgressInv'
    BY <2>1 DEF AcquireFail, Refused
  <2>6. UnlinkInv'
    BY <2>1 DEF AcquireFail, Refused
  <2> QED
    BY <2>2, <2>3, <2>4, <2>5, <2>6
<1>8. CASE \E p \in Proc : \E s \in Scope : CollectProbe(p, s)
  <2>1. PICK p \in Proc, s \in Scope : CollectProbe(p, s)
    BY <1>8
  <2>2. CatalogInv'
    BY <2>1 DEF CollectProbe, FlockFree
  <2>3. PendingInv'
    BY <2>1 DEF CollectProbe, FlockFree
  <2>4. LockedInv'
    BY <2>1 DEF CollectProbe, FlockFree
  <2>5. ProgressInv'
    BY <2>1 DEF CollectProbe, FlockFree
  <2>6. UnlinkInv'
    BY <2>1 DEF CollectProbe, FlockFree
  <2> QED
    BY <2>2, <2>3, <2>4, <2>5, <2>6
<1>9. CASE \E p \in Proc : \E s \in Scope : CollectSkip(p, s)
  <2>1. PICK p \in Proc, s \in Scope : CollectSkip(p, s)
    BY <1>9
  <2>2. CatalogInv'
    BY <2>1 DEF CollectSkip, Refused
  <2>3. PendingInv'
    BY <2>1 DEF CollectSkip, Refused
  <2>4. LockedInv'
    BY <2>1 DEF CollectSkip, Refused
  <2>5. ProgressInv'
    BY <2>1 DEF CollectSkip, Refused
  <2>6. UnlinkInv'
    BY <2>1 DEF CollectSkip, Refused
  <2> QED
    BY <2>2, <2>3, <2>4, <2>5, <2>6
<1>10. CASE \E p \in Proc : \E s \in Scope : CollectUnlink(p, s)
  <2>1. PICK p \in Proc, s \in Scope : CollectUnlink(p, s)
    BY <1>10
  <2>2. CatalogInv'
    BY <2>1 DEF CollectUnlink
  <2>3. PendingInv'
    BY <2>1 DEF CollectUnlink
  <2>4. LockedInv'
    BY <2>1 DEF CollectUnlink
  <2>5. ProgressInv'
    BY <2>1 DEF CollectUnlink
  <2>6. UnlinkInv'
    BY <2>1 DEF CollectUnlink
  <2> QED
    BY <2>2, <2>3, <2>4, <2>5, <2>6
<1>11. CASE \E p \in Proc : AcquireDone(p)
  <2>1. PICK p \in Proc : AcquireDone(p)
    BY <1>11
  <2>2. CatalogInv'
    BY <2>1 DEF AcquireDone
  <2>3. PendingInv'
    BY <2>1 DEF AcquireDone
  <2>4. LockedInv'
    BY <2>1 DEF AcquireDone
  <2>5. ProgressInv'
    BY <2>1 DEF AcquireDone
  <2>6. UnlinkInv'
    BY <2>1 DEF AcquireDone
  <2> QED
    BY <2>2, <2>3, <2>4, <2>5, <2>6
<1>12. CASE \E p \in Proc : CollectDone(p)
  <2>1. PICK p \in Proc : CollectDone(p)
    BY <1>12
  <2>2. CatalogInv'
    BY <2>1 DEF CollectDone
  <2>3. PendingInv'
    BY <2>1 DEF CollectDone
  <2>4. LockedInv'
    BY <2>1 DEF CollectDone
  <2>5. ProgressInv'
    BY <2>1 DEF CollectDone
  <2>6. UnlinkInv'
    BY <2>1 DEF CollectDone
  <2> QED
    BY <2>2, <2>3, <2>4, <2>5, <2>6
<1>13. CASE \E p \in Proc : \E s \in Scope : Release(p, s)
  <2>1. PICK p \in Proc, s \in Scope : Release(p, s)
    BY <1>13
  <2>2. CatalogInv'
    BY <2>1 DEF Release
  <2>3. PendingInv'
    BY <2>1 DEF Release
  <2>4. LockedInv'
    BY <2>1 DEF Release
  <2>5. ProgressInv'
    BY <2>1 DEF Release
  <2>6. UnlinkInv'
    BY <2>1 DEF Release
  <2> QED
    BY <2>2, <2>3, <2>4, <2>5, <2>6
<1>14. CASE \E p \in Proc : Released(p)
  <2>1. PICK p \in Proc : Released(p)
    BY <1>14
  <2>2. CatalogInv'
    BY <2>1 DEF Released
  <2>3. PendingInv'
    BY <2>1 DEF Released
  <2>4. LockedInv'
    BY <2>1 DEF Released
  <2>5. ProgressInv'
    BY <2>1 DEF Released
  <2>6. UnlinkInv'
    BY <2>1 DEF Released
  <2> QED
    BY <2>2, <2>3, <2>4, <2>5, <2>6
<1>15. CASE \E p \in Proc : Crash(p)
  <2>1. PICK p \in Proc : Crash(p)
    BY <1>15
  <2>2. CatalogInv'
    BY <2>1 DEF Crash
  <2>3. PendingInv'
    BY <2>1 DEF Crash
  <2>4. LockedInv'
    BY <2>1 DEF Crash
  <2>5. ProgressInv'
    BY <2>1 DEF Crash
  <2>6. UnlinkInv'
    BY <2>1 DEF Crash
  <2> QED
    BY <2>2, <2>3, <2>4, <2>5, <2>6
<1> QED
  BY <1>1, <1>2, <1>3, <1>4, <1>5, <1>6, <1>7, <1>8, <1>9, <1>10, <1>11, <1>12, <1>13, <1>14, <1>15 DEF Next, CatalogStep

(* The inductive invariant implies both safety properties.                 *)
LEMMA IInvSafety == IInv => TypeOK /\ OneOwner /\ OwnerStillNamed
<1> SUFFICES ASSUME IInv PROVE OneOwner /\ OwnerStillNamed
  BY DEF IInv
<1>1. ASSUME NEW p \in Proc, NEW s \in Scope, Owns(p, s)
      PROVE  s \in locked[p]
  BY <1>1 DEF IInv, ProgressInv, Owns
<1>2. OneOwner
  BY <1>1 DEF OneOwner, IInv, LockedInv
<1>3. OwnerStillNamed
  BY <1>1 DEF OwnerStillNamed, IInv, LockedInv
<1> QED
  BY <1>2, <1>3

(* The inductive invariant holds throughout.                               *)
LEMMA Invariance == Spec => []IInv
<1>1. Init => IInv
  BY InitIInv
<1>2. IInv /\ [Next]_vars => IInv'
  BY StepIInv
<1> QED
  BY <1>1, <1>2, PTL DEF Spec

(* Every variable keeps its type, whatever the coordinators do.            *)
THEOREM TypeCorrect == Spec => []TypeOK
<1>1. IInv => TypeOK
  BY IInvSafety
<1> QED
  BY <1>1, Invariance, PTL

(* Mutual exclusion of the owners of a scope, for any number of            *)
(* coordinators of one namespace and with lock files collected and         *)
(* recreated meanwhile (core/mutation.py _acquire, _maintain).             *)
THEOREM MutualExclusion == Spec => []OneOwner
<1>1. IInv => OneOwner
  BY IInvSafety
<1> QED
  BY <1>1, Invariance, PTL

(* No owner is fenced by collection: _validate_owner's comparison of the   *)
(* open lock file with the named one cannot fail because of _maintain.     *)
THEOREM CollectionSparesOwners == Spec => []OwnerStillNamed
<1>1. IInv => OwnerStillNamed
  BY IInvSafety
<1> QED
  BY <1>1, Invariance, PTL
===============================================================================
