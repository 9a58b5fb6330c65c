---------------------- MODULE MutationCoordinatorProofs ----------------------
(***************************************************************************)
(* For any number of coordinators, operations and scopes: variables keep   *)
(* their types and, as long as nobody deletes lock files, the reservations *)
(* of an operation follow its row through every crash, close and recovery. *)
(* The argument: the holder of a lease has every scope of its request      *)
(* locked (HeldInv), and the row is its own (OwnerInv), because another    *)
(* acquisition of the same row would need the same locks.                  *)
(***************************************************************************)
EXTENDS MutationCoordinator, TLAPS

Engaged == Locked \cup Leased \cup {"resolved"}

(* A row that is not absent has the request it was recorded for.           *)
RowInv ==
  \A k \in Key : row[k].state # "absent" =>
    row[k].req \in Requests /\ row[k].req.ids # {} /\ row[k].req.key = k

(* A request in use is one, and its scopes are locked before it is acted   *)
(* upon.                                                                   *)
HeldInv ==
  \A p \in Proc :
    /\ pc[p] # "idle" => req[p] \in Requests /\ req[p].ids # {}
    /\ pc[p] \in Engaged => req[p].ids \subseteq held[p]

(* What holds even when lock files get lost.                               *)
BaseInv == TypeOK /\ RowInv /\ HeldInv

(* The locks a coordinator believes it holds are those it holds.           *)
LockInv == \A p \in Proc : \A id \in held[p] : lockOf[id] = p

(* The holder of a lease owns its row, which is open.                      *)
OwnerInv ==
  \A p \in Proc : pc[p] \in Leased =>
    /\ Unresolved(req[p].key)
    /\ row[req[p].key].req = req[p]
    /\ row[req[p].key].owner = p

LeaseInv == LockInv /\ OwnerInv /\ Reservations

(* What bind yields: at least one scope, and a revision for every path.    *)
LEMMA BindTypes ==
  ASSUME TypeOK, NEW k \in Key
  PROVE  /\ Ids(Bound[k]) \in SUBSET Id
         /\ Ids(Bound[k]) # {}
         /\ Seen(Bound[k]) \in Expected
<1>1. ASSUME NEW s \in Bound[k]
      PROVE  s \in Path /\ Canon[s] \in Path /\ at[Canon[s]] \in Object \cup {None}
  BY MutationCoordinatorAssumption DEF TypeOK, File
<1>2. ASSUME NEW s \in Bound[k] PROVE Revision(s) \in Revisions
  <2>1. CASE at[Canon[s]] = None
    BY <2>1 DEF Revision, Revisions
  <2>2. CASE at[Canon[s]] # None
    <3>1. at[Canon[s]] \in Object
      BY <1>1, <2>2
    <3>2. gen[at[Canon[s]]] \in 0..MaxGen
      BY <3>1 DEF TypeOK
    <3> QED
      BY <2>2, <3>1, <3>2 DEF Revision, Revisions
  <2> QED
    BY <2>1, <2>2
<1>3. Bound[k] # {}
  BY MutationCoordinatorAssumption
<1>4. Seen(Bound[k]) \in Expected
  BY <1>2 DEF Seen, Expected
<1> QED
  BY <1>1, <1>3, <1>4 DEF Ids, Id

(* So bind's request is one.                                               *)
LEMMA RequestType ==
  ASSUME TypeOK, NEW k \in Key
  PROVE  Request(k) \in Requests /\ Request(k).ids # {} /\ Request(k).key = k
BY BindTypes DEF Request, Requests

(* Every step keeps the variables in their types, given that a request in  *)
(* use is one.                                                             *)
LEMMA TypeStep ==
  ASSUME TypeOK, HeldInv, [Next]_vars PROVE TypeOK'
<1> USE MutationCoordinatorAssumption
<1> USE DEF TypeOK, HeldInv, files, journal, PC, Requesting, Locked, Leased,
            Engaged
<1>1. CASE UNCHANGED vars
  BY <1>1 DEF vars
<1>2. CASE \E p \in Proc : \E k \in Key : Bind(p, k)
  <2>1. PICK p \in Proc, k \in Key : Bind(p, k)
    BY <1>2
  <2>2. Request(k) \in Requests /\ Seen(Bound[k]) \in Expected
    BY RequestType, BindTypes
  <2> QED
    BY <2>1, <2>2 DEF Bind
<1>3. CASE \E p \in Proc : \E k \in Key : Rebind(p, k)
  <2>1. PICK p \in Proc, k \in Key : Rebind(p, k)
    BY <1>3
  <2>2. row[k].req \in Requests \cup {None}
    BY DEF Rows
  <2> QED
    BY <2>1, <2>2 DEF Rebind
<1>4. CASE \E p \in Proc : Drop(p)
  <2>1. PICK p \in Proc : Drop(p)
    BY <1>4
  <2> QED
    BY <2>1 DEF Drop
<1>5. CASE \E p \in Proc : CheckRecord(p)
  <2>1. PICK p \in Proc : CheckRecord(p)
    BY <1>5
  <2> QED
    BY <2>1 DEF CheckRecord
<1>6. CASE \E p \in Proc : Lock(p)
  <2>1. PICK p \in Proc : Lock(p)
    BY <1>6
  <2>2. req[p] \in Requests
    BY <2>1 DEF Lock
  <2>3. req[p].key \in Key /\ req[p].ids \in SUBSET Id
    BY <2>2 DEF Requests
  <2>4. row[req[p].key] \in Rows
    BY <2>3
  <2> QED
    BY <2>1, <2>3 DEF Lock, LockAll
<1>7. CASE \E p \in Proc : Relock(p)
  <2>1. PICK p \in Proc : Relock(p)
    BY <1>7
  <2>2. req[p] \in Requests
    BY <2>1 DEF Relock
  <2>3. req[p].key \in Key /\ req[p].ids \in SUBSET Id
    BY <2>2 DEF Requests
  <2>4. row[req[p].key] \in Rows
    BY <2>3
  <2>5. Ids(Bound[req[p].key]) \in SUBSET Id /\ Seen(Bound[req[p].key]) \in Expected
    BY <2>3, BindTypes
  <2> QED
    BY <2>1, <2>3, <2>5 DEF Relock, LockAll
<1>8. CASE \E p \in Proc : Acquire(p)
  <2>1. PICK p \in Proc : Acquire(p)
    BY <1>8
  <2>2. req[p] \in Requests
    BY <2>1 DEF Acquire
  <2>3. req[p].key \in Key /\ req[p].ids \in SUBSET Id
    BY <2>2 DEF Requests
  <2>4. row[req[p].key] \in Rows
    BY <2>3
  <2>5. row[req[p].key].fence + 1 \in 0..MaxFence
    BY <2>1, <2>4 DEF Acquire, Own, Rows
  <2>6. row' \in [Key -> Rows]
    BY <2>1, <2>2, <2>3, <2>5 DEF Acquire, Own, Rows, Open, Terminal
  <2> QED
    BY <2>1, <2>2, <2>3, <2>5, <2>6 DEF Acquire, Own
<1>9. CASE \E p \in Proc : Recover(p)
  <2>1. PICK p \in Proc : Recover(p)
    BY <1>9
  <2>2. req[p] \in Requests
    BY <2>1 DEF Recover
  <2>3. req[p].key \in Key /\ req[p].ids \in SUBSET Id
    BY <2>2 DEF Requests
  <2>4. row[req[p].key] \in Rows
    BY <2>3
  <2>5. row[req[p].key].fence + 1 \in 0..MaxFence
    BY <2>1, <2>4 DEF Recover, Own, Rows
  <2>6. row' \in [Key -> Rows]
    BY <2>1, <2>2, <2>3, <2>5 DEF Recover, Own, Rows, Open, Terminal
  <2> QED
    BY <2>1, <2>2, <2>3, <2>5, <2>6 DEF Recover, Own
<1>10. CASE \E p \in Proc : Refuse(p)
  <2>1. PICK p \in Proc : Refuse(p)
    BY <1>10
  <2> QED
    BY <2>1 DEF Refuse, Forgotten
<1>11. CASE \E p \in Proc : CommitCheck(p)
  <2>1. PICK p \in Proc : CommitCheck(p)
    BY <1>11
  <2> QED
    BY <2>1 DEF CommitCheck, At
<1>12. CASE \E p \in Proc : CommitWrite(p)
  <2>1. PICK p \in Proc : CommitWrite(p)
    BY <1>12
  <2>2. req[p] \in Requests
    BY <2>1 DEF CommitWrite, At
  <2>3. req[p].key \in Key /\ req[p].ids \in SUBSET Id
    BY <2>2 DEF Requests
  <2>4. row[req[p].key] \in Rows
    BY <2>3
  <2>5. row' \in [Key -> Rows]
    BY <2>1, <2>2, <2>3, <2>4 DEF CommitWrite, At, Update, Rows, Open, Terminal
  <2> QED
    BY <2>1, <2>2, <2>3, <2>5 DEF CommitWrite, At, Update
<1>13. CASE \E p \in Proc : Validate(p)
  <2>1. PICK p \in Proc : Validate(p)
    BY <1>13
  <2> QED
    BY <2>1 DEF Validate, At
<1>14. CASE \E p \in Proc : Publish(p)
  <2>1. PICK p \in Proc : Publish(p)
    BY <1>14
  <2>2. PICK o \in Object : /\ gen[o] < MaxGen
                            /\ at' = [at EXCEPT ![Canon[Dest[req[p].key]]] = o]
                            /\ at[Canon[Dest[req[p].key]]] # None
                                 => gen[at[Canon[Dest[req[p].key]]]] < MaxGen
                            /\ gen' = [x \in Object |-> IF x \in {o, at[Canon[Dest[req[p].key]]]}
                                                       THEN gen[x] + 1 ELSE gen[x]]
    BY <2>1 DEF Publish, NewFile
  <2>3. req[p] \in Requests
    BY <2>1 DEF Publish, At
  <2>4. req[p].key \in Key
    BY <2>3 DEF Requests
  <2>5. None \notin Object
    OBVIOUS
  <2>6. at' \in [File -> Object \cup {None}] /\ gen' \in [Object -> 0..MaxGen]
    <3>1. at' \in [File -> Object \cup {None}]
      BY <2>2
    <3>2. ASSUME NEW x \in Object, x \in {o, at[Canon[Dest[req[p].key]]]}
          PROVE  gen[x] + 1 \in 0..MaxGen
      BY <2>2, <2>5, <3>2
    <3> QED
      BY <2>2, <3>1, <3>2
  <2>7. done' \in [Key -> Nat]
    BY <2>1, <2>4 DEF Publish
  <2> QED
    BY <2>1, <2>6, <2>7 DEF Publish, At
<1>15. CASE \E p \in Proc : FinishCheck(p)
  <2>1. PICK p \in Proc : FinishCheck(p)
    BY <1>15
  <2> QED
    BY <2>1 DEF FinishCheck, At
<1>16. CASE \E p \in Proc : FinishWrite(p)
  <2>1. PICK p \in Proc : FinishWrite(p)
    BY <1>16
  <2>2. req[p] \in Requests
    BY <2>1 DEF FinishWrite, At
  <2>3. req[p].key \in Key /\ req[p].ids \in SUBSET Id
    BY <2>2 DEF Requests
  <2>4. row[req[p].key] \in Rows
    BY <2>3
  <2>5. row' \in [Key -> Rows]
    BY <2>1, <2>2, <2>3, <2>4 DEF FinishWrite, At, Update, Rows, Open, Terminal
  <2> QED
    BY <2>1, <2>2, <2>3, <2>5 DEF FinishWrite, At, Update
<1>17. CASE \E p \in Proc : Release(p)
  <2>1. PICK p \in Proc : Release(p)
    BY <1>17
  <2>2. req[p] \in Requests
    BY <2>1 DEF Release
  <2>3. req[p].seen \in Expected
    BY <2>2 DEF Requests
  <2> QED
    BY <2>1, <2>3 DEF Release
<1>18. CASE \E p \in Proc : Close(p)
  <2>1. PICK p \in Proc : Close(p)
    BY <1>18
  <2>2. req[p] \in Requests
    BY <2>1 DEF Close
  <2>3. req[p].key \in Key /\ req[p].ids \in SUBSET Id
    BY <2>2 DEF Requests
  <2>4. row[req[p].key] \in Rows
    BY <2>3
  <2>5. row' \in [Key -> Rows]
    BY <2>1, <2>2, <2>3, <2>4 DEF Close, Forgotten, Rows, Open, Terminal
  <2> QED
    BY <2>1, <2>2, <2>3, <2>5 DEF Close, Forgotten
<1>19. CASE \E p \in Proc : Crash(p)
  <2>1. PICK p \in Proc : Crash(p)
    BY <1>19
  <2> QED
    BY <2>1 DEF Crash, Forgotten
<1>20. CASE \E p \in Proc : Expire(p)
  <2>1. PICK p \in Proc : Expire(p)
    BY <1>20
  <2> QED
    BY <2>1 DEF Expire
<1>21. CASE \E k \in Key : Prune(k)
  <2>1. PICK k \in Key : Prune(k)
    BY <1>21
  <2>2. NoRow \in Rows
    BY DEF NoRow, Rows
  <2> QED
    BY <2>1, <2>2 DEF Prune
<1>22. CASE \E c \in Foreign \cap File : \E o \in Object \cup {None} : Rename(c, o)
  <2>1. PICK c \in Foreign \cap File, o \in Object \cup {None} : Rename(c, o)
    BY <1>22
  <2> QED
    BY <2>1 DEF Rename
<1>23. CASE \E id \in LockLoss \cap Id : LoseLockFile(id)
  <2>1. PICK id \in LockLoss \cap Id : LoseLockFile(id)
    BY <1>23
  <2> QED
    BY <2>1 DEF LoseLockFile
<1> QED
  BY <1>1, <1>2, <1>3, <1>4, <1>5, <1>6, <1>7, <1>8, <1>9, <1>10,
     <1>11, <1>12, <1>13, <1>14, <1>15, <1>16, <1>17, <1>18, <1>19,
     <1>20, <1>21, <1>22, <1>23 DEF Next, Step

(* The parts of the invariant that need no assumption on the lock files.   *)
LEMMA BaseStep == BaseInv /\ [Next]_vars => BaseInv'
<1> SUFFICES ASSUME BaseInv, [Next]_vars PROVE BaseInv'
  OBVIOUS
<1>t. TypeOK'
  BY TypeStep DEF BaseInv
<1> SUFFICES RowInv' /\ HeldInv'
  BY <1>t DEF BaseInv
<1> USE MutationCoordinatorAssumption
<1> USE DEF BaseInv, TypeOK, RowInv, HeldInv, files, journal, PC, Requesting,
            Locked, Leased, Engaged
<1>1. CASE UNCHANGED vars
  BY <1>1 DEF vars
<1>2. CASE \E p \in Proc : \E k \in Key : Bind(p, k)
  <2>1. PICK p \in Proc, k \in Key : Bind(p, k)
    BY <1>2
  <2>2. Request(k) \in Requests /\ Request(k).ids # {}
    BY RequestType
  <2>3. RowInv'
    BY <2>1, <2>2 DEF Bind
  <2>4. HeldInv'
    BY <2>1, <2>2 DEF Bind
  <2> QED
    BY <2>3, <2>4
<1>3. CASE \E p \in Proc : \E k \in Key : Rebind(p, k)
  <2>1. PICK p \in Proc, k \in Key : Rebind(p, k)
    BY <1>3
  <2>3. RowInv'
    BY <2>1 DEF Open, Rebind, Unresolved
  <2>4. HeldInv'
    BY <2>1 DEF Open, Rebind, Unresolved
  <2> QED
    BY <2>3, <2>4
<1>4. CASE \E p \in Proc : Drop(p)
  <2>1. PICK p \in Proc : Drop(p)
    BY <1>4
  <2>3. RowInv'
    BY <2>1 DEF Drop
  <2>4. HeldInv'
    BY <2>1 DEF Drop
  <2> QED
    BY <2>3, <2>4
<1>5. CASE \E p \in Proc : CheckRecord(p)
  <2>1. PICK p \in Proc : CheckRecord(p)
    BY <1>5
  <2>2. req[p] \in Requests /\ req[p].key \in Key /\ req[p].ids # {}
    BY <2>1 DEF CheckRecord, Requests
  <2>3. RowInv'
    BY <2>1, <2>2 DEF CheckRecord
  <2>4. HeldInv'
    BY <2>1, <2>2 DEF CheckRecord
  <2> QED
    BY <2>3, <2>4
<1>6. CASE \E p \in Proc : Lock(p)
  <2>1. PICK p \in Proc : Lock(p)
    BY <1>6
  <2>2. req[p] \in Requests /\ req[p].key \in Key /\ req[p].ids # {}
    BY <2>1 DEF Lock, LockAll, Requests
  <2>3. RowInv'
    BY <2>1, <2>2 DEF Lock, LockAll
  <2>4. HeldInv'
    BY <2>1, <2>2 DEF Lock, LockAll
  <2> QED
    BY <2>3, <2>4
<1>7. CASE \E p \in Proc : Relock(p)
  <2>1. PICK p \in Proc : Relock(p)
    BY <1>7
  <2>2. req[p] \in Requests /\ req[p].key \in Key /\ req[p].ids # {}
    BY <2>1 DEF Relock, LockAll, Requests
  <2>3. RowInv'
    BY <2>1, <2>2 DEF Relock, LockAll
  <2>4. HeldInv'
    BY <2>1, <2>2 DEF Relock, LockAll
  <2> QED
    BY <2>3, <2>4
<1>8. CASE \E p \in Proc : Acquire(p)
  <2>1. PICK p \in Proc : Acquire(p)
    BY <1>8
  <2>2. req[p] \in Requests /\ req[p].key \in Key /\ req[p].ids # {}
    BY <2>1 DEF Acquire, Own, Admitted, Requests
  <2>3. RowInv'
    BY <2>1, <2>2 DEF Open, Terminal, Acquire, Own, Admitted
  <2>4. HeldInv'
    BY <2>1, <2>2 DEF Open, Terminal, Acquire, Own, Admitted
  <2> QED
    BY <2>3, <2>4
<1>9. CASE \E p \in Proc : Recover(p)
  <2>1. PICK p \in Proc : Recover(p)
    BY <1>9
  <2>2. req[p] \in Requests /\ req[p].key \in Key /\ req[p].ids # {}
    BY <2>1 DEF Recover, Own, Admitted, Requests
  <2>3. RowInv'
    BY <2>1, <2>2 DEF Open, Terminal, Recover, Own, Admitted
  <2>4. HeldInv'
    BY <2>1, <2>2 DEF Open, Terminal, Recover, Own, Admitted
  <2> QED
    BY <2>3, <2>4
<1>10. CASE \E p \in Proc : Refuse(p)
  <2>1. PICK p \in Proc : Refuse(p)
    BY <1>10
  <2>3. RowInv'
    BY <2>1 DEF Refuse, Forgotten
  <2>4. HeldInv'
    BY <2>1 DEF Refuse, Forgotten
  <2> QED
    BY <2>3, <2>4
<1>11. CASE \E p \in Proc : CommitCheck(p)
  <2>1. PICK p \in Proc : CommitCheck(p)
    BY <1>11
  <2>2. req[p] \in Requests /\ req[p].key \in Key /\ req[p].ids # {}
    BY <2>1 DEF CommitCheck, At, Requests
  <2>3. RowInv'
    BY <2>1, <2>2 DEF CommitCheck, At
  <2>4. HeldInv'
    BY <2>1, <2>2 DEF CommitCheck, At
  <2> QED
    BY <2>3, <2>4
<1>12. CASE \E p \in Proc : CommitWrite(p)
  <2>1. PICK p \in Proc : CommitWrite(p)
    BY <1>12
  <2>2. req[p] \in Requests /\ req[p].key \in Key /\ req[p].ids # {}
    BY <2>1 DEF CommitWrite, At, Update, Requests
  <2>3. RowInv'
    BY <2>1, <2>2 DEF Open, Terminal, CommitWrite, At, Update
  <2>4. HeldInv'
    BY <2>1, <2>2 DEF Open, Terminal, CommitWrite, At, Update
  <2> QED
    BY <2>3, <2>4
<1>13. CASE \E p \in Proc : Validate(p)
  <2>1. PICK p \in Proc : Validate(p)
    BY <1>13
  <2>2. req[p] \in Requests /\ req[p].key \in Key /\ req[p].ids # {}
    BY <2>1 DEF Validate, At, Requests
  <2>3. RowInv'
    BY <2>1, <2>2 DEF Validate, At
  <2>4. HeldInv'
    BY <2>1, <2>2 DEF Validate, At
  <2> QED
    BY <2>3, <2>4
<1>14. CASE \E p \in Proc : Publish(p)
  <2>1. PICK p \in Proc : Publish(p)
    BY <1>14
  <2>2. req[p] \in Requests /\ req[p].key \in Key /\ req[p].ids # {}
    BY <2>1 DEF Publish, At, NewFile, Requests
  <2>3. RowInv'
    BY <2>1, <2>2 DEF Publish, At, NewFile
  <2>4. HeldInv'
    BY <2>1, <2>2 DEF Publish, At, NewFile
  <2> QED
    BY <2>3, <2>4
<1>15. CASE \E p \in Proc : FinishCheck(p)
  <2>1. PICK p \in Proc : FinishCheck(p)
    BY <1>15
  <2>2. req[p] \in Requests /\ req[p].key \in Key /\ req[p].ids # {}
    BY <2>1 DEF FinishCheck, At, Requests
  <2>3. RowInv'
    BY <2>1, <2>2 DEF FinishCheck, At
  <2>4. HeldInv'
    BY <2>1, <2>2 DEF FinishCheck, At
  <2> QED
    BY <2>3, <2>4
<1>16. CASE \E p \in Proc : FinishWrite(p)
  <2>1. PICK p \in Proc : FinishWrite(p)
    BY <1>16
  <2>2. req[p] \in Requests /\ req[p].key \in Key /\ req[p].ids # {}
    BY <2>1 DEF FinishWrite, At, Update, Requests
  <2>r. ASSUME NEW j \in Key
        PROVE  row'[j].req = row[j].req /\ (row[j].state = "absent" => row'[j].state = "absent")
    BY <2>1, <2>2 DEF FinishWrite, Update, Rows
  <2>3. RowInv'
    BY <2>r
  <2>4. HeldInv'
    BY <2>1, <2>2 DEF FinishWrite, At
  <2> QED
    BY <2>3, <2>4
<1>17. CASE \E p \in Proc : Release(p)
  <2>1. PICK p \in Proc : Release(p)
    BY <1>17
  <2>2. req[p] \in Requests /\ req[p].key \in Key /\ req[p].ids # {}
    BY <2>1 DEF Release, Requests
  <2>3. RowInv'
    BY <2>1, <2>2 DEF Release
  <2>4. HeldInv'
    BY <2>1, <2>2 DEF Release
  <2> QED
    BY <2>3, <2>4
<1>18. CASE \E p \in Proc : Close(p)
  <2>1. PICK p \in Proc : Close(p)
    BY <1>18
  <2>2. req[p] \in Requests /\ req[p].key \in Key /\ req[p].ids # {}
    BY <2>1 DEF Close, Forgotten, Unresolved, Requests
  <2>3. RowInv'
    BY <2>1, <2>2 DEF Open, Terminal, Close, Forgotten, Unresolved
  <2>4. HeldInv'
    BY <2>1, <2>2 DEF Open, Terminal, Close, Forgotten, Unresolved
  <2> QED
    BY <2>3, <2>4
<1>19. CASE \E p \in Proc : Crash(p)
  <2>1. PICK p \in Proc : Crash(p)
    BY <1>19
  <2>3. RowInv'
    BY <2>1 DEF Crash, Forgotten
  <2>4. HeldInv'
    BY <2>1 DEF Crash, Forgotten
  <2> QED
    BY <2>3, <2>4
<1>20. CASE \E p \in Proc : Expire(p)
  <2>1. PICK p \in Proc : Expire(p)
    BY <1>20
  <2>3. RowInv'
    BY <2>1 DEF Expire
  <2>4. HeldInv'
    BY <2>1 DEF Expire
  <2> QED
    BY <2>3, <2>4
<1>21. CASE \E k \in Key : Prune(k)
  <2>1. PICK k \in Key : Prune(k)
    BY <1>21
  <2>3. RowInv'
    BY <2>1 DEF Prune, NoRow
  <2>4. HeldInv'
    BY <2>1 DEF Prune, NoRow
  <2> QED
    BY <2>3, <2>4
<1>22. CASE \E c \in Foreign \cap File : \E o \in Object \cup {None} : Rename(c, o)
  <2>1. PICK c \in Foreign \cap File, o \in Object \cup {None} : Rename(c, o)
    BY <1>22
  <2>3. RowInv'
    BY <2>1 DEF Rename
  <2>4. HeldInv'
    BY <2>1 DEF Rename
  <2> QED
    BY <2>3, <2>4
<1>23. CASE \E id \in LockLoss \cap Id : LoseLockFile(id)
  <2>1. PICK id \in LockLoss \cap Id : LoseLockFile(id)
    BY <1>23
  <2>3. RowInv'
    BY <2>1 DEF LoseLockFile
  <2>4. HeldInv'
    BY <2>1 DEF LoseLockFile
  <2> QED
    BY <2>3, <2>4
<1> QED
  BY <1>1, <1>2, <1>3, <1>4, <1>5, <1>6, <1>7, <1>8, <1>9, <1>10,
     <1>11, <1>12, <1>13, <1>14, <1>15, <1>16, <1>17, <1>18, <1>19,
     <1>20, <1>21, <1>22, <1>23 DEF Next, Step

(* The parts that need the lock files to stay: a lease is never overtaken. *)
LEMMA LeaseStep ==
  ASSUME LockLoss = {} PROVE BaseInv /\ LeaseInv /\ [Next]_vars => LeaseInv'
<1> SUFFICES ASSUME BaseInv, LeaseInv, [Next]_vars PROVE LeaseInv'
  OBVIOUS
<1> USE MutationCoordinatorAssumption
<1> USE DEF BaseInv, TypeOK, RowInv, HeldInv, LeaseInv, LockInv, OwnerInv,
            Reservations, Unresolved, files, journal, PC, Requesting,
            Locked, Leased, Engaged, Open
<1>1. CASE UNCHANGED vars
  BY <1>1 DEF vars
<1>2. CASE \E p \in Proc : \E k \in Key : Bind(p, k)
  <2>1. PICK p \in Proc, k \in Key : Bind(p, k)
    BY <1>2
  <2>3. LockInv'
    BY <2>1 DEF Bind
  <2>4. OwnerInv'
    BY <2>1 DEF Bind
  <2>5. Reservations'
    BY <2>1 DEF Bind
  <2> QED
    BY <2>3, <2>4, <2>5
<1>3. CASE \E p \in Proc : \E k \in Key : Rebind(p, k)
  <2>1. PICK p \in Proc, k \in Key : Rebind(p, k)
    BY <1>3
  <2>3. LockInv'
    BY <2>1 DEF Rebind
  <2>4. OwnerInv'
    BY <2>1 DEF Rebind
  <2>5. Reservations'
    BY <2>1 DEF Rebind
  <2> QED
    BY <2>3, <2>4, <2>5
<1>4. CASE \E p \in Proc : Drop(p)
  <2>1. PICK p \in Proc : Drop(p)
    BY <1>4
  <2>3. LockInv'
    BY <2>1 DEF Drop
  <2>4. OwnerInv'
    BY <2>1 DEF Drop
  <2>5. Reservations'
    BY <2>1 DEF Drop
  <2> QED
    BY <2>3, <2>4, <2>5
<1>5. CASE \E p \in Proc : CheckRecord(p)
  <2>1. PICK p \in Proc : CheckRecord(p)
    BY <1>5
  <2>2. req[p] \in Requests /\ req[p].key \in Key /\ req[p].ids # {}
    BY <2>1 DEF CheckRecord, Requests
  <2>3. LockInv'
    BY <2>1, <2>2 DEF CheckRecord
  <2>4. OwnerInv'
    BY <2>1, <2>2 DEF CheckRecord
  <2>5. Reservations'
    BY <2>1, <2>2 DEF CheckRecord
  <2> QED
    BY <2>3, <2>4, <2>5
<1>6. CASE \E p \in Proc : Lock(p)
  <2>1. PICK p \in Proc : Lock(p)
    BY <1>6
  <2>2. req[p] \in Requests /\ req[p].key \in Key /\ req[p].ids # {}
    BY <2>1 DEF Lock, LockAll, Requests
  <2>3. LockInv'
    <3> SUFFICES ASSUME NEW q \in Proc, NEW id \in held'[q] PROVE lockOf'[id] = q
      OBVIOUS
    <3>1. id \in Id
      BY <2>1, <2>2, BindTypes DEF Lock, LockAll, Requests
    <3>2. CASE q = p
      BY <2>1, <2>2, <3>1, <3>2 DEF Lock, LockAll
    <3>3. CASE q # p
      <4>1. id \in held[q] /\ lockOf[id] = q
        BY <2>1, <2>2, <3>3 DEF Lock, LockAll
      <4> QED
        BY <2>1, <2>2, <3>1, <4>1 DEF Lock, LockAll
    <3> QED
      BY <3>2, <3>3
  <2>4. OwnerInv'
    BY <2>1, <2>2 DEF Lock, LockAll
  <2>5. Reservations'
    BY <2>1, <2>2 DEF Lock, LockAll
  <2> QED
    BY <2>3, <2>4, <2>5
<1>7. CASE \E p \in Proc : Relock(p)
  <2>1. PICK p \in Proc : Relock(p)
    BY <1>7
  <2>2. req[p] \in Requests /\ req[p].key \in Key /\ req[p].ids # {}
    BY <2>1 DEF Relock, LockAll, Requests
  <2>3. LockInv'
    <3> SUFFICES ASSUME NEW q \in Proc, NEW id \in held'[q] PROVE lockOf'[id] = q
      OBVIOUS
    <3>1. id \in Id
      BY <2>1, <2>2, BindTypes DEF Relock, LockAll, Requests
    <3>2. CASE q = p
      BY <2>1, <2>2, <3>1, <3>2 DEF Relock, LockAll
    <3>3. CASE q # p
      <4>1. id \in held[q] /\ lockOf[id] = q
        BY <2>1, <2>2, <3>3 DEF Relock, LockAll
      <4> QED
        BY <2>1, <2>2, <3>1, <4>1 DEF Relock, LockAll
    <3> QED
      BY <3>2, <3>3
  <2>4. OwnerInv'
    BY <2>1, <2>2 DEF Relock, LockAll
  <2>5. Reservations'
    BY <2>1, <2>2 DEF Relock, LockAll
  <2> QED
    BY <2>3, <2>4, <2>5
<1>8. CASE \E p \in Proc : Acquire(p)
  <2>1. PICK p \in Proc : Acquire(p)
    BY <1>8
  <2>2. req[p] \in Requests /\ req[p].key \in Key /\ req[p].ids # {}
    BY <2>1 DEF Acquire, Own, Admitted, Requests
  <2>3. LockInv'
    BY <2>1, <2>2 DEF Reservable, Acquire, Own, Admitted
  <2>4. OwnerInv'
    BY <2>1, <2>2 DEF Reservable, Acquire, Own, Admitted
  <2>5. Reservations'
    <3> PICK k \in Key : k = req[p].key
      BY <2>2
    <3>1. scopes' = [id \in Id |-> IF id \in held[p] /\ scopes[id] = None
                                 THEN k ELSE scopes[id]]
      BY <2>1 DEF Acquire, Own, Admitted
    <3>2. \A id \in held[p] : scopes[id] \in {None, k}
      BY <2>1 DEF Reservable, Acquire, Own, Admitted
    <3>3. Unresolved(k)' /\ row'[k].req = req[p]
      BY <2>1, <2>2 DEF Acquire, Own, Admitted
    <3>4. \A j \in Key \ {k} : row'[j] = row[j]
      BY <2>1, <2>2 DEF Acquire, Own, Admitted
    <3>5. req[p].ids \subseteq held[p] /\ held[p] \subseteq Id
      BY <2>1 DEF Acquire, Own, Admitted
    <3>6. ASSUME NEW j \in Key, j # k
          PROVE  IF Unresolved(j)' THEN \A id \in row'[j].req.ids : scopes'[id] = j
                                   ELSE \A id \in Id : scopes'[id] # j
      <4>1. CASE Unresolved(j)
        <5>1. \A id \in row[j].req.ids : id \in Id /\ scopes[id] = j
          BY <4>1 DEF Requests
        <5> QED
          BY <3>1, <3>4, <3>6, <4>1, <5>1
      <4>2. CASE ~ Unresolved(j)
        BY <3>1, <3>4, <3>6, <4>2
      <4> QED
        BY <4>1, <4>2
    <3>7. \A id \in row'[k].req.ids : scopes'[id] = k
      BY <3>1, <3>2, <3>3, <3>5
    <3>8. ASSUME NEW j \in Key
          PROVE  IF Unresolved(j)' THEN \A id \in row'[j].req.ids : scopes'[id] = j
                                   ELSE \A id \in Id : scopes'[id] # j
      BY <3>3, <3>6, <3>7
    <3> QED
      BY <3>8
  <2> QED
    BY <2>3, <2>4, <2>5
<1>9. CASE \E p \in Proc : Recover(p)
  <2>1. PICK p \in Proc : Recover(p)
    BY <1>9
  <2>2. req[p] \in Requests /\ req[p].key \in Key /\ req[p].ids # {}
    BY <2>1 DEF Recover, Own, Admitted, Requests
  <2>3. LockInv'
    BY <2>1, <2>2 DEF Reservable, Recover, Own, Admitted
  <2>4. OwnerInv'
    BY <2>1, <2>2 DEF Reservable, Recover, Own, Admitted
  <2>5. Reservations'
    <3> PICK k \in Key : k = req[p].key
      BY <2>2
    <3>1. scopes' = [id \in Id |-> IF id \in held[p] /\ scopes[id] = None
                                 THEN k ELSE scopes[id]]
      BY <2>1 DEF Recover, Own, Admitted
    <3>2. \A id \in held[p] : scopes[id] \in {None, k}
      BY <2>1 DEF Reservable, Recover, Own, Admitted
    <3>3. Unresolved(k)' /\ row'[k].req = req[p]
      BY <2>1, <2>2 DEF Recover, Own, Admitted
    <3>4. \A j \in Key \ {k} : row'[j] = row[j]
      BY <2>1, <2>2 DEF Recover, Own, Admitted
    <3>5. req[p].ids \subseteq held[p] /\ held[p] \subseteq Id
      BY <2>1 DEF Recover, Own, Admitted
    <3>6. ASSUME NEW j \in Key, j # k
          PROVE  IF Unresolved(j)' THEN \A id \in row'[j].req.ids : scopes'[id] = j
                                   ELSE \A id \in Id : scopes'[id] # j
      <4>1. CASE Unresolved(j)
        <5>1. \A id \in row[j].req.ids : id \in Id /\ scopes[id] = j
          BY <4>1 DEF Requests
        <5> QED
          BY <3>1, <3>4, <3>6, <4>1, <5>1
      <4>2. CASE ~ Unresolved(j)
        BY <3>1, <3>4, <3>6, <4>2
      <4> QED
        BY <4>1, <4>2
    <3>7. \A id \in row'[k].req.ids : scopes'[id] = k
      BY <3>1, <3>2, <3>3, <3>5
    <3>8. ASSUME NEW j \in Key
          PROVE  IF Unresolved(j)' THEN \A id \in row'[j].req.ids : scopes'[id] = j
                                   ELSE \A id \in Id : scopes'[id] # j
      BY <3>3, <3>6, <3>7
    <3> QED
      BY <3>8
  <2> QED
    BY <2>3, <2>4, <2>5
<1>10. CASE \E p \in Proc : Refuse(p)
  <2>1. PICK p \in Proc : Refuse(p)
    BY <1>10
  <2>3. LockInv'
    BY <2>1 DEF Refuse, Forgotten
  <2>4. OwnerInv'
    BY <2>1 DEF Refuse, Forgotten
  <2>5. Reservations'
    BY <2>1 DEF Refuse, Forgotten
  <2> QED
    BY <2>3, <2>4, <2>5
<1>11. CASE \E p \in Proc : CommitCheck(p)
  <2>1. PICK p \in Proc : CommitCheck(p)
    BY <1>11
  <2>2. req[p] \in Requests /\ req[p].key \in Key /\ req[p].ids # {}
    BY <2>1 DEF CommitCheck, At, Requests
  <2>3. LockInv'
    BY <2>1, <2>2 DEF CommitCheck, At
  <2>4. OwnerInv'
    BY <2>1, <2>2 DEF CommitCheck, At
  <2>5. Reservations'
    BY <2>1, <2>2 DEF CommitCheck, At
  <2> QED
    BY <2>3, <2>4, <2>5
<1>12. CASE \E p \in Proc : CommitWrite(p)
  <2>1. PICK p \in Proc : CommitWrite(p)
    BY <1>12
  <2>2. req[p] \in Requests /\ req[p].key \in Key /\ req[p].ids # {}
    BY <2>1 DEF CommitWrite, At, Update, Requests
  <2>3. LockInv'
    BY <2>1, <2>2 DEF CommitWrite, At, Update
  <2>4. OwnerInv'
    BY <2>1, <2>2 DEF CommitWrite, At, Update
  <2>5. Reservations'
    BY <2>1, <2>2 DEF CommitWrite, At, Update
  <2> QED
    BY <2>3, <2>4, <2>5
<1>13. CASE \E p \in Proc : Validate(p)
  <2>1. PICK p \in Proc : Validate(p)
    BY <1>13
  <2>2. req[p] \in Requests /\ req[p].key \in Key /\ req[p].ids # {}
    BY <2>1 DEF Validate, At, Requests
  <2>3. LockInv'
    BY <2>1, <2>2 DEF Validate, At
  <2>4. OwnerInv'
    BY <2>1, <2>2 DEF Validate, At
  <2>5. Reservations'
    BY <2>1, <2>2 DEF Validate, At
  <2> QED
    BY <2>3, <2>4, <2>5
<1>14. CASE \E p \in Proc : Publish(p)
  <2>1. PICK p \in Proc : Publish(p)
    BY <1>14
  <2>2. req[p] \in Requests /\ req[p].key \in Key /\ req[p].ids # {}
    BY <2>1 DEF Publish, At, NewFile, Requests
  <2>3. LockInv'
    BY <2>1, <2>2 DEF Publish, At, NewFile
  <2>4. OwnerInv'
    BY <2>1, <2>2 DEF Publish, At, NewFile
  <2>5. Reservations'
    BY <2>1, <2>2 DEF Publish, At, NewFile
  <2> QED
    BY <2>3, <2>4, <2>5
<1>15. CASE \E p \in Proc : FinishCheck(p)
  <2>1. PICK p \in Proc : FinishCheck(p)
    BY <1>15
  <2>2. req[p] \in Requests /\ req[p].key \in Key /\ req[p].ids # {}
    BY <2>1 DEF FinishCheck, At, Requests
  <2>3. LockInv'
    BY <2>1, <2>2 DEF FinishCheck, At
  <2>4. OwnerInv'
    BY <2>1, <2>2 DEF FinishCheck, At
  <2>5. Reservations'
    BY <2>1, <2>2 DEF FinishCheck, At
  <2> QED
    BY <2>3, <2>4, <2>5
<1>16. CASE \E p \in Proc : FinishWrite(p)
  <2>1. PICK p \in Proc : FinishWrite(p)
    BY <1>16
  <2>2. req[p] \in Requests /\ req[p].key \in Key /\ req[p].ids # {}
    BY <2>1 DEF FinishWrite, At, Update, Requests
  <2>3. LockInv'
    BY <2>1, <2>2 DEF Terminal, FinishWrite, At, Update
  <2>4. OwnerInv'
    BY <2>1, <2>2 DEF Terminal, FinishWrite, At, Update
  <2>5. Reservations'
    <3> PICK k \in Key : k = req[p].key
      BY <2>2
    <3>1. scopes' = [id \in Id |-> IF scopes[id] = k THEN None ELSE scopes[id]]
      BY <2>1 DEF FinishWrite
    <3>2. ~ Unresolved(k)'
      <4>1. row'[k].state \in {"absent", "COMMITTED", "ABORTED"}
        BY <2>1, <2>2 DEF FinishWrite, Update, Rows
      <4> QED
        BY <4>1
    <3>3. \A j \in Key \ {k} : row'[j] = row[j]
      BY <2>1, <2>2 DEF FinishWrite, Update
    <3>4. ASSUME NEW j \in Key, j # k
          PROVE  IF Unresolved(j)' THEN \A id \in row'[j].req.ids : scopes'[id] = j
                                   ELSE \A id \in Id : scopes'[id] # j
      <4>1. CASE Unresolved(j)
        <5>1. \A id \in row[j].req.ids : id \in Id /\ scopes[id] = j
          BY <4>1 DEF Requests
        <5> QED
          BY <3>1, <3>3, <3>4, <4>1, <5>1
      <4>2. CASE ~ Unresolved(j)
        BY <3>1, <3>3, <3>4, <4>2
      <4> QED
        BY <4>1, <4>2
    <3>5. \A id \in Id : scopes'[id] # k
      <4>1. k \in Key
        OBVIOUS
      <4> QED
        BY <3>1, <4>1
    <3>8. ASSUME NEW j \in Key
          PROVE  IF Unresolved(j)' THEN \A id \in row'[j].req.ids : scopes'[id] = j
                                   ELSE \A id \in Id : scopes'[id] # j
      BY <3>2, <3>4, <3>5
    <3> QED
      BY <3>8
  <2> QED
    BY <2>3, <2>4, <2>5
<1>17. CASE \E p \in Proc : Release(p)
  <2>1. PICK p \in Proc : Release(p)
    BY <1>17
  <2>2. req[p] \in Requests /\ req[p].key \in Key /\ req[p].ids # {}
    BY <2>1 DEF Release, Requests
  <2>3. LockInv'
    BY <2>1, <2>2 DEF Release
  <2>4. OwnerInv'
    BY <2>1, <2>2 DEF Release
  <2>5. Reservations'
    BY <2>1, <2>2 DEF Release
  <2> QED
    BY <2>3, <2>4, <2>5
<1>18. CASE \E p \in Proc : Close(p)
  <2>1. PICK p \in Proc : Close(p)
    BY <1>18
  <2>2. req[p] \in Requests /\ req[p].key \in Key /\ req[p].ids # {}
    BY <2>1 DEF Close, Forgotten, Requests
  <2>3. LockInv'
    BY <2>1, <2>2 DEF Close, Forgotten
  <2>4. OwnerInv'
    BY <2>1, <2>2 DEF Close, Forgotten
  <2>5. Reservations'
    BY <2>1, <2>2 DEF Close, Forgotten
  <2> QED
    BY <2>3, <2>4, <2>5
<1>19. CASE \E p \in Proc : Crash(p)
  <2>1. PICK p \in Proc : Crash(p)
    BY <1>19
  <2>3. LockInv'
    BY <2>1 DEF Crash, Forgotten
  <2>4. OwnerInv'
    BY <2>1 DEF Crash, Forgotten
  <2>5. Reservations'
    BY <2>1 DEF Crash, Forgotten
  <2> QED
    BY <2>3, <2>4, <2>5
<1>20. CASE \E p \in Proc : Expire(p)
  <2>1. PICK p \in Proc : Expire(p)
    BY <1>20
  <2>3. LockInv'
    BY <2>1 DEF Expire
  <2>4. OwnerInv'
    BY <2>1 DEF Expire
  <2>5. Reservations'
    BY <2>1 DEF Expire
  <2> QED
    BY <2>3, <2>4, <2>5
<1>21. CASE \E k \in Key : Prune(k)
  <2>1. PICK k \in Key : Prune(k)
    BY <1>21
  <2>3. LockInv'
    BY <2>1 DEF Terminal, Prune, NoRow
  <2>4. OwnerInv'
    BY <2>1 DEF Terminal, Prune, NoRow
  <2>5. Reservations'
    BY <2>1 DEF Terminal, Prune, NoRow
  <2> QED
    BY <2>3, <2>4, <2>5
<1>22. CASE \E c \in Foreign \cap File : \E o \in Object \cup {None} : Rename(c, o)
  <2>1. PICK c \in Foreign \cap File, o \in Object \cup {None} : Rename(c, o)
    BY <1>22
  <2>3. LockInv'
    BY <2>1 DEF Rename
  <2>4. OwnerInv'
    BY <2>1 DEF Rename
  <2>5. Reservations'
    BY <2>1 DEF Rename
  <2> QED
    BY <2>3, <2>4, <2>5
<1>23. CASE \E id \in LockLoss \cap Id : LoseLockFile(id)
  BY <1>23 DEF LoseLockFile
<1> QED
  BY <1>1, <1>2, <1>3, <1>4, <1>5, <1>6, <1>7, <1>8, <1>9, <1>10,
     <1>11, <1>12, <1>13, <1>14, <1>15, <1>16, <1>17, <1>18, <1>19,
     <1>20, <1>21, <1>22, <1>23 DEF Next, Step

(* Before anybody has done anything.                                       *)
LEMMA InitInv == Init => BaseInv /\ LeaseInv
<1> SUFFICES ASSUME Init PROVE BaseInv /\ LeaseInv
  OBVIOUS
<1> USE MutationCoordinatorAssumption DEF Init
<1>1. TypeOK
  BY DEF TypeOK, NoRow, Rows, PC
<1>2. RowInv /\ HeldInv
  BY DEF RowInv, HeldInv, NoRow, Engaged, Locked, Leased
<1>3. LockInv /\ OwnerInv /\ Reservations
  BY DEF LockInv, OwnerInv, Reservations, Unresolved, Open, NoRow, Leased
<1> QED
  BY <1>1, <1>2, <1>3 DEF BaseInv, LeaseInv

(* What holds even when lock files get lost always does.                   *)
LEMMA BaseInvariance == Spec => []BaseInv
<1>1. Init => BaseInv
  BY InitInv
<1> QED
  BY <1>1, BaseStep, PTL DEF Spec

(* And what the leases say, while lock files stay where they are.          *)
LEMMA LeaseInvariance == ASSUME LockLoss = {} PROVE Spec => [](BaseInv /\ LeaseInv)
<1>1. Init => BaseInv /\ LeaseInv
  BY InitInv
<1>2. BaseInv /\ LeaseInv /\ [Next]_vars => (BaseInv /\ LeaseInv)'
  BY BaseStep, LeaseStep
<1> QED
  BY <1>1, <1>2, PTL DEF Spec

(* Every variable keeps its type, lost lock files or not.                  *)
THEOREM TypeCorrect == Spec => []TypeOK
<1>1. BaseInv => TypeOK
  BY DEF BaseInv
<1> QED
  BY <1>1, BaseInvariance, PTL

(* While nobody deletes lock files, the scopes of an operation stay        *)
(* reserved exactly as long as it has no result (acquire, recover, close,  *)
(* transition), for any number of coordinators, operations and paths.      *)
THEOREM ReservationsHold == ASSUME LockLoss = {} PROVE Spec => []Reservations
<1>1. BaseInv /\ LeaseInv => Reservations
  BY DEF LeaseInv
<1> QED
  BY <1>1, LeaseInvariance, PTL

(* A step that leaves state and scopes of the rows alone is invisible.     *)
LEMMA LogStutter ==
  ASSUME \A k \in Key : Status(k)' = Status(k), UNCHANGED scopes
  PROVE  UNCHANGED Log!logVars
BY DEF Log!logVars, Reserved

(* Every step of the coordinators is a step of the log, or none.           *)
LEMMA LogStep ==
  ASSUME LockLoss = {}, BaseInv, LeaseInv, [Next]_vars
  PROVE  [Log!Next]_Log!logVars
<1> USE MutationCoordinatorAssumption
<1> USE DEF BaseInv, TypeOK, RowInv, HeldInv, LeaseInv, OwnerInv, files,
            journal, Requesting, Locked, Leased, Engaged
<1>1. CASE UNCHANGED vars
  BY <1>1, LogStutter DEF vars, Status, Unresolved
<1>2. CASE \E p \in Proc : \E k \in Key : Bind(p, k)
  <2>1. PICK p \in Proc, k \in Key : Bind(p, k)
    BY <1>2
  <2> QED
    BY <2>1, LogStutter DEF Bind, Status, Unresolved
<1>3. CASE \E p \in Proc : \E k \in Key : Rebind(p, k)
  <2>1. PICK p \in Proc, k \in Key : Rebind(p, k)
    BY <1>3
  <2> QED
    BY <2>1, LogStutter DEF Rebind, Unresolved, Status, Unresolved
<1>4. CASE \E p \in Proc : Drop(p)
  <2>1. PICK p \in Proc : Drop(p)
    BY <1>4
  <2> QED
    BY <2>1, LogStutter DEF Drop, Status, Unresolved
<1>5. CASE \E p \in Proc : CheckRecord(p)
  <2>1. PICK p \in Proc : CheckRecord(p)
    BY <1>5
  <2> QED
    BY <2>1, LogStutter DEF CheckRecord, Status, Unresolved
<1>6. CASE \E p \in Proc : Lock(p)
  <2>1. PICK p \in Proc : Lock(p)
    BY <1>6
  <2> QED
    BY <2>1, LogStutter DEF Lock, LockAll, Status, Unresolved
<1>7. CASE \E p \in Proc : Relock(p)
  <2>1. PICK p \in Proc : Relock(p)
    BY <1>7
  <2> QED
    BY <2>1, LogStutter DEF Relock, LockAll, Status, Unresolved
<1>8. CASE \E p \in Proc : Acquire(p)
  <2>1. PICK p \in Proc : Acquire(p)
    BY <1>8
  <2>2. req[p] \in Requests /\ held[p] \in SUBSET Id
    BY <2>1 DEF Acquire
  <2>3. PICK k \in Key : k = req[p].key
    BY <2>2 DEF Requests
  <2>4. /\ Status(k) = "absent"
        /\ Status(k)' = "open"
    BY <2>1, <2>2, <2>3 DEF Acquire, Own, Admitted, Status, Unresolved, Open
  <2>5. \A j \in Key \ {k} : Status(j)' = Status(j)
    BY <2>1, <2>3 DEF Acquire, Own, Admitted, Status, Unresolved
  <2>6. scopes' = [id \in Id |-> IF id \in held[p] /\ scopes[id] = None
                               THEN k ELSE scopes[id]]
    BY <2>1, <2>3 DEF Acquire, Own, Admitted
  <2>7. \A id \in held[p] : scopes[id] \in {None, k}
    BY <2>1, <2>3 DEF Acquire, Own, Admitted, Reservable
  <2>8. Log!Reservable(k, held[p])
    BY <2>2, <2>7 DEF Log!Reservable, Reserved
  <2>a. /\ Reserved(k)' = held[p]
        /\ \A j \in Key \ {k} : Reserved(j)' = Reserved(j)
    BY <2>2, <2>4, <2>6, <2>7 DEF Reserved, Status, Reservations
  <2>9. [j \in Key |-> Reserved(j)]'
          = [[j \in Key |-> Reserved(j)] EXCEPT ![k] = held[p]]
    BY <2>a, ZenonT(120)
  <2>10. [j \in Key |-> Status(j)]'
           = [[j \in Key |-> Status(j)] EXCEPT ![k] = "open"]
    BY <2>4, <2>5, ZenonT(120)
  <2>11. Log!Record(k, held[p])
    BY <2>4, <2>8, <2>9, <2>10 DEF Log!Record
  <2> QED
    BY <2>2, <2>11 DEF Log!Next
<1>9. CASE \E p \in Proc : Recover(p)
  <2>1. PICK p \in Proc : Recover(p)
    BY <1>9
  <2>2. req[p] \in Requests /\ held[p] \in SUBSET Id
    BY <2>1 DEF Recover
  <2>3. PICK k \in Key : k = req[p].key
    BY <2>2 DEF Requests
  <2>4. /\ Status(k) = "open"
        /\ Status(k)' = "open"
    BY <2>1, <2>2, <2>3 DEF Recover, Own, Admitted, Status, Unresolved, Open
  <2>5. \A j \in Key \ {k} : Status(j)' = Status(j)
    BY <2>1, <2>3 DEF Recover, Own, Admitted, Status, Unresolved
  <2>6. scopes' = [id \in Id |-> IF id \in held[p] /\ scopes[id] = None
                               THEN k ELSE scopes[id]]
    BY <2>1, <2>3 DEF Recover, Own, Admitted
  <2>7. \A id \in held[p] : scopes[id] \in {None, k}
    BY <2>1, <2>3 DEF Recover, Own, Admitted, Reservable
  <2>8. Log!Reservable(k, held[p])
    BY <2>2, <2>7 DEF Log!Reservable, Reserved
  <2>a. /\ Reserved(k)' = Reserved(k) \cup held[p]
        /\ \A j \in Key \ {k} : Reserved(j)' = Reserved(j)
    BY <2>2, <2>4, <2>6, <2>7 DEF Reserved, Status, Reservations
  <2>9. [j \in Key |-> Reserved(j)]'
          = [[j \in Key |-> Reserved(j)] EXCEPT ![k] = Reserved(k) \cup held[p]]
    BY <2>a, ZenonT(120)
  <2>10. [j \in Key |-> Status(j)]'
           = [j \in Key |-> Status(j)]
    BY <2>4, <2>5
  <2>11. Log!Widen(k, held[p])
    BY <2>4, <2>8, <2>9, <2>10 DEF Log!Widen
  <2> QED
    BY <2>2, <2>11 DEF Log!Next
<1>10. CASE \E p \in Proc : Refuse(p)
  <2>1. PICK p \in Proc : Refuse(p)
    BY <1>10
  <2> QED
    BY <2>1, LogStutter DEF Refuse, Forgotten, Status, Unresolved
<1>11. CASE \E p \in Proc : CommitCheck(p)
  <2>1. PICK p \in Proc : CommitCheck(p)
    BY <1>11
  <2> QED
    BY <2>1, LogStutter DEF CommitCheck, At, Status, Unresolved
<1>12. CASE \E p \in Proc : CommitWrite(p)
  <2>1. PICK p \in Proc : CommitWrite(p)
    BY <1>12
  <2>2. req[p] \in Requests
    BY <2>1 DEF CommitWrite, At, Update
  <2>3. PICK k \in Key : k = req[p].key
    BY <2>2 DEF Requests
  <2>4. Unresolved(k) /\ row[k] \in Rows
    BY <2>1, <2>3 DEF CommitWrite, At, Update
  <2>5. Unresolved(k)'
    BY <2>1, <2>3, <2>4 DEF CommitWrite, At, Update, Rows, Unresolved, Open
  <2>6. \A j \in Key \ {k} : Status(j)' = Status(j)
    BY <2>1, <2>3 DEF CommitWrite, At, Update, Status, Unresolved
  <2>7. Status(k)' = Status(k)
    BY <2>4, <2>5 DEF Status
  <2> QED
    BY <2>1, <2>6, <2>7, LogStutter DEF CommitWrite, At, Update
<1>13. CASE \E p \in Proc : Validate(p)
  <2>1. PICK p \in Proc : Validate(p)
    BY <1>13
  <2> QED
    BY <2>1, LogStutter DEF Validate, At, Status, Unresolved
<1>14. CASE \E p \in Proc : Publish(p)
  <2>1. PICK p \in Proc : Publish(p)
    BY <1>14
  <2> QED
    BY <2>1, LogStutter DEF Publish, At, NewFile, Status, Unresolved
<1>15. CASE \E p \in Proc : FinishCheck(p)
  <2>1. PICK p \in Proc : FinishCheck(p)
    BY <1>15
  <2> QED
    BY <2>1, LogStutter DEF FinishCheck, At, Status, Unresolved
<1>16. CASE \E p \in Proc : FinishWrite(p)
  <2>1. PICK p \in Proc : FinishWrite(p)
    BY <1>16
  <2>2. req[p] \in Requests
    BY <2>1 DEF FinishWrite, At
  <2>3. PICK k \in Key : k = req[p].key
    BY <2>2 DEF Requests
  <2>4. Status(k) = "open"
    BY <2>1, <2>3 DEF FinishWrite, At, Status
  <2>5. row[k] \in Rows /\ row[k].state # "absent"
    BY <2>4 DEF Status, Unresolved, Open
  <2>6. row'[k].state \in {"COMMITTED", "ABORTED"}
    BY <2>1, <2>3, <2>5 DEF FinishWrite, Update, Rows
  <2>7. Status(k)' \in {"committed", "aborted"}
    BY <2>6 DEF Status, Unresolved, Open
  <2>8. \A j \in Key \ {k} : Status(j)' = Status(j)
    BY <2>1, <2>3 DEF FinishWrite, Update, Status, Unresolved
  <2>9. [j \in Key |-> Status(j)]' = [[j \in Key |-> Status(j)] EXCEPT ![k] = Status(k)']
    BY <2>8, ZenonT(120)
  <2>10. scopes' = [id \in Id |-> IF scopes[id] = k THEN None ELSE scopes[id]]
    BY <2>1, <2>3 DEF FinishWrite
  <2>11. /\ Reserved(k)' = {}
         /\ \A j \in Key \ {k} : Reserved(j)' = Reserved(j)
    BY <2>10 DEF Reserved
  <2>12. [j \in Key |-> Reserved(j)]' = [[j \in Key |-> Reserved(j)] EXCEPT ![k] = {}]
    BY <2>11, ZenonT(120)
  <2>13. Log!Resolve(k, Status(k)')
    BY <2>4, <2>9, <2>12 DEF Log!Resolve
  <2> QED
    BY <2>7, <2>13 DEF Log!Next
<1>17. CASE \E p \in Proc : Release(p)
  <2>1. PICK p \in Proc : Release(p)
    BY <1>17
  <2> QED
    BY <2>1, LogStutter DEF Release, Status, Unresolved
<1>18. CASE \E p \in Proc : Close(p)
  <2>1. PICK p \in Proc : Close(p)
    BY <1>18
  <2>2. req[p] \in Requests
    BY <2>1 DEF Close, Forgotten, Unresolved
  <2>3. PICK k \in Key : k = req[p].key
    BY <2>2 DEF Requests
  <2>4. Unresolved(k) /\ row[k] \in Rows
    BY <2>1, <2>3 DEF Close, Forgotten, Unresolved
  <2>5. Unresolved(k)'
    BY <2>1, <2>3, <2>4 DEF Close, Forgotten, Unresolved, Rows, Unresolved, Open
  <2>6. \A j \in Key \ {k} : Status(j)' = Status(j)
    BY <2>1, <2>3 DEF Close, Forgotten, Unresolved, Status, Unresolved
  <2>7. Status(k)' = Status(k)
    BY <2>4, <2>5 DEF Status
  <2> QED
    BY <2>1, <2>6, <2>7, LogStutter DEF Close, Forgotten, Unresolved
<1>19. CASE \E p \in Proc : Crash(p)
  <2>1. PICK p \in Proc : Crash(p)
    BY <1>19
  <2> QED
    BY <2>1, LogStutter DEF Crash, Forgotten, Status, Unresolved
<1>20. CASE \E p \in Proc : Expire(p)
  <2>1. PICK p \in Proc : Expire(p)
    BY <1>20
  <2> QED
    BY <2>1, LogStutter DEF Expire, Status, Unresolved
<1>21. CASE \E k \in Key : Prune(k)
  <2>1. PICK k \in Key : Prune(k)
    BY <1>21
  <2>2. Status(k) \in {"committed", "aborted"} /\ Status(k)' = "absent"
    BY <2>1 DEF Prune, NoRow, Status, Unresolved, Terminal, Open
  <2>3. \A j \in Key \ {k} : Status(j)' = Status(j)
    BY <2>1 DEF Prune, Status, Unresolved
  <2>4. [j \in Key |-> Status(j)]' = [[j \in Key |-> Status(j)] EXCEPT ![k] = "absent"]
    BY <2>2, <2>3, ZenonT(120)
  <2>5. UNCHANGED scopes /\ k \notin Retained
    BY <2>1 DEF Prune
  <2>6. Log!Forget(k)
    BY <2>2, <2>4, <2>5 DEF Log!Forget, Reserved
  <2> QED
    BY <2>6 DEF Log!Next
<1>22. CASE \E c \in Foreign \cap File : \E o \in Object \cup {None} : Rename(c, o)
  BY <1>22, LogStutter DEF Rename, Status, Unresolved
<1>23. CASE \E id \in LockLoss \cap Id : LoseLockFile(id)
  BY <1>23, LogStutter DEF LoseLockFile, Status, Unresolved
<1> QED
  BY <1>1, <1>2, <1>3, <1>4, <1>5, <1>6, <1>7, <1>8, <1>9, <1>10,
     <1>11, <1>12, <1>13, <1>14, <1>15, <1>16, <1>17, <1>18, <1>19,
     <1>20, <1>21, <1>22, <1>23 DEF Next, Step

(* The journal implements OperationLog while nobody deletes lock files: a  *)
(* reservation belongs to one operation until that is resolved, and a      *)
(* result is final.                                                        *)
THEOREM ImplementsLog == ASSUME LockLoss = {} PROVE Spec => LogSpec
<1>1. Init => Log!Init
  BY MutationCoordinatorAssumption
  DEF Init, Log!Init, Status, Reserved, Unresolved, Open, NoRow, Id
<1>2. BaseInv /\ LeaseInv /\ [Next]_vars => [Log!Next]_Log!logVars
  BY LogStep
<1> QED
  BY <1>1, <1>2, LeaseInvariance, PTL DEF Spec, LogSpec, Log!Spec
-------------------------------------------------------------------------------
(***************************************************************************)
(* That mutations are exact, for any number of coordinators, operations    *)
(* and files.  An owner has locked the names and the inodes of everything  *)
(* it insists on (RequestInv), so two of them work on different files      *)
(* (Apart), and what one has checked no other changes until it publishes   *)
(* (ExactInv).  Interrupted operations are ordered by who reserves what    *)
(* the others' paths name now (WaitInv), so one can always be recovered.   *)
(***************************************************************************)

(* What a mutation concerns: the names of its paths, the inodes they have  *)
(* at the revisions r.                                                     *)
Named(k) == Bound[k] \cup {Canon[s] : s \in Bound[k]}
Inodes(r) == {r[s][1] : s \in {t \in DOMAIN r : r[t] # None}}
Scopes(k, r) == Named(k) \cup Inodes(r)

(* A request reserves the names and the inodes of what it has seen.        *)
Exact(r) == r.seen \in [Bound[r.key] -> Revisions] /\ r.ids = Scopes(r.key, r.seen)

RecordedInv == \A k \in Key : row[k].state # "absent" => Exact(row[k].req)

AskedInv == \A p \in Proc : pc[p] # "idle" => Exact(req[p])

(* An acquisition insists on the revisions that its request was made for.  *)
ExpectInv == \A p \in Proc : pc[p] \in {"bound", "checked", "locked"} => expect[p] = req[p].seen

(* Whatever p insists on, it has locked.                                   *)
CoverInv ==
  \A p \in Proc : pc[p] \in Locked \cup Leased => Scopes(req[p].key, expect[p]) \subseteq held[p]

RequestInv == RecordedInv /\ AskedInv /\ ExpectInv /\ CoverInv

(* What bind reserves.                                                     *)
LEMMA BoundScopes ==
  ASSUME TypeOK, NEW k \in Key
  PROVE  /\ Seen(Bound[k]) \in [Bound[k] -> Revisions]
         /\ Ids(Bound[k]) = Scopes(k, Seen(Bound[k]))
         /\ Exact(Request(k))
<1>1. ASSUME NEW s \in Bound[k]
      PROVE  s \in Path /\ Canon[s] \in File /\ at[Canon[s]] \in Object \cup {None}
  BY MutationCoordinatorAssumption DEF TypeOK, File
<1>2. ASSUME NEW s \in Bound[k]
      PROVE  /\ Revision(s) \in Revisions
             /\ Revision(s) = None <=> at[Canon[s]] = None
             /\ Revision(s) # None => Revision(s)[1] = at[Canon[s]]
  <2>1. CASE at[Canon[s]] = None
    BY <2>1 DEF Revision, Revisions
  <2>2. CASE at[Canon[s]] # None
    <3>1. at[Canon[s]] \in Object /\ gen[at[Canon[s]]] \in 0..MaxGen
      BY <1>1, <2>2 DEF TypeOK
    <3>2. Revision(s) = <<at[Canon[s]], gen[at[Canon[s]]]>>
      BY <2>2 DEF Revision
    <3>3. Revision(s) # None
      BY <3>1, <3>2, MutationCoordinatorAssumption
    <3> QED
      BY <2>2, <3>1, <3>2, <3>3 DEF Revisions
  <2> QED
    BY <2>1, <2>2
<1>3. Seen(Bound[k]) \in [Bound[k] -> Revisions]
  BY <1>2 DEF Seen
<1>4. Inodes(Seen(Bound[k])) = {at[Canon[s]] : s \in Bound[k]} \ {None}
  BY <1>2 DEF Inodes, Seen
<1>5. Ids(Bound[k]) = Scopes(k, Seen(Bound[k]))
  BY <1>4 DEF Ids, Scopes, Named
<1> QED
  BY <1>3, <1>5 DEF Exact, Request

(* Every step keeps the requests exact.                                    *)
LEMMA RequestStep ==
  ASSUME BaseInv, RequestInv, [Next]_vars PROVE RequestInv'
<1> SUFFICES ASSUME RecordedInv, AskedInv, ExpectInv, CoverInv, TypeOK, RowInv,
                   HeldInv,
                  [Next]_vars
             PROVE RequestInv'
  BY DEF BaseInv, RequestInv
<1> USE MutationCoordinatorAssumption DEF files, journal
<1>1. ASSUME NEW p \in Proc, NEW k \in Key, Bind(p, k) PROVE RequestInv'
  <2>1. RecordedInv'
    BY <1>1 DEF Bind, TypeOK, PC, Requesting, Locked, Leased, Engaged,
       RecordedInv, Open, Terminal
  <2>2. AskedInv'
    BY <1>1, BoundScopes DEF Bind, TypeOK, PC, Requesting, AskedInv
  <2>3. ExpectInv'
    BY <1>1 DEF Bind, Request, TypeOK, PC, Requesting, ExpectInv
  <2>4. CoverInv'
    BY <1>1 DEF Bind, TypeOK, PC, Requesting, Locked, Leased, Engaged, CoverInv
  <2> QED
    BY <2>1, <2>2, <2>3, <2>4 DEF RequestInv
<1>2. ASSUME NEW p \in Proc, NEW k \in Key, Rebind(p, k) PROVE RequestInv'
  <2>1. RecordedInv'
    BY <1>2 DEF Rebind, Unresolved, Open, TypeOK, PC, Requesting, Locked,
       Leased, Engaged, RecordedInv, Terminal
  <2>2. AskedInv'
    BY <1>2 DEF Rebind, Unresolved, Open, TypeOK, PC, Requesting, Locked,
       Leased, Engaged, AskedInv, RecordedInv, Terminal, ExpectInv, CoverInv,
       RowInv, HeldInv
  <2>3. ExpectInv'
    BY <1>2 DEF Rebind, Unresolved, Open, TypeOK, PC, Requesting, Locked,
       Leased, Engaged, ExpectInv
  <2>4. CoverInv'
    BY <1>2 DEF Rebind, Unresolved, Open, TypeOK, PC, Requesting, Locked,
       Leased, Engaged, CoverInv
  <2> QED
    BY <2>1, <2>2, <2>3, <2>4 DEF RequestInv
<1>3. ASSUME NEW p \in Proc, Drop(p) PROVE RequestInv'
  <2>1. RecordedInv'
    BY <1>3 DEF Drop, TypeOK, PC, Requesting, Locked, Leased, Engaged,
       RecordedInv, Open, Terminal
  <2>2. AskedInv'
    BY <1>3 DEF Drop, TypeOK, PC, Requesting, Locked, Leased, Engaged, AskedInv
  <2>3. ExpectInv'
    BY <1>3 DEF Drop, TypeOK, PC, Requesting, Locked, Leased, Engaged,
       ExpectInv
  <2>4. CoverInv'
    BY <1>3 DEF Drop, TypeOK, PC, Requesting, Locked, Leased, Engaged, CoverInv
  <2> QED
    BY <2>1, <2>2, <2>3, <2>4 DEF RequestInv
<1>4. ASSUME NEW p \in Proc, CheckRecord(p) PROVE RequestInv'
  <2>1. RecordedInv'
    BY <1>4 DEF CheckRecord, RecordedInv, Open, Terminal
  <2>2. AskedInv'
    BY <1>4 DEF CheckRecord, TypeOK, PC, Requesting, Locked, Leased, Engaged,
       AskedInv
  <2>3. ExpectInv'
    BY <1>4 DEF CheckRecord, TypeOK, PC, Requesting, Locked, Leased, Engaged,
       ExpectInv
  <2>4. CoverInv'
    BY <1>4 DEF CheckRecord, TypeOK, PC, Requesting, Locked, Leased, Engaged,
       CoverInv
  <2> QED
    BY <2>1, <2>2, <2>3, <2>4 DEF RequestInv
<1>5. ASSUME NEW p \in Proc, Lock(p) PROVE RequestInv'
  <2>1. RecordedInv'
    BY <1>5 DEF Lock, LockAll, RecordedInv, Open, Terminal
  <2>2. AskedInv'
    BY <1>5 DEF Lock, LockAll, TypeOK, PC, Requesting, Locked, Leased, Engaged,
       AskedInv
  <2>3. ExpectInv'
    BY <1>5 DEF Lock, LockAll, TypeOK, PC, Requesting, Locked, Leased, Engaged,
       ExpectInv
  <2>4. CoverInv'
    <3>1. Exact(req[p]) /\ expect[p] = req[p].seen
      BY <1>5 DEF Lock, AskedInv, ExpectInv
    <3>2. Scopes(req[p].key, expect[p]) = req[p].ids
      BY <3>1 DEF Exact
    <3> QED
      BY <1>5, <3>2 DEF Lock, LockAll, TypeOK, Locked, Leased, CoverInv
  <2> QED
    BY <2>1, <2>2, <2>3, <2>4 DEF RequestInv
<1>6. ASSUME NEW p \in Proc, Relock(p) PROVE RequestInv'
  <2>1. RecordedInv'
    BY <1>6 DEF Relock, LockAll, RecordedInv, Open, Terminal
  <2>2. AskedInv'
    BY <1>6 DEF Relock, LockAll, TypeOK, PC, Requesting, Locked, Leased,
       Engaged, AskedInv
  <2>3. ExpectInv'
    BY <1>6 DEF Relock, LockAll, TypeOK, PC, Requesting, Locked, Leased,
       Engaged, ExpectInv
  <2>4. CoverInv'
    <3>1. req[p].key \in Key
      BY <1>6 DEF Relock, HeldInv, Requests
    <3>2. Ids(Bound[req[p].key]) = Scopes(req[p].key, Seen(Bound[req[p].key]))
      BY <3>1, BoundScopes
    <3> QED
      BY <1>6, <3>2 DEF Relock, LockAll, TypeOK, Locked, Leased, CoverInv
  <2> QED
    BY <2>1, <2>2, <2>3, <2>4 DEF RequestInv
<1>7. ASSUME NEW p \in Proc, Acquire(p) PROVE RequestInv'
  <2>1. RecordedInv'
    BY <1>7 DEF Acquire, Own, Admitted, TypeOK, PC, Requesting, Locked, Leased,
       Engaged, RecordedInv, Open, Terminal, AskedInv, ExpectInv, CoverInv,
       RowInv, HeldInv
  <2>2. AskedInv'
    BY <1>7 DEF Acquire, Own, Admitted, TypeOK, PC, Requesting, Locked, Leased,
       Engaged, AskedInv
  <2>3. ExpectInv'
    BY <1>7 DEF Acquire, Own, Admitted, TypeOK, PC, Requesting, Locked, Leased,
       Engaged, ExpectInv
  <2>4. CoverInv'
    BY <1>7 DEF Acquire, Own, Admitted, TypeOK, PC, Requesting, Locked, Leased,
       Engaged, CoverInv
  <2> QED
    BY <2>1, <2>2, <2>3, <2>4 DEF RequestInv
<1>8. ASSUME NEW p \in Proc, Recover(p) PROVE RequestInv'
  <2>1. RecordedInv'
    BY <1>8 DEF Recover, Own, Admitted, TypeOK, PC, Requesting, Locked, Leased,
       Engaged, RecordedInv, Open, Terminal
  <2>2. AskedInv'
    BY <1>8 DEF Recover, Own, Admitted, TypeOK, PC, Requesting, Locked, Leased,
       Engaged, AskedInv
  <2>3. ExpectInv'
    BY <1>8 DEF Recover, Own, Admitted, TypeOK, PC, Requesting, Locked, Leased,
       Engaged, ExpectInv
  <2>4. CoverInv'
    BY <1>8 DEF Recover, Own, Admitted, TypeOK, PC, Requesting, Locked, Leased,
       Engaged, CoverInv
  <2> QED
    BY <2>1, <2>2, <2>3, <2>4 DEF RequestInv
<1>9. ASSUME NEW p \in Proc, Refuse(p) PROVE RequestInv'
  <2>1. RecordedInv'
    BY <1>9 DEF Refuse, Forgotten, TypeOK, PC, Requesting, Locked, Leased,
       Engaged, RecordedInv, Open, Terminal
  <2>2. AskedInv'
    BY <1>9 DEF Refuse, Forgotten, TypeOK, PC, Requesting, Locked, Leased,
       Engaged, AskedInv
  <2>3. ExpectInv'
    BY <1>9 DEF Refuse, Forgotten, TypeOK, PC, Requesting, Locked, Leased,
       Engaged, ExpectInv
  <2>4. CoverInv'
    BY <1>9 DEF Refuse, Forgotten, TypeOK, PC, Requesting, Locked, Leased,
       Engaged, CoverInv
  <2> QED
    BY <2>1, <2>2, <2>3, <2>4 DEF RequestInv
<1>10. ASSUME NEW p \in Proc, CommitCheck(p) PROVE RequestInv'
  <2>1. RecordedInv'
    BY <1>10 DEF CommitCheck, At, RecordedInv, Open, Terminal
  <2>2. AskedInv'
    BY <1>10 DEF CommitCheck, At, TypeOK, PC, Requesting, Locked, Leased,
       Engaged, AskedInv
  <2>3. ExpectInv'
    BY <1>10 DEF CommitCheck, At, TypeOK, PC, Requesting, Locked, Leased,
       Engaged, ExpectInv
  <2>4. CoverInv'
    BY <1>10 DEF CommitCheck, At, TypeOK, PC, Requesting, Locked, Leased,
       Engaged, CoverInv
  <2> QED
    BY <2>1, <2>2, <2>3, <2>4 DEF RequestInv
<1>11. ASSUME NEW p \in Proc, CommitWrite(p) PROVE RequestInv'
  <2>1. RecordedInv'
    BY <1>11 DEF CommitWrite, At, Update, TypeOK, PC, Requesting, Locked,
       Leased, Engaged, RecordedInv, Open, Terminal
  <2>2. AskedInv'
    BY <1>11 DEF CommitWrite, At, Update, TypeOK, PC, Requesting, Locked,
       Leased, Engaged, AskedInv
  <2>3. ExpectInv'
    BY <1>11 DEF CommitWrite, At, Update, TypeOK, PC, Requesting, Locked,
       Leased, Engaged, ExpectInv
  <2>4. CoverInv'
    BY <1>11 DEF CommitWrite, At, Update, TypeOK, PC, Requesting, Locked,
       Leased, Engaged, CoverInv
  <2> QED
    BY <2>1, <2>2, <2>3, <2>4 DEF RequestInv
<1>12. ASSUME NEW p \in Proc, Validate(p) PROVE RequestInv'
  <2>1. RecordedInv'
    BY <1>12 DEF Validate, At, RecordedInv, Open, Terminal
  <2>2. AskedInv'
    BY <1>12 DEF Validate, At, TypeOK, PC, Requesting, Locked, Leased, Engaged,
       AskedInv
  <2>3. ExpectInv'
    BY <1>12 DEF Validate, At, TypeOK, PC, Requesting, Locked, Leased, Engaged,
       ExpectInv
  <2>4. CoverInv'
    BY <1>12 DEF Validate, At, TypeOK, PC, Requesting, Locked, Leased, Engaged,
       CoverInv
  <2> QED
    BY <2>1, <2>2, <2>3, <2>4 DEF RequestInv
<1>13. ASSUME NEW p \in Proc, Publish(p) PROVE RequestInv'
  <2>1. RecordedInv'
    BY <1>13 DEF Publish, At, RecordedInv, Open, Terminal
  <2>2. AskedInv'
    BY <1>13 DEF Publish, At, TypeOK, PC, Requesting, Locked, Leased, Engaged,
       AskedInv
  <2>3. ExpectInv'
    BY <1>13 DEF Publish, At, TypeOK, PC, Requesting, Locked, Leased, Engaged,
       ExpectInv
  <2>4. CoverInv'
    BY <1>13 DEF Publish, At, TypeOK, PC, Requesting, Locked, Leased, Engaged,
       CoverInv
  <2> QED
    BY <2>1, <2>2, <2>3, <2>4 DEF RequestInv
<1>14. ASSUME NEW p \in Proc, FinishCheck(p) PROVE RequestInv'
  <2>1. RecordedInv'
    BY <1>14 DEF FinishCheck, At, RecordedInv, Open, Terminal
  <2>2. AskedInv'
    BY <1>14 DEF FinishCheck, At, TypeOK, PC, Requesting, Locked, Leased,
       Engaged, AskedInv
  <2>3. ExpectInv'
    BY <1>14 DEF FinishCheck, At, TypeOK, PC, Requesting, Locked, Leased,
       Engaged, ExpectInv
  <2>4. CoverInv'
    BY <1>14 DEF FinishCheck, At, TypeOK, PC, Requesting, Locked, Leased,
       Engaged, CoverInv
  <2> QED
    BY <2>1, <2>2, <2>3, <2>4 DEF RequestInv
<1>15. ASSUME NEW p \in Proc, FinishWrite(p) PROVE RequestInv'
  <2>1. RecordedInv'
    BY <1>15 DEF FinishWrite, At, Update, TypeOK, PC, Requesting, Locked,
       Leased, Engaged, RecordedInv, Open, Terminal
  <2>2. AskedInv'
    BY <1>15 DEF FinishWrite, At, Update, TypeOK, PC, Requesting, Locked,
       Leased, Engaged, AskedInv
  <2>3. ExpectInv'
    BY <1>15 DEF FinishWrite, At, Update, TypeOK, PC, Requesting, Locked,
       Leased, Engaged, ExpectInv
  <2>4. CoverInv'
    BY <1>15 DEF FinishWrite, At, Update, TypeOK, PC, Requesting, Locked,
       Leased, Engaged, CoverInv
  <2> QED
    BY <2>1, <2>2, <2>3, <2>4 DEF RequestInv
<1>16. ASSUME NEW p \in Proc, Release(p) PROVE RequestInv'
  <2>1. RecordedInv'
    BY <1>16 DEF Release, RecordedInv, Open, Terminal
  <2>2. AskedInv'
    BY <1>16 DEF Release, TypeOK, PC, Requesting, Locked, Leased, Engaged,
       AskedInv
  <2>3. ExpectInv'
    BY <1>16 DEF Release, TypeOK, PC, Requesting, Locked, Leased, Engaged,
       ExpectInv
  <2>4. CoverInv'
    BY <1>16 DEF Release, TypeOK, PC, Requesting, Locked, Leased, Engaged,
       CoverInv
  <2> QED
    BY <2>1, <2>2, <2>3, <2>4 DEF RequestInv
<1>17. ASSUME NEW p \in Proc, Close(p) PROVE RequestInv'
  <2>1. RecordedInv'
    BY <1>17 DEF Close, Forgotten, Unresolved, TypeOK, PC, Requesting, Locked,
       Leased, Engaged, RecordedInv, Open, Terminal
  <2>2. AskedInv'
    BY <1>17 DEF Close, Forgotten, Unresolved, TypeOK, PC, Requesting, Locked,
       Leased, Engaged, AskedInv
  <2>3. ExpectInv'
    BY <1>17 DEF Close, Forgotten, Unresolved, TypeOK, PC, Requesting, Locked,
       Leased, Engaged, ExpectInv
  <2>4. CoverInv'
    BY <1>17 DEF Close, Forgotten, Unresolved, TypeOK, PC, Requesting, Locked,
       Leased, Engaged, CoverInv
  <2> QED
    BY <2>1, <2>2, <2>3, <2>4 DEF RequestInv
<1>18. ASSUME NEW p \in Proc, Crash(p) PROVE RequestInv'
  <2>1. RecordedInv'
    BY <1>18 DEF Crash, Forgotten, TypeOK, PC, Requesting, Locked, Leased,
       Engaged, RecordedInv, Open, Terminal
  <2>2. AskedInv'
    BY <1>18 DEF Crash, Forgotten, TypeOK, PC, Requesting, Locked, Leased,
       Engaged, AskedInv
  <2>3. ExpectInv'
    BY <1>18 DEF Crash, Forgotten, TypeOK, PC, Requesting, Locked, Leased,
       Engaged, ExpectInv
  <2>4. CoverInv'
    BY <1>18 DEF Crash, Forgotten, TypeOK, PC, Requesting, Locked, Leased,
       Engaged, CoverInv
  <2> QED
    BY <2>1, <2>2, <2>3, <2>4 DEF RequestInv
<1>19. ASSUME NEW p \in Proc, Expire(p) PROVE RequestInv'
  <2>1. RecordedInv' /\ AskedInv' /\ ExpectInv' /\ CoverInv'
    BY <1>19 DEF Expire, RecordedInv, Open, Terminal, AskedInv, ExpectInv,
       CoverInv, Locked, Leased
  <2> QED
    BY <2>1 DEF RequestInv
<1>20. ASSUME NEW k \in Key, Prune(k) PROVE RequestInv'
  <2>1. AskedInv' /\ ExpectInv' /\ CoverInv'
    BY <1>20 DEF Prune, NoRow, AskedInv, ExpectInv, CoverInv, Locked, Leased
  <2>2. RecordedInv'
    BY <1>20 DEF Prune, NoRow, TypeOK, PC, Requesting, Locked, Leased, Engaged,
       RecordedInv, Open, Terminal
  <2> QED
    BY <2>1, <2>2 DEF RequestInv
<1>21. ASSUME NEW c \in Foreign \cap File, NEW o \in Object \cup {None}, Rename(c, o) PROVE RequestInv'
  <2>1. RecordedInv' /\ AskedInv' /\ ExpectInv' /\ CoverInv'
    BY <1>21 DEF Rename, RecordedInv, Open, Terminal, AskedInv, ExpectInv,
       CoverInv, Locked, Leased
  <2> QED
    BY <2>1 DEF RequestInv
<1>22. ASSUME NEW id \in LockLoss \cap Id, LoseLockFile(id) PROVE RequestInv'
  <2>1. RecordedInv' /\ AskedInv' /\ ExpectInv' /\ CoverInv'
    BY <1>22 DEF LoseLockFile, RecordedInv, Open, Terminal, AskedInv,
       ExpectInv, CoverInv, Locked, Leased
  <2> QED
    BY <2>1 DEF RequestInv
<1>23. CASE UNCHANGED vars
  BY <1>23 DEF vars, RequestInv, RecordedInv, Open, Terminal, AskedInv,
     ExpectInv, CoverInv, Locked, Leased
<1> QED
  BY <1>1, <1>2, <1>3, <1>4, <1>5, <1>6, <1>7, <1>8, <1>9, <1>10, <1>11, <1>12,
     <1>13, <1>14, <1>15, <1>16, <1>17, <1>18, <1>19, <1>20, <1>21, <1>22,
     <1>23 DEF Next, Step

(* What requests and records reserve is what they insist on, always.       *)
LEMMA RequestInvariance == Spec => [](BaseInv /\ RequestInv)
<1>1. Init => BaseInv /\ RequestInv
  <2> SUFFICES ASSUME Init PROVE BaseInv /\ RequestInv
    OBVIOUS
  <2>1. \A k \in Key : row[k].state = "absent"
    BY DEF Init, NoRow
  <2>2. \A p \in Proc : pc[p] = "idle"
    BY DEF Init
  <2>3. RequestInv
    BY <2>1, <2>2 DEF RequestInv, RecordedInv, AskedInv, ExpectInv, CoverInv,
       Locked, Leased
  <2> QED
    BY <2>3, InitInv
<1>2. BaseInv /\ RequestInv /\ [Next]_vars => (BaseInv /\ RequestInv)'
  BY BaseStep, RequestStep
<1> QED
  BY <1>1, <1>2, PTL DEF Spec

(* Two owners never work on one inode, whichever names it has got in the   *)
(* meantime and whoever deletes lock files: a fresh owner has locked every *)
(* scope that its files have now.                                          *)
THEOREM AliasesAreExcluded == Spec => []AliasesExclude
<1>1. ASSUME BaseInv, RequestInv PROVE AliasesExclude
  <2> SUFFICES ASSUME NEW p \in Proc, NEW q \in Proc, p # q,
                      pc[p] \in Leased, pc[q] \in Leased,
                      Owner(p), Fresh(p), Owner(q), Fresh(q)
               PROVE  Ids(Bound[req[p].key]) \cap Ids(Bound[req[q].key]) = {}
    BY <1>1 DEF AliasesExclude
  <2>1. ASSUME NEW r \in Proc, pc[r] \in Leased, Owner(r), Fresh(r)
        PROVE  \A id \in Ids(Bound[req[r].key]) : lockOf[id] = r
    <3>1. req[r].key \in Key
      BY <1>1, <2>1 DEF BaseInv, HeldInv, Requests, Leased
    <3>2. Ids(Bound[req[r].key]) = Scopes(req[r].key, expect[r])
      BY <1>1, <2>1, <3>1, BoundScopes DEF BaseInv, Fresh
    <3>3. Scopes(req[r].key, expect[r]) \subseteq held[r]
      BY <1>1, <2>1 DEF RequestInv, CoverInv
    <3> QED
      BY <2>1, <3>2, <3>3 DEF Owner
  <2> QED
    BY <2>1
<1> QED
  BY <1>1, RequestInvariance, PTL

-------------------------------------------------------------------------------
(* While lock files stay where they are.                                   *)

(* What an acquisition has locked, and no more, is what it reserves.       *)
LockedInv ==
  \A p \in Proc : pc[p] \in Locked =>
    held[p] \subseteq req[p].ids \cup Scopes(req[p].key, expect[p])

(* The lease of an owner is the row's last one.                            *)
FenceInv == \A p \in Proc : pc[p] \in Leased => fence[p] = row[req[p].key].fence

(* An owner that has not published yet, and can.                           *)
Dependable == {"prepared", "precommit", "committing", "ready"}

ResultInv ==
  \A k \in Retained :
    /\ row[k].state \in {"absent", "ABORTED"} => done[k] = 0
    /\ Unresolved(k) => done[k] \in {0, 1}
    /\ row[k].state = "COMMITTED" => done[k] = 1

UnpublishedInv ==
  \A p \in Proc : pc[p] \in Dependable /\ req[p].key \in Retained => done[req[p].key] = 0

(* Such an owner still sees the revisions it insists on, but for the files *)
(* that an outside program changed; that marks every name of an inode.     *)
FreshInv ==
  \A p \in Proc : pc[p] \in Dependable =>
    /\ expect[p] \in [Bound[req[p].key] -> Revisions]
    /\ \A s \in Bound[req[p].key] : Canon[s] \in moved \/ expect[p][s] = Revision(s)

MovedInv ==
  \A c, d \in File : c \in moved /\ at[c] # None /\ at[c] = at[d] => d \in moved

ExactInv ==
  LockedInv /\ FenceInv /\ ResultInv /\ UnpublishedInv /\ FreshInv /\ MovedInv

(* Two coordinators that hold locks work for different keys, on different  *)
(* names and inodes.                                                       *)
LEMMA Apart ==
  ASSUME BaseInv, LockInv, CoverInv, NEW p \in Proc, NEW q \in Proc, p # q,
         pc[p] \in Locked \cup Leased, pc[q] \in Locked \cup Leased
  PROVE  /\ req[p].key # req[q].key
         /\ Scopes(req[p].key, expect[p]) \cap Scopes(req[q].key, expect[q]) = {}
<1>1. held[p] \cap held[q] = {}
  BY DEF LockInv
<1>2. Scopes(req[p].key, expect[p]) \cap Scopes(req[q].key, expect[q]) = {}
  BY <1>1 DEF CoverInv
<1>3. Dest[req[p].key] \in Named(req[p].key)
  BY MutationCoordinatorAssumption
  DEF BaseInv, HeldInv, Requests, Locked, Leased, Named
<1> QED
  BY <1>2, <1>3 DEF Scopes

(* Every step keeps the mutations exact.                                   *)
LEMMA ExactStep ==
  ASSUME LockLoss = {}, BaseInv, LeaseInv, RequestInv, ExactInv, [Next]_vars
  PROVE  ExactInv'
<1> SUFFICES ASSUME LockedInv, FenceInv, ResultInv, UnpublishedInv, FreshInv,
                   MovedInv, TypeOK, RowInv, HeldInv, OwnerInv, RecordedInv,
                   AskedInv, ExpectInv, CoverInv, LockInv, Reservations,
                  [Next]_vars
             PROVE ExactInv'
  BY DEF BaseInv, LeaseInv, RequestInv, ExactInv
<1> USE MutationCoordinatorAssumption DEF files, journal
<1>a. ASSUME NEW p \in Proc, NEW q \in Proc, p # q,
             pc[p] \in Locked \cup Leased, pc[q] \in Locked \cup Leased
      PROVE  /\ req[p].key # req[q].key
             /\ Scopes(req[p].key, expect[p]) \cap Scopes(req[q].key, expect[q]) = {}
  BY <1>a, Apart DEF BaseInv
<1>1. ASSUME NEW p \in Proc, NEW k \in Key, Bind(p, k) PROVE ExactInv'
  <2>1. LockedInv'
    BY <1>1 DEF Bind, TypeOK, PC, Requesting, Locked, Leased, Engaged,
       LockedInv
  <2>2. FenceInv'
    BY <1>1 DEF Bind, TypeOK, PC, Requesting, Locked, Leased, Engaged, FenceInv
  <2>3. ResultInv'
    BY <1>1 DEF Bind, ResultInv, Open, Terminal, Unresolved
  <2>4. UnpublishedInv'
    BY <1>1 DEF Bind, TypeOK, PC, Requesting, Locked, Leased, Engaged,
       UnpublishedInv, Dependable
  <2>5. FreshInv'
    BY <1>1 DEF Bind, TypeOK, PC, Requesting, Locked, Leased, Engaged,
       FreshInv, Dependable, Revision
  <2>6. MovedInv'
    BY <1>1 DEF Bind, TypeOK, PC, Requesting, Locked, Leased, Engaged, MovedInv
  <2> QED
    BY <2>1, <2>2, <2>3, <2>4, <2>5, <2>6 DEF ExactInv
<1>2. ASSUME NEW p \in Proc, NEW k \in Key, Rebind(p, k) PROVE ExactInv'
  <2>1. ResultInv' /\ MovedInv'
    BY <1>2 DEF Rebind, Unresolved, Open, ResultInv, Terminal, MovedInv
  <2>2. LockedInv'
    BY <1>2 DEF Rebind, Unresolved, Open, TypeOK, PC, Requesting, Locked,
       Leased, Engaged, LockedInv
  <2>3. FenceInv'
    BY <1>2 DEF Rebind, Unresolved, Open, TypeOK, PC, Requesting, Locked,
       Leased, Engaged, FenceInv
  <2>4. UnpublishedInv'
    BY <1>2 DEF Rebind, Unresolved, Open, TypeOK, PC, Requesting, Locked,
       Leased, Engaged, UnpublishedInv, Dependable
  <2>5. FreshInv'
    BY <1>2 DEF Rebind, Unresolved, Open, TypeOK, PC, Requesting, Locked,
       Leased, Engaged, FreshInv, Dependable, Revision
  <2> QED
    BY <2>1, <2>2, <2>3, <2>4, <2>5 DEF ExactInv
<1>3. ASSUME NEW p \in Proc, Drop(p) PROVE ExactInv'
  <2>1. LockedInv'
    BY <1>3 DEF Drop, TypeOK, PC, Requesting, Locked, Leased, Engaged,
       LockedInv
  <2>2. FenceInv'
    BY <1>3 DEF Drop, TypeOK, PC, Requesting, Locked, Leased, Engaged, FenceInv
  <2>3. ResultInv'
    BY <1>3 DEF Drop, ResultInv, Open, Terminal, Unresolved
  <2>4. UnpublishedInv'
    BY <1>3 DEF Drop, TypeOK, PC, Requesting, Locked, Leased, Engaged,
       UnpublishedInv, Dependable
  <2>5. FreshInv'
    BY <1>3 DEF Drop, TypeOK, PC, Requesting, Locked, Leased, Engaged,
       FreshInv, Dependable, Revision
  <2>6. MovedInv'
    BY <1>3 DEF Drop, TypeOK, PC, Requesting, Locked, Leased, Engaged, MovedInv
  <2> QED
    BY <2>1, <2>2, <2>3, <2>4, <2>5, <2>6 DEF ExactInv
<1>4. ASSUME NEW p \in Proc, CheckRecord(p) PROVE ExactInv'
  <2>1. LockedInv'
    BY <1>4 DEF CheckRecord, TypeOK, PC, Requesting, Locked, Leased, Engaged,
       LockedInv
  <2>2. FenceInv'
    BY <1>4 DEF CheckRecord, TypeOK, PC, Requesting, Locked, Leased, Engaged,
       FenceInv
  <2>3. ResultInv'
    BY <1>4 DEF CheckRecord, ResultInv, Open, Terminal, Unresolved
  <2>4. UnpublishedInv'
    BY <1>4 DEF CheckRecord, TypeOK, PC, Requesting, Locked, Leased, Engaged,
       UnpublishedInv, Dependable
  <2>5. FreshInv'
    BY <1>4 DEF CheckRecord, TypeOK, PC, Requesting, Locked, Leased, Engaged,
       FreshInv, Dependable, Revision
  <2>6. MovedInv'
    BY <1>4 DEF CheckRecord, TypeOK, PC, Requesting, Locked, Leased, Engaged,
       MovedInv
  <2> QED
    BY <2>1, <2>2, <2>3, <2>4, <2>5, <2>6 DEF ExactInv
<1>5. ASSUME NEW p \in Proc, Lock(p) PROVE ExactInv'
  <2>1. LockedInv'
    BY <1>5 DEF Lock, LockAll, TypeOK, PC, Requesting, Locked, Leased, Engaged,
       LockedInv
  <2>2. FenceInv'
    BY <1>5 DEF Lock, LockAll, TypeOK, PC, Requesting, Locked, Leased, Engaged,
       FenceInv
  <2>3. ResultInv'
    BY <1>5 DEF Lock, LockAll, ResultInv, Open, Terminal, Unresolved
  <2>4. UnpublishedInv'
    BY <1>5 DEF Lock, LockAll, TypeOK, PC, Requesting, Locked, Leased, Engaged,
       UnpublishedInv, Dependable
  <2>5. FreshInv'
    BY <1>5 DEF Lock, LockAll, TypeOK, PC, Requesting, Locked, Leased, Engaged,
       FreshInv, Dependable, Revision
  <2>6. MovedInv'
    BY <1>5 DEF Lock, LockAll, TypeOK, PC, Requesting, Locked, Leased, Engaged,
       MovedInv
  <2> QED
    BY <2>1, <2>2, <2>3, <2>4, <2>5, <2>6 DEF ExactInv
<1>6. ASSUME NEW p \in Proc, Relock(p) PROVE ExactInv'
  <2>1. LockedInv'
    <3>1. req[p].key \in Key
      BY <1>6 DEF Relock, HeldInv, Requests, Requesting
    <3>2. Ids(Bound[req[p].key]) = Scopes(req[p].key, Seen(Bound[req[p].key]))
      BY <3>1, BoundScopes
    <3> QED
      BY <1>6, <3>2 DEF Relock, LockAll, TypeOK, Locked, LockedInv
  <2>2. FenceInv'
    BY <1>6 DEF Relock, LockAll, TypeOK, PC, Requesting, Locked, Leased,
       Engaged, FenceInv
  <2>3. ResultInv'
    BY <1>6 DEF Relock, LockAll, ResultInv, Open, Terminal, Unresolved
  <2>4. UnpublishedInv'
    BY <1>6 DEF Relock, LockAll, TypeOK, PC, Requesting, Locked, Leased,
       Engaged, UnpublishedInv, Dependable
  <2>5. FreshInv'
    BY <1>6 DEF Relock, LockAll, TypeOK, PC, Requesting, Locked, Leased,
       Engaged, FreshInv, Dependable, Revision
  <2>6. MovedInv'
    BY <1>6 DEF Relock, LockAll, TypeOK, PC, Requesting, Locked, Leased,
       Engaged, MovedInv
  <2> QED
    BY <2>1, <2>2, <2>3, <2>4, <2>5, <2>6 DEF ExactInv
<1>7. ASSUME NEW p \in Proc, Acquire(p) PROVE ExactInv'
  <2>1. MovedInv'
    BY <1>7, <1>a DEF Acquire, Own, Admitted, MovedInv
  <2>2. LockedInv'
    BY <1>7, <1>a DEF Acquire, Own, Admitted, TypeOK, PC, Requesting, Locked,
       Leased, Engaged, LockedInv
  <2>3. FenceInv'
    <3>1. pc[p] \in Locked /\ req[p].key \in Key /\ row[req[p].key] \in Rows
      BY <1>7 DEF Acquire, HeldInv, Requests, TypeOK, Locked
    <3>2. ASSUME NEW q \in Proc, q # p, pc[q] \in Leased PROVE req[q].key # req[p].key
      BY <1>a, <3>1, <3>2
    <3> QED
      BY <1>7, <3>1, <3>2 DEF Acquire, Own, TypeOK, FenceInv
  <2>4. ResultInv'
    BY <1>7, <1>a DEF Acquire, Own, Admitted, ResultInv, Open, Terminal,
       Unresolved
  <2>5. UnpublishedInv'
    BY <1>7, <1>a DEF Acquire, Own, Admitted, UnpublishedInv, Dependable,
       ResultInv, Open, Terminal, Unresolved
  <2>6. FreshInv'
    <3>1. expect[p] = Seen(Bound[req[p].key]) /\ req[p].key \in Key
      BY <1>7 DEF Acquire, Admitted, Fresh, HeldInv, Requests
    <3>2. expect[p] \in [Bound[req[p].key] -> Revisions]
      BY <3>1, BoundScopes
    <3>3. \A s \in Bound[req[p].key] : expect[p][s] = Revision(s)
      BY <3>1 DEF Seen
    <3> QED
      BY <1>7, <3>2, <3>3 DEF Acquire, Own, TypeOK, Dependable, Revision,
         FreshInv
  <2> QED
    BY <2>1, <2>2, <2>3, <2>4, <2>5, <2>6 DEF ExactInv
<1>8. ASSUME NEW p \in Proc, Recover(p) PROVE ExactInv'
  <2>1. MovedInv'
    BY <1>8, <1>a DEF Recover, Own, Admitted, MovedInv
  <2>2. LockedInv'
    BY <1>8, <1>a DEF Recover, Own, Admitted, TypeOK, PC, Requesting, Locked,
       Leased, Engaged, LockedInv
  <2>3. FenceInv'
    <3>1. pc[p] \in Locked /\ req[p].key \in Key /\ row[req[p].key] \in Rows
      BY <1>8 DEF Recover, HeldInv, Requests, TypeOK, Locked
    <3>2. ASSUME NEW q \in Proc, q # p, pc[q] \in Leased PROVE req[q].key # req[p].key
      BY <1>a, <3>1, <3>2
    <3> QED
      BY <1>8, <3>1, <3>2 DEF Recover, Own, TypeOK, FenceInv
  <2>4. ResultInv'
    BY <1>8, <1>a DEF Recover, Own, Admitted, ResultInv, Open, Terminal,
       Unresolved
  <2>5. UnpublishedInv'
    BY <1>8, <1>a DEF Recover, Own, Admitted, TypeOK, PC, Requesting, Locked,
       Leased, Engaged, UnpublishedInv, Dependable
  <2>6. FreshInv'
    BY <1>8 DEF Recover, Own, TypeOK, Dependable, Revision, FreshInv
  <2> QED
    BY <2>1, <2>2, <2>3, <2>4, <2>5, <2>6 DEF ExactInv
<1>9. ASSUME NEW p \in Proc, Refuse(p) PROVE ExactInv'
  <2>1. LockedInv'
    BY <1>9 DEF Refuse, Forgotten, TypeOK, PC, Requesting, Locked, Leased,
       Engaged, LockedInv
  <2>2. FenceInv'
    BY <1>9 DEF Refuse, Forgotten, TypeOK, PC, Requesting, Locked, Leased,
       Engaged, FenceInv
  <2>3. ResultInv'
    BY <1>9 DEF Refuse, Forgotten, ResultInv, Open, Terminal, Unresolved
  <2>4. UnpublishedInv'
    BY <1>9 DEF Refuse, Forgotten, TypeOK, PC, Requesting, Locked, Leased,
       Engaged, UnpublishedInv, Dependable
  <2>5. FreshInv'
    BY <1>9 DEF Refuse, Forgotten, TypeOK, PC, Requesting, Locked, Leased,
       Engaged, FreshInv, Dependable, Revision
  <2>6. MovedInv'
    BY <1>9 DEF Refuse, Forgotten, TypeOK, PC, Requesting, Locked, Leased,
       Engaged, MovedInv
  <2> QED
    BY <2>1, <2>2, <2>3, <2>4, <2>5, <2>6 DEF ExactInv
<1>10. ASSUME NEW p \in Proc, CommitCheck(p) PROVE ExactInv'
  <2>1. LockedInv'
    BY <1>10 DEF CommitCheck, At, TypeOK, PC, Requesting, Locked, Leased,
       Engaged, LockedInv
  <2>2. FenceInv'
    BY <1>10 DEF CommitCheck, At, TypeOK, PC, Requesting, Locked, Leased,
       Engaged, FenceInv
  <2>3. ResultInv'
    BY <1>10 DEF CommitCheck, At, ResultInv, Open, Terminal, Unresolved
  <2>4. UnpublishedInv'
    BY <1>10 DEF CommitCheck, At, TypeOK, PC, Requesting, Locked, Leased,
       Engaged, UnpublishedInv, Dependable
  <2>5. FreshInv'
    BY <1>10 DEF CommitCheck, At, TypeOK, PC, Requesting, Locked, Leased,
       Engaged, FreshInv, Dependable, Revision
  <2>6. MovedInv'
    BY <1>10 DEF CommitCheck, At, TypeOK, PC, Requesting, Locked, Leased,
       Engaged, MovedInv
  <2> QED
    BY <2>1, <2>2, <2>3, <2>4, <2>5, <2>6 DEF ExactInv
<1>11. ASSUME NEW p \in Proc, CommitWrite(p) PROVE ExactInv'
  <2>1. MovedInv'
    BY <1>11, <1>a DEF CommitWrite, At, Update, MovedInv
  <2>2. LockedInv'
    BY <1>11, <1>a DEF CommitWrite, At, Update, TypeOK, PC, Requesting, Locked,
       Leased, Engaged, LockedInv
  <2>3. FenceInv'
    BY <1>11, <1>a DEF CommitWrite, At, Update, TypeOK, PC, Requesting, Locked,
       Leased, Engaged, FenceInv
  <2>4. ResultInv'
    BY <1>11, <1>a DEF CommitWrite, At, Update, TypeOK, PC, Requesting, Locked,
       Leased, Engaged, ResultInv, Open, Terminal, Unresolved, OwnerInv
  <2>5. UnpublishedInv'
    BY <1>11, <1>a DEF CommitWrite, At, Update, TypeOK, PC, Requesting, Locked,
       Leased, Engaged, UnpublishedInv, Dependable
  <2>6. FreshInv'
    BY <1>11, <1>a DEF CommitWrite, At, Update, TypeOK, PC, Requesting, Locked,
       Leased, Engaged, FreshInv, Dependable, Revision
  <2> QED
    BY <2>1, <2>2, <2>3, <2>4, <2>5, <2>6 DEF ExactInv
<1>12. ASSUME NEW p \in Proc, Validate(p) PROVE ExactInv'
  <2>1. LockedInv'
    BY <1>12 DEF Validate, At, TypeOK, PC, Requesting, Locked, Leased, Engaged,
       LockedInv
  <2>2. FenceInv'
    BY <1>12 DEF Validate, At, TypeOK, PC, Requesting, Locked, Leased, Engaged,
       FenceInv
  <2>3. ResultInv'
    BY <1>12 DEF Validate, At, ResultInv, Open, Terminal, Unresolved
  <2>4. UnpublishedInv'
    BY <1>12 DEF Validate, At, TypeOK, PC, Requesting, Locked, Leased, Engaged,
       UnpublishedInv, Dependable
  <2>5. FreshInv'
    BY <1>12 DEF Validate, At, TypeOK, PC, Requesting, Locked, Leased, Engaged,
       FreshInv, Dependable, Revision
  <2>6. MovedInv'
    BY <1>12 DEF Validate, At, TypeOK, PC, Requesting, Locked, Leased, Engaged,
       MovedInv
  <2> QED
    BY <2>1, <2>2, <2>3, <2>4, <2>5, <2>6 DEF ExactInv
<1>13. ASSUME NEW p \in Proc, Publish(p) PROVE ExactInv'
  <2>1. LockedInv'
    BY <1>13, <1>a DEF Publish, At, TypeOK, PC, Requesting, Locked, Leased,
       Engaged, LockedInv
  <2>2. FenceInv'
    BY <1>13, <1>a DEF Publish, At, TypeOK, PC, Requesting, Locked, Leased,
       Engaged, FenceInv
  <2>3. ResultInv'
    <3>1. pc[p] = "ready" /\ row' = row /\ done' = [done EXCEPT ![req[p].key] = @ + 1]
      BY <1>13 DEF Publish, At
    <3>2. Unresolved(req[p].key)
      BY <1>a, <3>1 DEF OwnerInv, Leased
    <3>3. ASSUME NEW k \in Retained, k # req[p].key PROVE done'[k] = done[k]
      BY <3>1, <3>3 DEF TypeOK
    <3>4. ASSUME req[p].key \in Retained PROVE done'[req[p].key] = 1
      BY <3>1, <3>4 DEF TypeOK, UnpublishedInv, Dependable
    <3> QED
      BY <3>1, <3>2, <3>3, <3>4 DEF ResultInv, Unresolved, Open
  <2>4. UnpublishedInv'
    BY <1>13, <1>a DEF Publish, At, TypeOK, PC, Requesting, Locked, Leased,
       Engaged, UnpublishedInv, Dependable
  <2>5. FreshInv'
    <3> DEFINE c == Canon[Dest[req[p].key]]
    <3>1. /\ pc[p] = "ready" /\ req[p].key \in Key /\ c \in Named(req[p].key) /\ c \in File
          /\ UNCHANGED <<moved, req, expect>>
      BY <1>13 DEF Publish, At, HeldInv, Requests, Named, File
    <3>2. PICK o \in Object :
            /\ NewFile(o)
            /\ at' = [at EXCEPT ![c] = o]
            /\ gen' = [x \in Object |-> IF x \in {o, at[c]} THEN gen[x] + 1 ELSE gen[x]]
      BY <1>13 DEF Publish
    <3>3. ASSUME NEW q \in Proc, pc'[q] \in Dependable
          PROVE  q # p /\ pc[q] \in Dependable /\ req[q].key \in Key
      BY <1>13, <3>3 DEF Publish, At, TypeOK, HeldInv, Requests, Dependable
    <3>4. ASSUME NEW q \in Proc, pc'[q] \in Dependable, NEW s \in Bound[req[q].key],
                 Canon[s] \notin moved
          PROVE  Canon[s] \in File /\ Canon[s] # c /\ at[Canon[s]] # o
                 /\ (at[Canon[s]] = None \/ at[Canon[s]] # at[c])
      <4>1. req[p].key # req[q].key
            /\ Scopes(req[p].key, expect[p]) \cap Scopes(req[q].key, expect[q]) = {}
        BY <1>a, <3>1, <3>3, <3>4 DEF Dependable, Leased
      <4>2. s \in Path /\ Canon[s] \in File /\ Canon[s] \in Named(req[q].key)
        BY <3>3, <3>4 DEF File, Named
      <4>3. Canon[s] # c /\ at[Canon[s]] # o
        BY <3>1, <3>2, <4>1, <4>2 DEF Scopes, NewFile
      <4>4. ASSUME at[c] # None, at[Canon[s]] = at[c] PROVE FALSE
        <5>1. c \notin moved
          BY <3>1, <3>4, <4>2, <4>4 DEF MovedInv
        <5>2. Dest[req[p].key] \in Bound[req[p].key]
          BY <3>1
        <5>3. expect[p] \in [Bound[req[p].key] -> Revisions]
              /\ expect[p][Dest[req[p].key]] = Revision(Dest[req[p].key])
          BY <3>1, <5>1, <5>2 DEF FreshInv, Dependable
        <5>4. expect[q] \in [Bound[req[q].key] -> Revisions] /\ expect[q][s] = Revision(s)
          BY <3>3, <3>4 DEF FreshInv
        <5>5. /\ Revision(s) # None /\ Revision(s)[1] = at[c]
              /\ Revision(Dest[req[p].key]) # None /\ Revision(Dest[req[p].key])[1] = at[c]
          <6>1. at[c] \in Object /\ gen[at[c]] \in 0..MaxGen
            BY <3>1, <4>4 DEF TypeOK
          <6> QED
            BY <4>4, <6>1, SMTT(60) DEF Revision
        <5>6. at[c] \in Inodes(expect[p])
          BY <5>2, <5>3, <5>5 DEF Inodes
        <5>7. at[c] \in Inodes(expect[q])
          BY <3>4, <5>4, <5>5 DEF Inodes
        <5> QED
          BY <4>1, <5>6, <5>7 DEF Scopes
      <4> QED
        BY <4>2, <4>3, <4>4
    <3>5. ASSUME NEW q \in Proc, pc'[q] \in Dependable, NEW s \in Bound[req[q].key],
                 Canon[s] \notin moved
          PROVE  Revision(s)' = Revision(s)
      <4>1. at'[Canon[s]] = at[Canon[s]]
        BY <3>2, <3>4, <3>5 DEF TypeOK
      <4>2. CASE at[Canon[s]] = None
        BY <4>1, <4>2 DEF Revision
      <4>3. CASE at[Canon[s]] # None
        <5>1. at[Canon[s]] \in Object
          BY <3>4, <3>5, <4>3 DEF TypeOK
        <5>2. gen'[at[Canon[s]]] = gen[at[Canon[s]]]
          BY <3>2, <3>4, <3>5, <4>3, <5>1
        <5> QED
          BY <4>1, <5>2 DEF Revision
      <4> QED
        BY <4>2, <4>3
    <3> QED
      BY <3>1, <3>3, <3>5 DEF FreshInv
  <2>6. MovedInv'
    <3> DEFINE c == Canon[Dest[req[p].key]]
    <3>1. c \in File /\ UNCHANGED moved
      BY <1>13 DEF Publish, At, HeldInv, Requests, File
    <3>2. PICK o \in Object : NewFile(o) /\ at' = [at EXCEPT ![c] = o]
      BY <1>13 DEF Publish
    <3> QED
      BY <3>1, <3>2 DEF TypeOK, NewFile, MovedInv
  <2> QED
    BY <2>1, <2>2, <2>3, <2>4, <2>5, <2>6 DEF ExactInv
<1>14. ASSUME NEW p \in Proc, FinishCheck(p) PROVE ExactInv'
  <2>1. LockedInv'
    BY <1>14 DEF FinishCheck, At, TypeOK, PC, Requesting, Locked, Leased,
       Engaged, LockedInv
  <2>2. FenceInv'
    BY <1>14 DEF FinishCheck, At, TypeOK, PC, Requesting, Locked, Leased,
       Engaged, FenceInv
  <2>3. ResultInv'
    BY <1>14 DEF FinishCheck, At, ResultInv, Open, Terminal, Unresolved
  <2>4. UnpublishedInv'
    BY <1>14 DEF FinishCheck, At, TypeOK, PC, Requesting, Locked, Leased,
       Engaged, UnpublishedInv, Dependable
  <2>5. FreshInv'
    BY <1>14 DEF FinishCheck, At, TypeOK, PC, Requesting, Locked, Leased,
       Engaged, FreshInv, Dependable, Revision
  <2>6. MovedInv'
    BY <1>14 DEF FinishCheck, At, TypeOK, PC, Requesting, Locked, Leased,
       Engaged, MovedInv
  <2> QED
    BY <2>1, <2>2, <2>3, <2>4, <2>5, <2>6 DEF ExactInv
<1>15. ASSUME NEW p \in Proc, FinishWrite(p) PROVE ExactInv'
  <2>1. MovedInv'
    BY <1>15, <1>a DEF FinishWrite, At, Update, MovedInv
  <2>2. LockedInv'
    BY <1>15, <1>a DEF FinishWrite, At, Update, TypeOK, PC, Requesting, Locked,
       Leased, Engaged, LockedInv
  <2>3. FenceInv'
    BY <1>15, <1>a DEF FinishWrite, At, Update, TypeOK, PC, Requesting, Locked,
       Leased, Engaged, FenceInv
  <2>4. ResultInv'
    BY <1>15, <1>a DEF FinishWrite, At, Update, TypeOK, PC, Requesting, Locked,
       Leased, Engaged, ResultInv, Open, Terminal, Unresolved, OwnerInv
  <2>5. UnpublishedInv'
    BY <1>15, <1>a DEF FinishWrite, At, Update, TypeOK, PC, Requesting, Locked,
       Leased, Engaged, UnpublishedInv, Dependable
  <2>6. FreshInv'
    BY <1>15, <1>a DEF FinishWrite, At, Update, TypeOK, PC, Requesting, Locked,
       Leased, Engaged, FreshInv, Dependable, Revision
  <2> QED
    BY <2>1, <2>2, <2>3, <2>4, <2>5, <2>6 DEF ExactInv
<1>16. ASSUME NEW p \in Proc, Release(p) PROVE ExactInv'
  <2>1. LockedInv'
    BY <1>16 DEF Release, TypeOK, PC, Requesting, Locked, Leased, Engaged,
       LockedInv
  <2>2. FenceInv'
    BY <1>16 DEF Release, TypeOK, PC, Requesting, Locked, Leased, Engaged,
       FenceInv
  <2>3. ResultInv'
    BY <1>16 DEF Release, ResultInv, Open, Terminal, Unresolved
  <2>4. UnpublishedInv'
    BY <1>16 DEF Release, TypeOK, PC, Requesting, Locked, Leased, Engaged,
       UnpublishedInv, Dependable
  <2>5. FreshInv'
    BY <1>16 DEF Release, TypeOK, PC, Requesting, Locked, Leased, Engaged,
       FreshInv, Dependable, Revision
  <2>6. MovedInv'
    BY <1>16 DEF Release, TypeOK, PC, Requesting, Locked, Leased, Engaged,
       MovedInv
  <2> QED
    BY <2>1, <2>2, <2>3, <2>4, <2>5, <2>6 DEF ExactInv
<1>17. ASSUME NEW p \in Proc, Close(p) PROVE ExactInv'
  <2>1. MovedInv'
    BY <1>17, <1>a DEF Close, Forgotten, Unresolved, MovedInv
  <2>2. LockedInv'
    BY <1>17, <1>a DEF Close, Forgotten, Unresolved, TypeOK, PC, Requesting,
       Locked, Leased, Engaged, LockedInv
  <2>3. FenceInv'
    BY <1>17, <1>a DEF Close, Forgotten, Unresolved, TypeOK, PC, Requesting,
       Locked, Leased, Engaged, FenceInv
  <2>4. ResultInv'
    BY <1>17, <1>a DEF Close, Forgotten, Unresolved, TypeOK, PC, Requesting,
       Locked, Leased, Engaged, ResultInv, Open, Terminal
  <2>5. UnpublishedInv'
    BY <1>17, <1>a DEF Close, Forgotten, Unresolved, TypeOK, PC, Requesting,
       Locked, Leased, Engaged, UnpublishedInv, Dependable
  <2>6. FreshInv'
    BY <1>17, <1>a DEF Close, Forgotten, Unresolved, TypeOK, PC, Requesting,
       Locked, Leased, Engaged, FreshInv, Dependable, Revision
  <2> QED
    BY <2>1, <2>2, <2>3, <2>4, <2>5, <2>6 DEF ExactInv
<1>18. ASSUME NEW p \in Proc, Crash(p) PROVE ExactInv'
  <2>1. LockedInv'
    BY <1>18 DEF Crash, Forgotten, TypeOK, PC, Requesting, Locked, Leased,
       Engaged, LockedInv
  <2>2. FenceInv'
    BY <1>18 DEF Crash, Forgotten, TypeOK, PC, Requesting, Locked, Leased,
       Engaged, FenceInv
  <2>3. ResultInv'
    BY <1>18 DEF Crash, Forgotten, ResultInv, Open, Terminal, Unresolved
  <2>4. UnpublishedInv'
    BY <1>18 DEF Crash, Forgotten, TypeOK, PC, Requesting, Locked, Leased,
       Engaged, UnpublishedInv, Dependable
  <2>5. FreshInv'
    BY <1>18 DEF Crash, Forgotten, TypeOK, PC, Requesting, Locked, Leased,
       Engaged, FreshInv, Dependable, Revision
  <2>6. MovedInv'
    BY <1>18 DEF Crash, Forgotten, TypeOK, PC, Requesting, Locked, Leased,
       Engaged, MovedInv
  <2> QED
    BY <2>1, <2>2, <2>3, <2>4, <2>5, <2>6 DEF ExactInv
<1>19. ASSUME NEW p \in Proc, Expire(p) PROVE ExactInv'
  <2>1. LockedInv'
    BY <1>19 DEF Expire, TypeOK, PC, Requesting, Locked, Leased, Engaged,
       LockedInv
  <2>2. FenceInv'
    BY <1>19 DEF Expire, TypeOK, PC, Requesting, Locked, Leased, Engaged,
       FenceInv
  <2>3. ResultInv'
    BY <1>19 DEF Expire, ResultInv, Open, Terminal, Unresolved
  <2>4. UnpublishedInv'
    BY <1>19 DEF Expire, TypeOK, PC, Requesting, Locked, Leased, Engaged,
       UnpublishedInv, Dependable
  <2>5. FreshInv'
    BY <1>19 DEF Expire, TypeOK, PC, Requesting, Locked, Leased, Engaged,
       FreshInv, Dependable, Revision
  <2>6. MovedInv'
    BY <1>19 DEF Expire, TypeOK, PC, Requesting, Locked, Leased, Engaged,
       MovedInv
  <2> QED
    BY <2>1, <2>2, <2>3, <2>4, <2>5, <2>6 DEF ExactInv
<1>20. ASSUME NEW k \in Key, Prune(k) PROVE ExactInv'
  <2>1. LockedInv' /\ UnpublishedInv' /\ FreshInv' /\ MovedInv'
    BY <1>20 DEF Prune, NoRow, LockedInv, Locked, UnpublishedInv, Dependable,
       FreshInv, Revision, MovedInv
  <2>2. FenceInv'
    BY <1>20 DEF Prune, NoRow, FenceInv, Leased, ResultInv, Open, Terminal,
       Unresolved, OwnerInv
  <2>3. ResultInv'
    BY <1>20 DEF Prune, NoRow, ResultInv, Open, Terminal, Unresolved
  <2> QED
    BY <2>1, <2>2, <2>3 DEF ExactInv
<1>21. ASSUME NEW c \in Foreign \cap File, NEW o \in Object \cup {None}, Rename(c, o) PROVE ExactInv'
  <2>1. LockedInv'
    BY <1>21 DEF Rename, TypeOK, PC, Requesting, Locked, Leased, Engaged,
       LockedInv
  <2>2. FenceInv'
    BY <1>21 DEF Rename, TypeOK, PC, Requesting, Locked, Leased, Engaged,
       FenceInv
  <2>3. ResultInv'
    BY <1>21 DEF Rename, ResultInv, Open, Terminal, Unresolved
  <2>4. UnpublishedInv'
    BY <1>21 DEF Rename, TypeOK, PC, Requesting, Locked, Leased, Engaged,
       UnpublishedInv, Dependable
  <2>5. FreshInv'
    <3>1. ASSUME NEW p \in Proc, pc[p] \in Dependable, NEW s \in Bound[req[p].key],
                 Canon[s] \notin moved'
          PROVE  Revision(s)' = Revision(s)
      <4>1. Canon[s] \in File
        BY <3>1 DEF File, HeldInv, Requests, Dependable
      <4>2. Canon[s] # c /\ (at[Canon[s]] = None \/ at[Canon[s]] \notin {o, at[c]})
        BY <1>21, <3>1, <4>1 DEF Rename
      <4>3. at'[Canon[s]] = at[Canon[s]]
        BY <1>21, <4>1, <4>2 DEF Rename, TypeOK
      <4>4. CASE at[Canon[s]] = None
        BY <4>3, <4>4 DEF Revision
      <4>5. CASE at[Canon[s]] # None
        <5>1. at[Canon[s]] \in Object
          BY <4>1, <4>5 DEF TypeOK
        <5>2. gen'[at[Canon[s]]] = gen[at[Canon[s]]]
          BY <1>21, <4>2, <4>5, <5>1 DEF Rename
        <5> QED
          BY <4>3, <5>2 DEF Revision
      <4> QED
        BY <4>4, <4>5
    <3> QED
      BY <1>21, <3>1 DEF Rename, FreshInv
  <2>6. MovedInv'
    BY <1>21 DEF Rename, TypeOK, PC, Requesting, Locked, Leased, Engaged,
       MovedInv
  <2> QED
    BY <2>1, <2>2, <2>3, <2>4, <2>5, <2>6 DEF ExactInv
<1>22. ASSUME NEW id \in LockLoss \cap Id, LoseLockFile(id) PROVE ExactInv'
  <2>1. LockedInv' /\ FenceInv' /\ ResultInv' /\ UnpublishedInv' /\ FreshInv' /\ MovedInv'
    BY <1>22 DEF LoseLockFile, LockedInv, Locked, FenceInv, Leased, ResultInv,
       Open, Terminal, Unresolved, UnpublishedInv, Dependable, FreshInv,
       Revision, MovedInv
  <2> QED
    BY <2>1 DEF ExactInv
<1>23. CASE UNCHANGED vars
  BY <1>23 DEF vars, ExactInv, LockedInv, Locked, FenceInv, Leased, ResultInv,
     Open, Terminal, Unresolved, UnpublishedInv, Dependable, FreshInv,
     Revision, MovedInv
<1> QED
  BY <1>1, <1>2, <1>3, <1>4, <1>5, <1>6, <1>7, <1>8, <1>9, <1>10, <1>11, <1>12,
     <1>13, <1>14, <1>15, <1>16, <1>17, <1>18, <1>19, <1>20, <1>21, <1>22,
     <1>23 DEF Next, Step

-------------------------------------------------------------------------------
(* Without outside programs: how interrupted operations wait on each other.*)

(* An owner that has not published reserves only inodes its paths name.    *)
OwnInv ==
  moved = {} => \A p \in Proc : pc[p] \in Dependable =>
    \A o \in Object : scopes[o] = req[p].key => \E s \in Bound[req[p].key] : at[Canon[s]] = o

(* An inode that an operation should reserve and does not has one name:    *)
(* its file was replaced since.                                            *)
SingleInv ==
  moved = {} => \A k \in Key : Unresolved(k) =>
    \A s \in Bound[k], c \in File :
      at[Canon[s]] # None /\ scopes[at[Canon[s]]] # k /\ at[c] = at[Canon[s]] => c = Canon[s]

(* Operation j reserves the inode that a path of k names now.              *)
Blocks(j, k) == \E s \in Bound[k] : at[Canon[s]] # None /\ scopes[at[Canon[s]]] = j

(* Among any operations without a result, one waits on no other: they      *)
(* never wait in a circle.                                                 *)
OrderInv ==
  moved = {} => \A S \in SUBSET {k \in Key : Unresolved(k)} :
    S # {} => \E k \in S : \A j \in S \ {k} : ~ Blocks(j, k)

WaitInv == OwnInv /\ SingleInv /\ OrderInv

(* Operations without a result have no name in common.                     *)
LEMMA Names ==
  ASSUME RecordedInv, Reservations, RowInv, NEW k \in Key, Unresolved(k), NEW s \in Bound[k]
  PROVE  scopes[Canon[s]] = k
<1>1. Canon[s] \in row[k].req.ids
  BY DEF RecordedInv, RowInv, Exact, Scopes, Named, Unresolved, Open
<1> QED
  BY <1>1 DEF Reservations

(* An acquisition makes nobody wait: the inodes it reserves are not those  *)
(* of another operation's paths.                                           *)
LEMMA NewcomerBlocksNobody ==
  ASSUME BaseInv, RequestInv, Reservations, LockedInv, SingleInv, moved = {},
         NEW p \in Proc, pc[p] \in Locked, Admitted(p),
         NEW i \in Key, Unresolved(i), i # req[p].key,
         NEW s \in Bound[i], at[Canon[s]] # None, at[Canon[s]] \in held[p],
         scopes[at[Canon[s]]] # i
  PROVE  scopes[at[Canon[s]]] = req[p].key
<1> DEFINE k == req[p].key
           x == at[Canon[s]]
<1> USE MutationCoordinatorAssumption
<1>1. k \in Key /\ req[p] \in Requests /\ Exact(req[p])
  BY DEF BaseInv, HeldInv, Requests, RequestInv, AskedInv, Locked
<1>2. x \in Object /\ Canon[s] \in File /\ Canon[s] \in Path
  BY DEF BaseInv, TypeOK, File
<1>3. Scopes(k, expect[p]) = Ids(Bound[k])
  BY <1>1, BoundScopes DEF BaseInv, Admitted, Fresh
<1>4. x \notin Ids(Bound[k])
  <2> SUFFICES ASSUME x \in Ids(Bound[k]) PROVE FALSE
    OBVIOUS
  <2>1. PICK t \in Bound[k] : at[Canon[t]] = x
    BY <1>1, <1>2 DEF Ids
  <2>2. Canon[t] \in File
    BY <1>1 DEF File
  <2>3. Canon[t] = Canon[s]
    BY <1>2, <2>1, <2>2 DEF SingleInv
  <2>4. Canon[t] \in held[p]
    BY <1>1, <1>3, <2>1 DEF RequestInv, CoverInv, Ids
  <2>5. scopes[Canon[t]] \in {None, k}
    BY <2>4 DEF Admitted, Reservable
  <2>6. scopes[Canon[s]] = i
    BY Names DEF BaseInv, RequestInv
  <2> QED
    BY <2>3, <2>5, <2>6
<1>5. x \in req[p].ids
  BY <1>3, <1>4 DEF LockedInv
<1>6. CASE pc[p] = "locked"
  BY <1>1, <1>3, <1>4, <1>5, <1>6 DEF RequestInv, ExpectInv, Exact
<1>7. CASE pc[p] # "locked"
  BY <1>1, <1>5, <1>7 DEF Admitted, Reservations, Unresolved
<1> QED
  BY <1>6, <1>7

(* Every step keeps the waiting in order.                                  *)
LEMMA WaitStep ==
  ASSUME LockLoss = {}, BaseInv, LeaseInv, RequestInv, ExactInv, WaitInv, [Next]_vars
  PROVE  WaitInv'
<1> SUFFICES ASSUME OwnInv, SingleInv, OrderInv, TypeOK, RowInv, HeldInv,
                   OwnerInv, RecordedInv, AskedInv, ExpectInv, CoverInv,
                   LockInv, Reservations, LockedInv, FreshInv, MovedInv,
                  [Next]_vars
             PROVE WaitInv'
  BY DEF BaseInv, LeaseInv, RequestInv, ExactInv, WaitInv
<1> USE MutationCoordinatorAssumption DEF files, journal
<1>a. ASSUME NEW p \in Proc, NEW q \in Proc, p # q,
             pc[p] \in Locked \cup Leased, pc[q] \in Locked \cup Leased
      PROVE  /\ req[p].key # req[q].key
             /\ Scopes(req[p].key, expect[p]) \cap Scopes(req[q].key, expect[q]) = {}
  BY <1>a, Apart DEF BaseInv
<1>b. ASSUME NEW i \in Key, NEW k \in Key, i # k, Unresolved(i), Unresolved(k),
             NEW s \in Bound[i], NEW t \in Bound[k]
      PROVE  Canon[s] # Canon[t]
  BY <1>b, Names
<1>c. ASSUME NEW p \in Proc, pc[p] # "idle" PROVE req[p].key \in Key
  BY <1>c DEF HeldInv, Requests
<1>1. ASSUME NEW p \in Proc, NEW k \in Key, Bind(p, k) PROVE WaitInv'
  <2>1. SingleInv' /\ OrderInv'
    BY <1>1 DEF Bind, SingleInv, Unresolved, Open, OrderInv, Blocks
  <2>2. OwnInv'
    BY <1>1 DEF Bind, TypeOK, PC, Requesting, Locked, Leased, Engaged, OwnInv,
       Dependable
  <2> QED
    BY <2>1, <2>2 DEF WaitInv
<1>2. ASSUME NEW p \in Proc, NEW k \in Key, Rebind(p, k) PROVE WaitInv'
  <2>1. SingleInv' /\ OrderInv'
    BY <1>2 DEF Rebind, Unresolved, Open, SingleInv, OrderInv, Blocks
  <2>2. OwnInv'
    BY <1>2 DEF Rebind, Unresolved, Open, TypeOK, PC, Requesting, Locked,
       Leased, Engaged, OwnInv, Dependable
  <2> QED
    BY <2>1, <2>2 DEF WaitInv
<1>3. ASSUME NEW p \in Proc, Drop(p) PROVE WaitInv'
  <2>1. SingleInv' /\ OrderInv'
    BY <1>3 DEF Drop, SingleInv, Unresolved, Open, OrderInv, Blocks
  <2>2. OwnInv'
    BY <1>3 DEF Drop, TypeOK, PC, Requesting, Locked, Leased, Engaged, OwnInv,
       Dependable
  <2> QED
    BY <2>1, <2>2 DEF WaitInv
<1>4. ASSUME NEW p \in Proc, CheckRecord(p) PROVE WaitInv'
  <2>1. SingleInv' /\ OrderInv'
    BY <1>4 DEF CheckRecord, SingleInv, Unresolved, Open, OrderInv, Blocks
  <2>2. OwnInv'
    BY <1>4 DEF CheckRecord, TypeOK, PC, Requesting, Locked, Leased, Engaged,
       OwnInv, Dependable
  <2> QED
    BY <2>1, <2>2 DEF WaitInv
<1>5. ASSUME NEW p \in Proc, Lock(p) PROVE WaitInv'
  <2>1. SingleInv' /\ OrderInv'
    BY <1>5 DEF Lock, LockAll, SingleInv, Unresolved, Open, OrderInv, Blocks
  <2>2. OwnInv'
    BY <1>5 DEF Lock, LockAll, TypeOK, PC, Requesting, Locked, Leased, Engaged,
       OwnInv, Dependable
  <2> QED
    BY <2>1, <2>2 DEF WaitInv
<1>6. ASSUME NEW p \in Proc, Relock(p) PROVE WaitInv'
  <2>1. SingleInv' /\ OrderInv'
    BY <1>6 DEF Relock, LockAll, SingleInv, Unresolved, Open, OrderInv, Blocks
  <2>2. OwnInv'
    BY <1>6 DEF Relock, LockAll, TypeOK, PC, Requesting, Locked, Leased,
       Engaged, OwnInv, Dependable
  <2> QED
    BY <2>1, <2>2 DEF WaitInv
<1>7. ASSUME NEW p \in Proc, Acquire(p) PROVE WaitInv'
  <2>1. OwnInv'
    <3> DEFINE k == req[p].key
    <3>1. /\ pc[p] = "locked" /\ k \in Key /\ Admitted(p) /\ UNCHANGED <<at, moved, req>>
          /\ scopes' = [id \in Id |-> IF id \in held[p] /\ scopes[id] = None
                                      THEN k ELSE scopes[id]]
      BY <1>7, <1>c DEF Acquire, Own
    <3>2. held[p] \subseteq Ids(Bound[k])
      <4>1. Exact(req[p]) /\ expect[p] = req[p].seen
        BY <3>1 DEF AskedInv, ExpectInv
      <4>2. expect[p] = Seen(Bound[k])
        BY <3>1 DEF Admitted, Fresh
      <4> QED
        BY <3>1, <4>1, <4>2, BoundScopes DEF Exact, LockedInv, Locked
    <3>3. \A id \in Id : scopes[id] # k
      BY <3>1 DEF Admitted, Reservations, Unresolved, Open
    <3>4. ASSUME NEW o \in Object, scopes'[o] = k PROVE \E s \in Bound[k] : at[Canon[s]] = o
      <4>1. o \in Ids(Bound[k]) /\ o \notin Path
        BY <3>1, <3>2, <3>3, <3>4 DEF Id
      <4> QED
        BY <3>1, <4>1 DEF Ids
    <3>5. ASSUME NEW q \in Proc \ {p}, pc'[q] \in Dependable
          PROVE  pc[q] \in Dependable /\ req[q].key \in Key \ {k}
      <4>1. pc[q] \in Dependable
        BY <1>7, <3>5 DEF Acquire, Own, TypeOK
      <4> QED
        BY <1>a, <1>c, <3>1, <4>1 DEF Locked, Leased, Dependable
    <3>6. ASSUME NEW q \in Proc \ {p}, pc'[q] \in Dependable, NEW o \in Object,
                 scopes'[o] = req[q].key
          PROVE  scopes[o] = req[q].key
      BY <3>1, <3>5, <3>6 DEF Id
    <3> QED
      BY <3>1, <3>4, <3>5, <3>6 DEF OwnInv
  <2>2. SingleInv'
    <3>1. /\ pc[p] \in Locked /\ req[p].key \in Key /\ row[req[p].key] \in Rows
          /\ Admitted(p) /\ UNCHANGED <<at, moved>>
          /\ scopes' = [id \in Id |-> IF id \in held[p] /\ scopes[id] = None
                                      THEN req[p].key ELSE scopes[id]]
      BY <1>7, <1>c DEF Acquire, Own, TypeOK, Locked
    <3>2. \A j \in Key \ {req[p].key} : Unresolved(j)' => Unresolved(j)
      BY <1>7 DEF Acquire, Own, Unresolved, TypeOK
    <3>3. ASSUME NEW s \in Bound[req[p].key], at[Canon[s]] # None
          PROVE  scopes'[at[Canon[s]]] = req[p].key
      <4>1. at[Canon[s]] \in Ids(Bound[req[p].key])
        BY <3>3 DEF Ids
      <4>2. at[Canon[s]] \in held[p] /\ held[p] \subseteq Id
        BY <3>1, <4>1, BoundScopes DEF BaseInv, CoverInv, Admitted, Fresh,
           TypeOK
      <4> QED
        BY <3>1, <4>2 DEF Admitted, Reservable
    <3>4. ASSUME NEW j \in Key, NEW s \in Bound[j], at[Canon[s]] # None, scopes'[at[Canon[s]]] # j
          PROVE  scopes[at[Canon[s]]] # j
      <4>1. at[Canon[s]] \in Object
        BY <3>4 DEF TypeOK, File
      <4> QED
        BY <3>1, <3>4, <4>1 DEF Id
    <3> QED
      BY <3>1, <3>2, <3>3, <3>4 DEF SingleInv
  <2>3. OrderInv'
    <3> DEFINE k == req[p].key
    <3>1. /\ pc[p] \in Locked /\ k \in Key /\ row[k] \in Rows
          /\ Admitted(p) /\ UNCHANGED <<at, moved>>
          /\ scopes' = [id \in Id |-> IF id \in held[p] /\ scopes[id] = None
                                      THEN k ELSE scopes[id]]
      BY <1>7, <1>c DEF Acquire, Own, TypeOK, Locked
    <3>2. \A j \in Key \ {k} : Unresolved(j)' => Unresolved(j)
      BY <1>7 DEF Acquire, Own, Unresolved, TypeOK
    <3>3. ASSUME moved = {}, NEW i \in Key, i = k \/ Unresolved(i), NEW j \in Key \ {i}, Blocks(j, i)'
          PROVE  Blocks(j, i)
      <4>1. PICK s \in Bound[i] : at[Canon[s]] # None /\ scopes'[at[Canon[s]]] = j
        BY <3>1, <3>3 DEF Blocks
      <4>2. at[Canon[s]] \in Id
        BY <4>1 DEF TypeOK, File, Id
      <4>3. CASE scopes[at[Canon[s]]] = j
        BY <4>1, <4>3 DEF Blocks
      <4>4. CASE scopes[at[Canon[s]]] # j
        <5>1. j = k /\ at[Canon[s]] \in held[p] /\ scopes[at[Canon[s]]] = None
          BY <3>1, <4>1, <4>2, <4>4
        <5>2. scopes[at[Canon[s]]] = k
          BY <3>1, <3>3, <4>1, <5>1, NewcomerBlocksNobody DEF BaseInv,
             RequestInv
        <5> QED
          BY <4>4, <5>1, <5>2
      <4> QED
        BY <4>3, <4>4
    <3>4. SUFFICES ASSUME moved = {}, NEW S \in SUBSET {j \in Key : Unresolved(j)'}, S # {}
                   PROVE  \E i \in S : \A j \in S \ {i} : ~ Blocks(j, i)'
      BY <3>1 DEF OrderInv
    <3>5. CASE S = {k}
      BY <3>5
    <3>6. CASE S # {k}
      <4>1. S \ {k} # {} /\ S \ {k} \in SUBSET {j \in Key : Unresolved(j)}
        BY <3>2, <3>4, <3>6
      <4>2. PICK i \in S \ {k} : \A j \in (S \ {k}) \ {i} : ~ Blocks(j, i)
        BY <3>4, <4>1 DEF OrderInv
      <4>3. ~ Unresolved(k)
        BY <1>7 DEF Acquire, Admitted, Unresolved, Open
      <4>4. ~ Blocks(k, i)
        <5> SUFFICES ASSUME NEW s \in Bound[i], at[Canon[s]] # None, scopes[at[Canon[s]]] = k
                     PROVE  FALSE
          BY DEF Blocks
        <5>1. at[Canon[s]] \in Id
          BY <3>4, <4>2 DEF TypeOK, File, Id
        <5> QED
          BY <3>1, <4>3, <5>1 DEF Reservations
      <4> QED
        BY <3>1, <3>3, <3>4, <4>1, <4>2, <4>4
    <3> QED
      BY <3>5, <3>6
  <2> QED
    BY <2>1, <2>2, <2>3 DEF WaitInv
<1>8. ASSUME NEW p \in Proc, Recover(p) PROVE WaitInv'
  <2>1. OwnInv'
    <3>1. /\ pc[p] = "relocked" /\ req[p].key \in Key /\ UNCHANGED <<at, moved, req>>
          /\ scopes' = [id \in Id |-> IF id \in held[p] /\ scopes[id] = None
                                      THEN req[p].key ELSE scopes[id]]
      BY <1>8, <1>c DEF Recover, Own
    <3>2. ASSUME NEW q \in Proc, pc'[q] \in Dependable
          PROVE  pc[q] \in Dependable /\ req[q].key \in Key \ {req[p].key}
      <4>1. pc[q] \in Dependable
        BY <1>8, <3>2 DEF Recover, Own, TypeOK, Dependable
      <4> QED
        BY <1>a, <1>c, <3>1, <4>1 DEF Locked, Leased, Dependable
    <3>3. ASSUME NEW q \in Proc, pc'[q] \in Dependable, NEW o \in Object,
                 scopes'[o] = req[q].key
          PROVE  scopes[o] = req[q].key
      BY <3>1, <3>2, <3>3 DEF Id
    <3> QED
      BY <3>1, <3>2, <3>3 DEF OwnInv
  <2>2. SingleInv'
    <3>1. /\ pc[p] \in Locked /\ req[p].key \in Key /\ row[req[p].key] \in Rows
          /\ Admitted(p) /\ UNCHANGED <<at, moved>>
          /\ scopes' = [id \in Id |-> IF id \in held[p] /\ scopes[id] = None
                                      THEN req[p].key ELSE scopes[id]]
      BY <1>8, <1>c DEF Recover, Own, TypeOK, Locked
    <3>2. \A j \in Key \ {req[p].key} : Unresolved(j)' => Unresolved(j)
      BY <1>8 DEF Recover, Own, Unresolved, TypeOK
    <3>3. ASSUME NEW s \in Bound[req[p].key], at[Canon[s]] # None
          PROVE  scopes'[at[Canon[s]]] = req[p].key
      <4>1. at[Canon[s]] \in Ids(Bound[req[p].key])
        BY <3>3 DEF Ids
      <4>2. at[Canon[s]] \in held[p] /\ held[p] \subseteq Id
        BY <3>1, <4>1, BoundScopes DEF BaseInv, CoverInv, Admitted, Fresh,
           TypeOK
      <4> QED
        BY <3>1, <4>2 DEF Admitted, Reservable
    <3>4. ASSUME NEW j \in Key, NEW s \in Bound[j], at[Canon[s]] # None, scopes'[at[Canon[s]]] # j
          PROVE  scopes[at[Canon[s]]] # j
      <4>1. at[Canon[s]] \in Object
        BY <3>4 DEF TypeOK, File
      <4> QED
        BY <3>1, <3>4, <4>1 DEF Id
    <3> QED
      BY <3>1, <3>2, <3>3, <3>4 DEF SingleInv
  <2>3. OrderInv'
    <3> DEFINE k == req[p].key
    <3>1. /\ pc[p] \in Locked /\ k \in Key /\ row[k] \in Rows
          /\ Admitted(p) /\ UNCHANGED <<at, moved>>
          /\ scopes' = [id \in Id |-> IF id \in held[p] /\ scopes[id] = None
                                      THEN k ELSE scopes[id]]
      BY <1>8, <1>c DEF Recover, Own, TypeOK, Locked
    <3>2. \A j \in Key \ {k} : Unresolved(j)' => Unresolved(j)
      BY <1>8 DEF Recover, Own, Unresolved, TypeOK
    <3>3. ASSUME moved = {}, NEW i \in Key, i = k \/ Unresolved(i), NEW j \in Key \ {i}, Blocks(j, i)'
          PROVE  Blocks(j, i)
      <4>1. PICK s \in Bound[i] : at[Canon[s]] # None /\ scopes'[at[Canon[s]]] = j
        BY <3>1, <3>3 DEF Blocks
      <4>2. at[Canon[s]] \in Id
        BY <4>1 DEF TypeOK, File, Id
      <4>3. CASE scopes[at[Canon[s]]] = j
        BY <4>1, <4>3 DEF Blocks
      <4>4. CASE scopes[at[Canon[s]]] # j
        <5>1. j = k /\ at[Canon[s]] \in held[p] /\ scopes[at[Canon[s]]] = None
          BY <3>1, <4>1, <4>2, <4>4
        <5>2. scopes[at[Canon[s]]] = k
          BY <3>1, <3>3, <4>1, <5>1, NewcomerBlocksNobody DEF BaseInv,
             RequestInv
        <5> QED
          BY <4>4, <5>1, <5>2
      <4> QED
        BY <4>3, <4>4
    <3>4. SUFFICES ASSUME moved = {}, NEW S \in SUBSET {j \in Key : Unresolved(j)'}, S # {}
                   PROVE  \E i \in S : \A j \in S \ {i} : ~ Blocks(j, i)'
      BY <3>1 DEF OrderInv
    <3>5. S \in SUBSET {j \in Key : Unresolved(j)}
      <4>1. Unresolved(k)
        BY <1>8 DEF Recover, Admitted, Unresolved
      <4> QED
        BY <3>2, <3>4, <4>1
    <3>6. PICK i \in S : \A j \in S \ {i} : ~ Blocks(j, i)
      BY <3>4, <3>5 DEF OrderInv
    <3> QED
      BY <3>3, <3>4, <3>5, <3>6
  <2> QED
    BY <2>1, <2>2, <2>3 DEF WaitInv
<1>9. ASSUME NEW p \in Proc, Refuse(p) PROVE WaitInv'
  <2>1. SingleInv' /\ OrderInv'
    BY <1>9 DEF Refuse, Forgotten, SingleInv, Unresolved, Open, OrderInv,
       Blocks
  <2>2. OwnInv'
    BY <1>9 DEF Refuse, Forgotten, TypeOK, PC, Requesting, Locked, Leased,
       Engaged, OwnInv, Dependable
  <2> QED
    BY <2>1, <2>2 DEF WaitInv
<1>10. ASSUME NEW p \in Proc, CommitCheck(p) PROVE WaitInv'
  <2>1. SingleInv' /\ OrderInv'
    BY <1>10 DEF CommitCheck, At, SingleInv, Unresolved, Open, OrderInv, Blocks
  <2>2. OwnInv'
    BY <1>10 DEF CommitCheck, At, TypeOK, PC, Requesting, Locked, Leased,
       Engaged, OwnInv, Dependable
  <2> QED
    BY <2>1, <2>2 DEF WaitInv
<1>11. ASSUME NEW p \in Proc, CommitWrite(p) PROVE WaitInv'
  <2>1. OwnInv'
    BY <1>11, <1>a, <1>c DEF CommitWrite, At, Update, TypeOK, PC, Requesting,
       Locked, Leased, Engaged, OwnInv, Dependable
  <2>2. UNCHANGED <<at, moved, scopes>>
    BY <1>11 DEF CommitWrite, files
  <2>3. \A k \in Key : Unresolved(k)' <=> Unresolved(k)
    <3>1. Unresolved(req[p].key)
      BY <1>11, <1>a DEF CommitWrite, At, Leased, OwnerInv
    <3>2. row' = [row EXCEPT ![req[p].key].state = IF @ = "absent" THEN @ ELSE "COMMITTING"]
      BY <1>11 DEF CommitWrite, Update
    <3>3. row \in [Key -> Rows]
      BY DEF TypeOK
    <3> QED
      BY <3>1, <3>2, <3>3 DEF Rows, Unresolved, Open
  <2>4. SingleInv'
    BY <2>2, <2>3 DEF SingleInv
  <2>5. OrderInv'
    <3> DEFINE U == {k \in Key : Unresolved(k)}
    <3>1. U' = U
      BY <2>3
    <3>2. \A j, k \in Key : Blocks(j, k)' <=> Blocks(j, k)
      BY <2>2 DEF Blocks
    <3> QED
      BY <2>2, <3>1, <3>2 DEF OrderInv
  <2> QED
    BY <2>1, <2>4, <2>5 DEF WaitInv
<1>12. ASSUME NEW p \in Proc, Validate(p) PROVE WaitInv'
  <2>1. SingleInv' /\ OrderInv'
    BY <1>12 DEF Validate, At, SingleInv, Unresolved, Open, OrderInv, Blocks
  <2>2. OwnInv'
    BY <1>12 DEF Validate, At, TypeOK, PC, Requesting, Locked, Leased, Engaged,
       OwnInv, Dependable
  <2> QED
    BY <2>1, <2>2 DEF WaitInv
<1>13. ASSUME NEW p \in Proc, Publish(p) PROVE WaitInv'
  <2>1. OwnInv'
    <3> DEFINE k == req[p].key
               c == Canon[Dest[k]]
    <3>1. /\ pc[p] = "ready" /\ k \in Key /\ c \in File /\ Dest[k] \in Bound[k]
          /\ UNCHANGED <<moved, req, scopes, row>>
      BY <1>13, <1>c DEF Publish, At, File
    <3>2. PICK o \in Object : NewFile(o) /\ at' = [at EXCEPT ![c] = o]
      BY <1>13 DEF Publish
    <3>3. Unresolved(k)
      BY <3>1 DEF OwnerInv, Leased
    <3>4. ASSUME NEW i \in Key \ {k}, Unresolved(i), NEW s \in Bound[i]
          PROVE  at'[Canon[s]] = at[Canon[s]]
      <4>1. Canon[s] \in File /\ Canon[s] # c
        BY <1>b, <3>1, <3>3, <3>4 DEF File
      <4> QED
        BY <3>2, <4>1 DEF TypeOK
    <3>5. ASSUME NEW q \in Proc, pc'[q] \in Dependable
          PROVE  pc[q] \in Dependable /\ req[q].key \in Key \ {k} /\ Unresolved(req[q].key)
      <4>1. pc[q] \in Dependable /\ q # p
        BY <1>13, <3>5 DEF Publish, At, TypeOK, Dependable
      <4> QED
        BY <1>a, <1>c, <3>1, <4>1 DEF Leased, Dependable, OwnerInv
    <3> QED
      BY <3>1, <3>4, <3>5 DEF OwnInv
  <2>2. SingleInv'
    <3> DEFINE k == req[p].key
               c == Canon[Dest[k]]
    <3>1. /\ pc[p] = "ready" /\ k \in Key /\ c \in File /\ Dest[k] \in Bound[k]
          /\ UNCHANGED <<moved, req, scopes, row>>
      BY <1>13, <1>c DEF Publish, At, File
    <3>2. PICK o \in Object : NewFile(o) /\ at' = [at EXCEPT ![c] = o]
      BY <1>13 DEF Publish
    <3>3. Unresolved(k)
      BY <3>1 DEF OwnerInv, Leased
    <3>4. ASSUME NEW i \in Key \ {k}, Unresolved(i), NEW s \in Bound[i]
          PROVE  at'[Canon[s]] = at[Canon[s]]
      <4>1. Canon[s] \in File /\ Canon[s] # c
        BY <1>b, <3>1, <3>3, <3>4 DEF File
      <4> QED
        BY <3>2, <4>1 DEF TypeOK
    <3>5. ASSUME moved = {}, NEW j \in Key, Unresolved(j), NEW s \in Bound[j], NEW d \in File,
                 at'[Canon[s]] # None, scopes[at'[Canon[s]]] # j, at'[d] = at'[Canon[s]]
          PROVE  d = Canon[s]
      <4>1. Canon[s] \in File
        BY DEF File
      <4>2. CASE Canon[s] = c \/ d = c
        BY <3>2, <3>5, <4>1, <4>2 DEF TypeOK, NewFile
      <4>3. CASE Canon[s] # c /\ d # c
        BY <3>2, <3>5, <4>1, <4>3 DEF TypeOK, SingleInv
      <4> QED
        BY <4>2, <4>3
    <3>6. \A j \in Key : Unresolved(j)' <=> Unresolved(j)
      BY <3>1 DEF Unresolved
    <3> QED
      BY <3>1, <3>5, <3>6 DEF SingleInv
  <2>3. OrderInv'
    <3> DEFINE k == req[p].key
               c == Canon[Dest[k]]
    <3>1. /\ pc[p] = "ready" /\ k \in Key /\ c \in File /\ Dest[k] \in Bound[k]
          /\ UNCHANGED <<moved, req, scopes, row>>
      BY <1>13, <1>c DEF Publish, At, File
    <3>2. PICK o \in Object : NewFile(o) /\ at' = [at EXCEPT ![c] = o]
      BY <1>13 DEF Publish
    <3>3. Unresolved(k)
      BY <3>1 DEF OwnerInv, Leased
    <3>4. ASSUME NEW i \in Key \ {k}, Unresolved(i), NEW s \in Bound[i]
          PROVE  at'[Canon[s]] = at[Canon[s]]
      <4>1. Canon[s] \in File /\ Canon[s] # c
        BY <1>b, <3>1, <3>3, <3>4 DEF File
      <4> QED
        BY <3>2, <4>1 DEF TypeOK
    <3>5. ASSUME moved = {}, NEW i \in Key \ {k}, Unresolved(i), NEW j \in Key \ {i}, Blocks(j, i)'
          PROVE  Blocks(j, i) /\ j # k
      <4>1. PICK s \in Bound[i] : at[Canon[s]] # None /\ scopes[at[Canon[s]]] = j
        BY <3>1, <3>4, <3>5 DEF Blocks
      <4>2. Canon[s] \in File /\ at[Canon[s]] \in Object
        BY <4>1 DEF TypeOK, File
      <4>3. ASSUME j = k PROVE FALSE
        <5>1. PICK t \in Bound[k] : at[Canon[t]] = at[Canon[s]]
          BY <3>1, <3>5, <4>1, <4>2, <4>3 DEF OwnInv, Dependable
        <5>2. Canon[t] \in File
          BY <3>1 DEF File
        <5>3. Canon[t] = Canon[s]
          BY <3>5, <4>1, <5>1, <5>2 DEF SingleInv
        <5> QED
          BY <1>b, <3>1, <3>3, <3>5, <5>3
      <4> QED
        BY <4>1, <4>3 DEF Blocks
    <3>6. SUFFICES ASSUME moved = {}, NEW S \in SUBSET {j \in Key : Unresolved(j)}, S # {}
                   PROVE  \E i \in S : \A j \in S \ {i} : ~ Blocks(j, i)'
      BY <3>1 DEF OrderInv, Unresolved
    <3>7. CASE S = {k}
      BY <3>7
    <3>8. CASE S # {k}
      <4>1. S \ {k} # {} /\ S \ {k} \in SUBSET {j \in Key : Unresolved(j)}
        BY <3>6, <3>8
      <4>2. PICK i \in S \ {k} : \A j \in (S \ {k}) \ {i} : ~ Blocks(j, i)
        BY <3>6, <4>1 DEF OrderInv
      <4> QED
        BY <3>5, <3>6, <4>1, <4>2
    <3> QED
      BY <3>7, <3>8
  <2> QED
    BY <2>1, <2>2, <2>3 DEF WaitInv
<1>14. ASSUME NEW p \in Proc, FinishCheck(p) PROVE WaitInv'
  <2>1. SingleInv' /\ OrderInv'
    BY <1>14 DEF FinishCheck, At, SingleInv, Unresolved, Open, OrderInv, Blocks
  <2>2. OwnInv'
    BY <1>14 DEF FinishCheck, At, TypeOK, PC, Requesting, Locked, Leased,
       Engaged, OwnInv, Dependable
  <2> QED
    BY <2>1, <2>2 DEF WaitInv
<1>15. ASSUME NEW p \in Proc, FinishWrite(p) PROVE WaitInv'
  <2>1. OwnInv'
    <3>1. UNCHANGED <<at, moved, req>> /\ pc[p] = "finishing"
      BY <1>15 DEF FinishWrite, At
    <3>2. ASSUME NEW q \in Proc, pc'[q] \in Dependable
          PROVE  pc[q] \in Dependable /\ req[q].key \in Key
      BY <1>15, <1>c, <3>2 DEF FinishWrite, At, TypeOK, Dependable
    <3>3. ASSUME NEW o \in Object, NEW j \in Key, scopes'[o] = j PROVE scopes[o] = j
      BY <1>15, <3>3 DEF FinishWrite, Id
    <3> QED
      BY <3>1, <3>2, <3>3 DEF OwnInv
  <2>2. SingleInv'
    <3> DEFINE k == req[p].key
    <3>1. /\ UNCHANGED <<at, moved>> /\ pc[p] = "finishing" /\ k \in Key
          /\ scopes' = [id \in Id |-> IF scopes[id] = k THEN None ELSE scopes[id]]
      BY <1>15, <1>c DEF FinishWrite, At
    <3>2. ASSUME NEW j \in Key, Unresolved(j)' PROVE Unresolved(j) /\ j # k
      BY <1>15, <3>2 DEF FinishWrite, Update, TypeOK, Rows, Unresolved, Open
    <3>3. ASSUME NEW j \in Key \ {k}, NEW s \in Bound[j], at[Canon[s]] # None,
                 scopes'[at[Canon[s]]] # j
          PROVE  scopes[at[Canon[s]]] # j
      <4>1. at[Canon[s]] \in Object
        BY <3>3 DEF TypeOK, File
      <4> QED
        BY <3>1, <3>3, <4>1 DEF Id
    <3> QED
      BY <3>1, <3>2, <3>3 DEF SingleInv
  <2>3. OrderInv'
    <3> DEFINE k == req[p].key
    <3>1. /\ UNCHANGED <<at, moved>> /\ pc[p] = "finishing" /\ k \in Key
          /\ scopes' = [id \in Id |-> IF scopes[id] = k THEN None ELSE scopes[id]]
      BY <1>15, <1>c DEF FinishWrite, At
    <3>2. ASSUME NEW j \in Key, Unresolved(j)' PROVE Unresolved(j) /\ j # k
      BY <1>15, <3>2 DEF FinishWrite, Update, TypeOK, Rows, Unresolved, Open
    <3>3. ASSUME NEW j \in Key, NEW i \in Key, Blocks(j, i)' PROVE Blocks(j, i)
      <4>1. \A s \in Bound[i] : at[Canon[s]] # None => at[Canon[s]] \in Id
        BY DEF TypeOK, File, Id
      <4> QED
        BY <3>1, <3>3, <4>1 DEF Blocks
    <3> QED
      BY <3>1, <3>2, <3>3 DEF OrderInv
  <2> QED
    BY <2>1, <2>2, <2>3 DEF WaitInv
<1>16. ASSUME NEW p \in Proc, Release(p) PROVE WaitInv'
  <2>1. SingleInv' /\ OrderInv'
    BY <1>16 DEF Release, SingleInv, Unresolved, Open, OrderInv, Blocks
  <2>2. OwnInv'
    BY <1>16 DEF Release, TypeOK, PC, Requesting, Locked, Leased, Engaged,
       OwnInv, Dependable
  <2> QED
    BY <2>1, <2>2 DEF WaitInv
<1>17. ASSUME NEW p \in Proc, Close(p) PROVE WaitInv'
  <2>1. OwnInv'
    BY <1>17, <1>a, <1>c DEF Close, Forgotten, Unresolved, TypeOK, PC,
       Requesting, Locked, Leased, Engaged, OwnInv, Dependable
  <2>2. SingleInv'
    BY <1>17, <1>a, <1>c DEF Close, Forgotten, Unresolved, TypeOK, PC,
       Requesting, Locked, Leased, Engaged, SingleInv, Open
  <2>3. OrderInv'
    <3>1. UNCHANGED <<at, moved, scopes>>
      BY <1>17 DEF Close
    <3>2. ASSUME NEW j \in Key, Unresolved(j)' PROVE Unresolved(j)
      BY <1>17, <3>2 DEF Close, TypeOK, Rows, Unresolved, Open
    <3>3. \A i, j \in Key : Blocks(j, i)' <=> Blocks(j, i)
      BY <3>1 DEF Blocks
    <3> QED
      BY <3>1, <3>2, <3>3 DEF OrderInv
  <2> QED
    BY <2>1, <2>2, <2>3 DEF WaitInv
<1>18. ASSUME NEW p \in Proc, Crash(p) PROVE WaitInv'
  <2>1. SingleInv' /\ OrderInv'
    BY <1>18, SMTT(60) DEF Crash, Forgotten, SingleInv, Unresolved, Open,
       OrderInv, Blocks
  <2>2. OwnInv'
    BY <1>18 DEF Crash, Forgotten, TypeOK, PC, Requesting, Locked, Leased,
       Engaged, OwnInv, Dependable
  <2> QED
    BY <2>1, <2>2 DEF WaitInv
<1>19. ASSUME NEW p \in Proc, Expire(p) PROVE WaitInv'
  <2>1. OwnInv' /\ SingleInv' /\ OrderInv'
    BY <1>19 DEF Expire, OwnInv, Dependable, SingleInv, Unresolved, Open,
       OrderInv, Blocks
  <2> QED
    BY <2>1 DEF WaitInv
<1>20. ASSUME NEW k \in Key, Prune(k) PROVE WaitInv'
  <2>1. OwnInv'
    BY <1>20 DEF Prune, NoRow, OwnInv, Dependable
  <2>2. SingleInv'
    BY <1>20 DEF Prune, NoRow, TypeOK, PC, Requesting, Locked, Leased, Engaged,
       SingleInv, Unresolved, Open
  <2>3. OrderInv'
    BY <1>20 DEF Prune, NoRow, TypeOK, PC, Requesting, Locked, Leased, Engaged,
       OrderInv, Blocks, Unresolved, Open
  <2> QED
    BY <2>1, <2>2, <2>3 DEF WaitInv
<1>21. ASSUME NEW c \in Foreign \cap File, NEW o \in Object \cup {None}, Rename(c, o) PROVE WaitInv'
  <2>1. OwnInv'
    BY <1>21 DEF Rename, TypeOK, PC, Requesting, Locked, Leased, Engaged,
       OwnInv, Dependable
  <2>2. SingleInv'
    BY <1>21 DEF Rename, TypeOK, PC, Requesting, Locked, Leased, Engaged,
       SingleInv, Unresolved, Open
  <2>3. OrderInv'
    BY <1>21 DEF Rename, TypeOK, PC, Requesting, Locked, Leased, Engaged,
       OrderInv, Blocks, Unresolved, Open
  <2> QED
    BY <2>1, <2>2, <2>3 DEF WaitInv
<1>22. ASSUME NEW id \in LockLoss \cap Id, LoseLockFile(id) PROVE WaitInv'
  <2>1. OwnInv' /\ SingleInv' /\ OrderInv'
    BY <1>22 DEF LoseLockFile, OwnInv, Dependable, SingleInv, Unresolved, Open,
       OrderInv, Blocks
  <2> QED
    BY <2>1 DEF WaitInv
<1>23. CASE UNCHANGED vars
  BY <1>23, SMTT(60) DEF vars, WaitInv, OwnInv, Dependable, SingleInv,
     Unresolved, Open, OrderInv, Blocks
<1> QED
  BY <1>1, <1>2, <1>3, <1>4, <1>5, <1>6, <1>7, <1>8, <1>9, <1>10, <1>11, <1>12,
     <1>13, <1>14, <1>15, <1>16, <1>17, <1>18, <1>19, <1>20, <1>21, <1>22,
     <1>23 DEF Next, Step

(* The whole invariant, while lock files stay where they are.              *)
LEMMA MutationInvariance ==
  ASSUME LockLoss = {}
  PROVE  Spec => [](BaseInv /\ LeaseInv /\ RequestInv /\ ExactInv /\ WaitInv)
<1>1. Init => RequestInv /\ ExactInv /\ WaitInv
  <2> SUFFICES ASSUME Init PROVE RequestInv /\ ExactInv /\ WaitInv
    OBVIOUS
  <2>1. \A k \in Key : row[k].state = "absent" /\ ~ Unresolved(k) /\ done[k] = 0
    BY DEF Init, NoRow, Unresolved, Open
  <2>2. \A p \in Proc : pc[p] = "idle"
    BY DEF Init
  <2>3. RequestInv
    BY <2>1, <2>2 DEF RequestInv, RecordedInv, AskedInv, ExpectInv, CoverInv,
       Locked, Leased
  <2>4. ExactInv
    <3>1. ResultInv
      BY <2>1, MutationCoordinatorAssumption DEF ResultInv
    <3>2. MovedInv
      BY DEF Init, MovedInv
    <3> QED
      BY <2>2, <3>1, <3>2 DEF ExactInv, LockedInv, FenceInv, UnpublishedInv,
         FreshInv, Locked, Leased, Dependable
  <2>5. WaitInv
    BY <2>1, <2>2 DEF WaitInv, OwnInv, SingleInv, OrderInv, Dependable
  <2> QED
    BY <2>3, <2>4, <2>5
<1>2. BaseInv /\ LeaseInv /\ RequestInv /\ ExactInv /\ WaitInv /\ [Next]_vars
      => (BaseInv /\ LeaseInv /\ RequestInv /\ ExactInv /\ WaitInv)'
  BY BaseStep, LeaseStep, RequestStep, ExactStep, WaitStep
<1> QED
  BY <1>1, <1>2, InitInv, PTL DEF Spec

(* While lock files stay where they are, no mutation replaces a revision   *)
(* its caller did not authorise, what is recorded of it is true and stays  *)
(* so, and interrupted operations never wait on each other in a circle,    *)
(* whoever crashes, expires or recovers in between.                        *)
THEOREM MutationsCorrect == ASSUME LockLoss = {} PROVE Spec => []MutationsHold
<1>1. ASSUME BaseInv, LeaseInv, RequestInv, ExactInv, WaitInv PROVE MutationsHold
  <2> USE <1>1 DEF BaseInv, LeaseInv, RequestInv, ExactInv, WaitInv
  <2>1. NoLostUpdate
    <3> SUFFICES ASSUME NEW p \in Proc, pc[p] = "ready",
                        \A s \in Bound[req[p].key] : Canon[s] \notin moved
                 PROVE  Fresh(p)
      BY DEF NoLostUpdate
    <3>1. /\ expect[p] \in [Bound[req[p].key] -> Revisions]
          /\ \A s \in Bound[req[p].key] : expect[p][s] = Revision(s)
      BY DEF FreshInv, Dependable
    <3> QED
      BY <3>1 DEF Fresh, Seen
  <2>2. ResultIsTrue
    BY DEF ResultInv, ResultIsTrue
  <2>3. NoRecoveryDeadlock
    <3> SUFFICES ASSUME \E k \in Key : Unresolved(k), moved = {}
                 PROVE  \E k \in Key : Recoverable(k)
      BY DEF NoRecoveryDeadlock
    <3> DEFINE S == {k \in Key : Unresolved(k)}
    <3>1. PICK k \in S : \A j \in S \ {k} : ~ Blocks(j, k)
      BY DEF OrderInv
    <3>2. Ids(Bound[k]) = Named(k) \cup ({at[Canon[s]] : s \in Bound[k]} \ {None})
      BY DEF Ids, Named
    <3>3. \A id \in row[k].req.ids : scopes[id] = k
      BY <3>1 DEF Reservations
    <3>4. Named(k) \subseteq row[k].req.ids
      BY <3>1 DEF RecordedInv, RowInv, Exact, Scopes, Unresolved, Open
    <3>5. ASSUME NEW s \in Bound[k], at[Canon[s]] # None
          PROVE  scopes[at[Canon[s]]] \in {None, k}
      <4>1. at[Canon[s]] \in Id
        BY <3>1, <3>5, MutationCoordinatorAssumption DEF TypeOK, File, Id
      <4>2. scopes[at[Canon[s]]] \in Key \cup {None}
        BY <4>1 DEF TypeOK
      <4>3. ASSUME NEW j \in Key, scopes[at[Canon[s]]] = j PROVE j = k
        <5>1. Unresolved(j)
          BY <4>1, <4>3 DEF Reservations
        <5> QED
          BY <3>1, <3>5, <4>3, <5>1 DEF Blocks
      <4> QED
        BY <4>2, <4>3
    <3> QED
      BY <3>1, <3>2, <3>3, <3>4, <3>5 DEF Recoverable, Reservable
  <2> QED
    BY <2>1, <2>2, <2>3 DEF MutationsHold, MutationsAreExact
<1> QED
  BY <1>1, MutationInvariance, PTL

(* A lease that expires, or whose owner is paused, stays the last one of   *)
(* its row as long as its holder lives.                                    *)
THEOREM PausedOwner == ASSUME LockLoss = {} PROVE Spec => PausedOwnerKeeps
<1> DEFINE Kept == BaseInv /\ LeaseInv /\ RequestInv /\ ExactInv /\ WaitInv
           Stays == \A p \in Proc :
                      pc[p] \in Leased /\ pc'[p] \in Leased => (Owner(p) => Owner(p)')
<1>1. Kept /\ Kept' => Stays
  BY DEF LeaseInv, LockInv, OwnerInv, ExactInv, FenceInv, Owner
<1>2. Kept /\ Kept' => [Stays]_vars
  BY <1>1
<1> QED
  BY <1>2, MutationInvariance, PTL DEF PausedOwnerKeeps
===============================================================================
