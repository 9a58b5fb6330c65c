------------------------ MODULE BundlePublicationProofs ------------------------
(***************************************************************************)
(* That a bundle's result is true of the whole set (RecordsWholeSets), that*)
(* no other program's file is lost (ForeignFilesSurvive) and that recovery *)
(* resolves (RecoveryResolves), for any number of invocations and targets. *)
(* A record that was read before the lock was taken agrees with the durable*)
(* one on the originals, always (AgreeInv), and in everything unless the   *)
(* operation is misjudged.  What the files of an operation are is then     *)
(* tied to its record (FilesAt) and to who works on it (OwnerAt, StepAt).  *)
(***************************************************************************)
EXTENDS BundlePublication, TLAPS

PrivFile == [source : BOOLEAN, backup : BOOLEAN, moved : Files \cup {None},
             cand : BOOLEAN, copy : BOOLEAN, stray : BOOLEAN]
EntryOf == [orig : Files \cup {None}, backup : BOOLEAN, attempted : BOOLEAN,
            cand : BOOLEAN, rest : BOOLEAN]

TypeInv ==
  /\ TypeOK
  /\ rec \in [Inv -> Record_ \cup {None}]
  /\ mem \in [Inv -> Record_ \cup {None}]

Sure(w) == ~ touched /\ w \notin misjudged

Resolving == {"validated", "unpublish", "restore", "restoring", "restored", "sweep",
              "finish", "recording", "closing"}
RollingBack == {"unpublish", "restore", "restoring", "restored", "sweep"}
Locked == Working \ {"found", "ready"}

(* The lock is that of the invocation that works under it, on an operation *)
(* that has no result; there is one such operation at most.                *)
LockInv ==
  /\ \A i \in Inv : pc[i] \in Locked <=> holder = i
  /\ \A i \in Inv : pc[i] \in Locked => row[work[i]] \in Open
  /\ \A v, w \in Inv : row[v] \in Open /\ row[w] \in Open => v = w

(* An invocation recovers before its own operation begins.                 *)
WorkInv ==
  \A i \in Inv :
    /\ work[i] # i => pc[i] \in {"found"} \cup Resolving
    /\ work[i] # i \/ pc[i] \in {"new", "found", "ready"} => row[i] = "absent"
    /\ row[i] = "absent" \/ pc[i] = "acquired" => rec[i] = None
    /\ pc[i] \in {"new", "ready"} => mem[i] = None

(* A record that has been read is of the same originals as the durable one,*)
(* and it is the durable one, but for what became of it in a recovery that *)
(* had read it too early, and for a validation that the journal refused.   *)
AgreeAt(i) ==
  LET w == work[i] IN
    /\ mem[i] # None => /\ rec[w] # None
                        /\ \A t \in Targets : mem[i].entry[t].orig = rec[w].entry[t].orig
    /\ w # i /\ pc[i] \in Locked \ {"closing"} /\ w \notin misjudged => mem[i] = rec[w]
    /\ w = i /\ pc[i] \in Locked /\ rec[i] # None =>
         /\ mem[i] # None /\ mem[i].entry = rec[i].entry
         /\ rec[i].validated => mem[i].validated
    /\ pc[i] \in Publishing \/ (pc[i] = "validated" /\ w = i) => mem[i] = rec[i]
    /\ pc[i] \in Publishing => mem[i] # None /\ ~ mem[i].validated
    /\ pc[i] \in (Resolving \ {"recording", "closing"}) => mem[i] # None
    /\ pc[i] \in RollingBack /\ w # i => ~ mem[i].validated
    /\ pc[i] = "validated" => mem[i].validated

AgreeInv == \A i \in Inv : AgreeAt(i)

(* The files of an operation have its name only from its record on.        *)
FreshAt(v) ==
  rec[v] = None =>
    \A t \in Targets :
      /\ priv[v][t] = NoPriv
      /\ ContentOf(target[t]) # v
      /\ \A w \in Inv : /\ ContentOf(priv[w][t].moved) # v
                        /\ rec[w] # None => ContentOf(rec[w].entry[t].orig) # v

FreshInv == \A v \in Inv : FreshAt(v)

OwnInv ==
  \A w \in Inv : rec[w] # None => \A t \in Targets : ContentOf(rec[w].entry[t].orig) # w

(* A link has no backup: its original is moved and moved back.             *)
LinkInv == \A w \in Inv, t \in Targets : t \in Links => ~ priv[w][t].backup

(* The files of an interrupted operation, by its record.                   *)
FilesAt(w, t) ==
  LET e == rec[w].entry[t]
      p == priv[w][t] IN
    /\ Known(w, rec[w], t)
    /\ p.moved \in {None, e.orig}
    /\ e.rest => e.orig # None
    /\ ~ rec[w].validated /\ e.orig # None /\ target[t] \in {None, New(w)} =>
         e.attempted /\ (p.backup \/ p.moved = e.orig)

FilesInv ==
  \A w \in Inv : Sure(w) /\ row[w] \in Open /\ rec[w] # None =>
    \A t \in Targets : FilesAt(w, t)

(* The private files of an invocation that works on its own operation.     *)
OwnerAt(i, t) ==
  LET e == mem[i].entry[t]
      p == priv[i][t] IN
    /\ ~ p.stray
    /\ p.copy => pc[i] = "restoring" /\ t = cur[i] /\ t \notin Links
    /\ pc[i] \in Publishing /\ ~ e.cand => p.moved = None
    /\ pc[i] \in {"candidate", "displacing"} /\ t = cur[i] => p.moved = None
    /\ t = cur[i]
       /\ pc[i] \in {"candidate", "displacing", "displaced", "installing", "installed"}
         => e.cand
    /\ pc[i] = "finish" => ~ p.source /\ ~ p.backup /\ (p.moved = e.orig => p.moved = None)
    /\ ~ touched =>
         /\ p.cand =>
              t = cur[i] /\ pc[i] \in {"candidate", "displacing", "displaced", "installing"}
         /\ pc[i] \in {"candidate", "displacing"} /\ t = cur[i] => target[t] = e.orig
         /\ pc[i] \in Publishing /\ ~ e.cand => target[t] = e.orig
         /\ pc[i] = "displacing" /\ t = cur[i] => e.orig # None /\ e.attempted
         /\ pc[i] = "displaced" /\ t = cur[i] => p.moved = e.orig /\ target[t] = None

OwnerInv ==
  \A i \in Inv : pc[i] \in Locked /\ work[i] = i => \A t \in Targets : OwnerAt(i, t)

(* What the control state of an invocation that resolves an operation says.*)
StepAt(i, t) ==
  LET w == work[i]
      e == mem[i].entry[t]
      p == priv[w][t] IN
    /\ pc[i] \in {"restore", "restoring", "restored"} => target[t] # New(w)
    /\ pc[i] \in {"restoring", "restored"} /\ t = cur[i] =>
         /\ e.orig # None /\ e.rest
         /\ ~ p.backup => p.moved \in {None, e.orig}
    /\ Sure(w) =>
         /\ pc[i] = "restoring" /\ t = cur[i] => target[t] = None
         /\ pc[i] = "restored" /\ t = cur[i] => target[t] # None
         /\ pc[i] = "validated" => target[t] = New(w)
         /\ pc[i] = "sweep" => IsOld(i, t)
         /\ pc[i] = "finish" => IF mem[i].validated THEN target[t] = New(w) \/ work[i] = i
                                ELSE IsOld(i, t)
         /\ pc[i] = "recording" =>
              /\ priv[w][t] = NoPriv
              /\ IF mem[i] # None /\ mem[i].validated THEN target[t] = New(w)
                 ELSE rec[w] # None => ContentOf(target[t]) = ContentOf(rec[w].entry[t].orig)

AtTarget == {"candidate", "displacing", "displaced", "installing", "installed",
             "restoring", "restored"}

CurInv == \A i \in Inv : pc[i] \in AtTarget => cur[i] \in Targets

StepInv == \A i \in Inv : pc[i] \in Resolving => \A t \in Targets : StepAt(i, t)


(* A recovery that was refused will be refused.                            *)
RefusedInv ==
  \A w \in Inv : w \in refused /\ Sure(w) =>
    /\ rec[w] # None /\ row[w] \in Open
    /\ \A i \in Inv : pc[i] \in Locked => work[i] = w /\ i # w
    /\ \/ \E t \in Targets : priv[w][t].stray
       \/ rec[w].validated /\ \E t \in Targets : target[t] # New(w)

BundleInv ==
  /\ TypeInv /\ LockInv /\ WorkInv /\ AgreeInv /\ FreshInv /\ OwnInv /\ LinkInv /\ FilesInv
  /\ OwnerInv /\ StepInv /\ CurInv /\ ForeignFilesSurvive /\ RefusedInv

-------------------------------------------------------------------------------
(* Files, and what they contain.                                           *)
LEMMA FileFacts ==
  ASSUME BundleAssumption
  PROVE  /\ \A v \in Inv : New(v) \in Files /\ New(v) # None /\ ContentOf(New(v)) = v
         /\ \A f \in Files, w \in Inv :
              /\ File(f.content, w) \in Files /\ File(f.content, w) # None
              /\ ContentOf(File(f.content, w)) = ContentOf(f)
         /\ \A f \in Files : f # None /\ ContentOf(f) = f.content
         /\ First \in Files /\ ContentOf(First) = Old
         /\ Foreign \in Files /\ ContentOf(Foreign) = Alien
         /\ ContentOf(None) = None /\ None \notin Inv
<1>1. \A f \in Files :
        f # None /\ ContentOf(f) = f.content /\ f.content \in Inv \cup {Old, Alien}
  BY DEF BundleAssumption, Files, First, Foreign, File, ContentOf
<1>2. \A c \in Inv \cup {Old, Alien}, w \in Inv :
        File(c, w) \in Files /\ File(c, w).content = c
  BY DEF File, Files
<1>3. First \in Files /\ First.content = Old /\ Foreign \in Files /\ Foreign.content = Alien
  BY DEF Files, First, Foreign, File
<1> QED
  BY <1>1, <1>2, <1>3 DEF BundleAssumption, New, ContentOf

(* A step on a private file, on an entry of the record, or on the record.  *)
LEMMA PrivateIs ==
  ASSUME TypeInv, NEW i \in Inv, NEW w \in Inv, w = work[i], NEW t \in Targets,
         NEW p \in PrivFile, Private(i, t, p)
  PROVE  /\ priv' \in [Inv -> [Targets -> PrivFile]] /\ priv'[w][t] = p
         /\ \A s \in Targets : s # t => priv'[w][s] = priv[w][s]
         /\ \A v \in Inv : v # w => priv'[v] = priv[v]
BY DEF TypeInv, TypeOK, PrivFile, Private

(* A record that is written, in memory and durably.                        *)
LEMMA PersistIs ==
  ASSUME BundleAssumption, TypeInv, NEW i \in Inv, NEW w \in Inv, w = work[i],
         NEW r \in Record_, Persist(i, r)
  PROVE  /\ rec' \in [Inv -> Record_ \cup {None}] /\ mem' \in [Inv -> Record_ \cup {None}]
         /\ rec'[w] = r /\ mem'[i] = r /\ r # None /\ UNCHANGED row
         /\ \A v \in Inv : v # w => rec'[v] = rec[v]
         /\ \A j \in Inv : j # i => mem'[j] = mem[j]
BY DEF TypeInv, Persist, BundleAssumption

(* An entry of it that is.                                                 *)
LEMMA EntryIs ==
  ASSUME BundleAssumption, TypeInv, NEW i \in Inv, NEW w \in Inv, w = work[i],
         NEW t \in Targets, NEW e \in EntryOf, mem[i] # None, Entry(i, t, e)
  PROVE  /\ rec' \in [Inv -> Record_ \cup {None}] /\ mem' \in [Inv -> Record_ \cup {None}]
         /\ rec'[w] = mem'[i] /\ mem'[i] # None /\ UNCHANGED row
         /\ mem'[i].entry[t] = e /\ mem'[i].validated = mem[i].validated
         /\ \A s \in Targets : s # t => mem'[i].entry[s] = mem[i].entry[s]
         /\ \A v \in Inv : v # w => rec'[v] = rec[v]
         /\ \A j \in Inv : j # i => mem'[j] = mem[j]
<1>1. PICK r : r = [mem[i] EXCEPT !.entry[t] = e]
  OBVIOUS
<1>2. mem[i] \in Record_
  BY DEF TypeInv
<1>3. /\ r \in Record_ /\ r.validated = mem[i].validated /\ r.entry[t] = e
      /\ \A s \in Targets : s # t => r.entry[s] = mem[i].entry[s]
  BY <1>1, <1>2 DEF Record_, EntryOf
<1>4. Persist(i, r)
  BY <1>1 DEF Entry
<1> QED
  BY <1>3, <1>4, PersistIs

(* The types of entries and private files.                                 *)
LEMMA Types ==
  ASSUME TypeInv
  PROVE  /\ target \in [Targets -> Files \cup {None}]
         /\ priv \in [Inv -> [Targets -> PrivFile]]
         /\ \A i \in Inv : mem[i] # None =>
              mem[i].entry \in [Targets -> EntryOf] /\ mem[i].validated \in BOOLEAN
         /\ \A w \in Inv : rec[w] # None =>
              rec[w].entry \in [Targets -> EntryOf] /\ rec[w].validated \in BOOLEAN
         /\ NoPriv \in PrivFile
BY DEF TypeInv, TypeOK, PrivFile, EntryOf, Record_, NoPriv

(* What a step by the holder of the lock may do to the files of a target:  *)
(* it brings none in, and it loses none that another program wrote.        *)
Origs(w, t) == IF rec[w] = None THEN None ELSE ContentOf(rec[w].entry[t].orig)

Moves(w, t) ==
  /\ ContentOf(target'[t]) \in
       {None, w, ContentOf(target[t]), ContentOf(priv[w][t].moved), Origs(w, t)}
  /\ ContentOf(priv'[w][t].moved) \in
       {None, ContentOf(target[t]), ContentOf(priv[w][t].moved)}
  /\ ContentOf(target[t]) = Alien \/ ContentOf(priv[w][t].moved) = Alien =>
       \/ ContentOf(target'[t]) = Alien \/ ContentOf(priv'[w][t].moved) = Alien
       \/ Origs(w, t) = Alien

RefusedAt(w) ==
  \/ \E t \in Targets : priv[w][t].stray
  \/ rec[w].validated /\ \E t \in Targets : target[t] # New(w)

Frame(i, w) ==
  /\ UNCHANGED <<touched, misjudged, holder, work>>
  /\ target' \in [Targets -> Files \cup {None}]
  /\ priv' \in [Inv -> [Targets -> PrivFile]]
  /\ rec' \in [Inv -> Record_ \cup {None}] /\ mem' \in [Inv -> Record_ \cup {None}]
  /\ row' \in [Inv -> {"absent", "COMMITTED", "ABORTED"} \cup Open]
  /\ cur' \in [Inv -> Targets \cup {None}]
  /\ \A v \in Inv : v # w => priv'[v] = priv[v] /\ rec'[v] = rec[v] /\ row'[v] = row[v]
  /\ \A j \in Inv : j # i => mem'[j] = mem[j] /\ cur'[j] = cur[j]
  /\ row'[w] \in Open
  /\ rec[w] # None => rec'[w] # None /\ \A t \in Targets :
                        rec'[w].entry[t].orig = rec[w].entry[t].orig
  /\ rec'[w] = None => UNCHANGED <<priv, target>>
  /\ \A t \in Targets : t \in Links /\ ~ priv[w][t].backup => ~ priv'[w][t].backup
  /\ refused \subseteq refused' /\ refused' \subseteq refused \cup {w}

(* A step under the lock keeps the invariant if it does for the one        *)
(* operation that it works on.                                             *)
LEMMA LockedStep ==
  ASSUME BundleAssumption, BundleInv, NEW i \in Inv, NEW w \in Inv, w = work[i],
         pc[i] \in Locked, NEW next \in Locked \ {"acquired"}, To(i, next), Frame(i, w),
         w # i => next \in Resolving,
         w = i => UNCHANGED refused,
         rec[w] = None /\ rec'[w] # None =>
           w = i /\ \A t \in Targets : rec'[w].entry[t].orig = target[t],
         AgreeAt(i)', \A t \in Targets : Moves(w, t),
         rec'[w] # None /\ Sure(w) => \A t \in Targets : FilesAt(w, t)',
         w = i => \A t \in Targets : OwnerAt(i, t)',
         next \in Resolving => \A t \in Targets : StepAt(i, t)',
         next \in AtTarget => cur'[i] \in Targets,
         w # i /\ Sure(w) /\ w \in refused' => rec'[w] # None /\ RefusedAt(w)'
  PROVE  BundleInv'
<1> USE BundleAssumption DEF BundleAssumption, BundleInv
<1>1. /\ holder = i /\ \A j \in Inv : pc[j] \in Locked => j = i
      /\ \A j \in Inv : j # i => pc'[j] = pc[j] /\ pc'[j] \notin Locked
      /\ pc'[i] = next /\ pc' \in [Inv -> {"new", "done"} \cup Working]
      /\ row[w] \in Open
  BY DEF LockInv, TypeInv, TypeOK, To, Locked
<1>2. TypeInv'
  BY <1>1 DEF TypeInv, TypeOK, Frame, PrivFile, IsRecord
<1>3. LockInv'
  BY <1>1 DEF LockInv, Frame
<1>4. WorkInv'
  <2>1. row'[w] # "absent" /\ row[w] # "absent" /\ next \notin {"new", "found", "ready"}
    BY <1>1 DEF Frame, Open, Locked, Working, Publishing
  <2>2. \A v \in Inv : row'[v] = "absent" => row[v] = "absent" /\ rec'[v] = rec[v]
    BY <2>1 DEF Frame
  <2>3. \A v \in Inv : row[v] = "absent" => row'[v] = "absent"
    BY <2>1 DEF Frame
  <2>4. \A j \in Inv : pc'[j] # "acquired"
    BY <1>1 DEF Locked, Working
  <2> QED
    BY <1>1, <2>1, <2>2, <2>3, <2>4 DEF WorkInv, Frame
<1>5. AgreeInv'
  <2>1. ASSUME NEW j \in Inv, j # i PROVE AgreeAt(j)'
    <3>1. /\ pc'[j] \notin Locked /\ mem'[j] = mem[j] /\ work'[j] = work[j] /\ work[j] \in Inv
          /\ AgreeAt(j) /\ pc'[j] \notin Publishing /\ pc'[j] \notin Resolving
      BY <1>1, <2>1 DEF Frame, AgreeInv, TypeInv, TypeOK, Locked, Working,
         Publishing, Resolving
    <3>2. \A v \in Inv : rec[v] # None => rec'[v] # None /\ \A t \in Targets :
                           rec'[v].entry[t].orig = rec[v].entry[t].orig
      BY DEF Frame
    <3> QED
      BY <3>1, <3>2 DEF AgreeAt, Resolving, RollingBack
  <2> QED
    BY <2>1 DEF AgreeInv
<1>6. FreshInv'
  <2> SUFFICES ASSUME NEW v \in Inv, rec'[v] = None, NEW t \in Targets
               PROVE  /\ priv'[v][t] = NoPriv
                      /\ ContentOf(target'[t]) # v
                      /\ \A u \in Inv : /\ ContentOf(priv'[u][t].moved) # v
                                        /\ rec'[u] # None
                                           => ContentOf(rec'[u].entry[t].orig) # v
    BY DEF FreshInv, FreshAt, ContentOf
  <2>1. rec[v] = None
    BY DEF Frame
  <2>2. /\ priv[v][t] = NoPriv /\ ContentOf(target[t]) # v
        /\ \A u \in Inv : /\ ContentOf(priv[u][t].moved) # v
                          /\ rec[u] # None => ContentOf(rec[u].entry[t].orig) # v
    BY <2>1 DEF FreshInv, FreshAt
  <2>3. Origs(w, t) # v
    BY <2>2 DEF Origs
  <2>4. priv'[v][t] = NoPriv
    BY <2>2 DEF Frame
  <2>5. CASE v # w
    <3>1. ContentOf(target'[t]) # v /\ ContentOf(priv'[w][t].moved) # v
      BY <2>2, <2>3, <2>5 DEF Moves
    <3>2. rec'[w] # None => ContentOf(rec'[w].entry[t].orig) # v
      BY <2>2 DEF Frame
    <3> QED
      BY <2>2, <2>4, <3>1, <3>2 DEF Frame
  <2>6. CASE v = w
    <3>1. rec[w] = None /\ UNCHANGED <<priv, target>>
      BY <2>1, <2>6 DEF Frame
    <3> QED
      BY <2>2, <2>4, <2>6, <3>1 DEF Frame
  <2> QED
    BY <2>5, <2>6
<1>7. OwnInv'
  <2>1. \A t \in Targets : rec[w] = None => ContentOf(target[t]) # w
    BY DEF FreshInv, FreshAt
  <2> SUFFICES ASSUME NEW v \in Inv, rec'[v] # None, NEW t \in Targets
               PROVE  ContentOf(rec'[v].entry[t].orig) # v
    BY DEF OwnInv, ContentOf
  <2>2. CASE v = w /\ rec[w] = None
    BY <2>1, <2>2
  <2>3. CASE rec[v] # None
    <3>1. rec'[v].entry[t].orig = rec[v].entry[t].orig
      BY <2>3 DEF Frame
    <3>2. ContentOf(rec[v].entry[t].orig) # v
      BY <2>3 DEF OwnInv
    <3> QED
      BY <3>1, <3>2
  <2> QED
    BY <2>2, <2>3 DEF Frame
<1>8. FilesInv'
  <2>1. \A v \in Inv : v # w => row'[v] \notin Open
    BY <1>1 DEF LockInv, Frame
  <2> QED
    BY <2>1 DEF FilesInv, Frame, Sure
<1>9. LinkInv'
  BY DEF LinkInv, Frame
<1>10. OwnerInv' /\ StepInv' /\ CurInv'
  <2>1. \A j \in Inv : j # i => pc'[j] \notin Resolving \cup AtTarget
    BY <1>1 DEF Locked, Working, Publishing, Resolving, AtTarget
  <2> QED
    BY <1>1, <2>1 DEF OwnerInv, StepInv, CurInv, Frame
<1>11. ForeignFilesSurvive'
  <2> SUFFICES ASSUME touched PROVE ForeignFilesSurvive'
    BY DEF ForeignFilesSurvive, Frame
  <2> DEFINE Kept == \/ \E t \in Targets : ContentOf(target'[t]) = Alien
                     \/ \E v \in Inv, t \in Targets : ContentOf(priv'[v][t].moved) = Alien
                     \/ \E v \in Inv, t \in Targets :
                          rec'[v] # None /\ ContentOf(rec'[v].entry[t].orig) = Alien
  <2>1. ASSUME NEW t \in Targets, Origs(w, t) = Alien PROVE Kept
    BY <2>1 DEF Origs, Frame
  <2>2. ASSUME NEW t \in Targets,
               ContentOf(target[t]) = Alien \/ ContentOf(priv[w][t].moved) = Alien
        PROVE  Kept
    BY <2>1, <2>2 DEF Moves
  <2>3. ASSUME NEW v \in Inv, NEW t \in Targets, ContentOf(priv[v][t].moved) = Alien PROVE Kept
    BY <2>2, <2>3 DEF Frame
  <2>4. ASSUME NEW v \in Inv, NEW t \in Targets, rec[v] # None,
               ContentOf(rec[v].entry[t].orig) = Alien
        PROVE  Kept
    BY <2>4, ZenonT(120) DEF Frame
  <2>5. Kept
    BY <2>2, <2>3, <2>4 DEF ForeignFilesSurvive
  <2> QED
    BY <2>5 DEF ForeignFilesSurvive, ContentOf
<1>12. RefusedInv'
  <2> SUFFICES ASSUME NEW v \in Inv, v \in refused', Sure(v)'
               PROVE  /\ rec'[v] # None /\ row'[v] \in Open
                      /\ \A j \in Inv : pc'[j] \in Locked => work'[j] = v /\ j # v
                      /\ RefusedAt(v)'
    BY DEF RefusedInv, RefusedAt
  <2>1. Sure(v) /\ (v # w \/ w = i => v \in refused)
    BY DEF Sure, Frame
  <2>2. v = w /\ w # i
    BY <1>1, <2>1 DEF RefusedInv
  <2> QED
    BY <1>1, <2>1, <2>2 DEF Frame
<1> QED
  BY <1>2, <1>3, <1>4, <1>5, <1>6, <1>7, <1>8, <1>10, <1>11, <1>12, <1>9

(* A step on all the private files of an operation.                        *)
LEMMA PrivatesAre ==
  ASSUME TypeInv, NEW w \in Inv, NEW f \in [Targets -> PrivFile],
         priv' = [priv EXCEPT ![w] = f]
  PROVE  /\ priv' \in [Inv -> [Targets -> PrivFile]] /\ priv'[w] = f
         /\ \A v \in Inv : v # w => priv'[v] = priv[v]
BY DEF TypeInv, TypeOK, PrivFile

(* A step that leaves the files alone.                                     *)
LEMMA StillMoves ==
  ASSUME NEW w \in Inv, UNCHANGED target,
         \A t \in Targets : priv'[w][t].moved = priv[w][t].moved
  PROVE  \A t \in Targets : Moves(w, t)
BY DEF Moves, ContentOf

(* What the invocation knows that works under the lock.                    *)
Holds(i, w) ==
  /\ w = work[i] /\ row[w] \in Open /\ AgreeAt(i)
  /\ w # i => pc[i] \in Resolving
  /\ mem[i] # None => mem[i] \in Record_
  /\ rec[w] # None => /\ rec[w] \in Record_
                      /\ \A t \in Targets : ContentOf(rec[w].entry[t].orig) # w
  /\ rec[w] # None /\ Sure(w) => \A t \in Targets : FilesAt(w, t)
  /\ w = i => i \notin refused \/ touched \/ i \in misjudged
  /\ w = i => \A t \in Targets : OwnerAt(i, t)
  /\ pc[i] \in Resolving => \A t \in Targets : StepAt(i, t)
  /\ pc[i] \in AtTarget => cur[i] \in Targets
  /\ w \in refused /\ Sure(w) => rec[w] # None /\ RefusedAt(w)
  /\ pc[i] = "acquired" => rec[i] = None
  /\ rec[w] = None => \A t \in Targets : priv[w][t] = NoPriv /\ ContentOf(target[t]) # w
  /\ \A t \in Targets : t \in Links => ~ priv[w][t].backup

(* The invariant says so of whoever has the lock.                          *)
LEMMA HolderKnows ==
  ASSUME BundleInv, NEW i \in Inv, pc[i] \in Locked
  PROVE  work[i] \in Inv /\ Holds(i, work[i])
<1> USE DEF BundleInv
<1>1. work[i] \in Inv /\ row[work[i]] \in Open
  BY DEF LockInv, TypeInv, TypeOK
<1>2. /\ AgreeAt(i) /\ (work[i] # i => pc[i] \in Resolving)
      /\ (pc[i] = "acquired" => rec[i] = None)
      /\ pc[i] \in AtTarget => cur[i] \in Targets
  BY DEF AgreeInv, WorkInv, CurInv, Locked, Working
<1>3. /\ mem[i] # None => mem[i] \in Record_
      /\ rec[work[i]] # None => rec[work[i]] \in Record_
  BY <1>1 DEF TypeInv
<1>4. /\ rec[work[i]] # None =>
           \A t \in Targets : ContentOf(rec[work[i]].entry[t].orig) # work[i]
      /\ rec[work[i]] # None /\ Sure(work[i]) => \A t \in Targets : FilesAt(work[i], t)
      /\ rec[work[i]] = None =>
           \A t \in Targets : priv[work[i]][t] = NoPriv /\ ContentOf(target[t]) # work[i]
      /\ \A t \in Targets : t \in Links => ~ priv[work[i]][t].backup
  BY <1>1 DEF OwnInv, FilesInv, FreshInv, FreshAt, LinkInv
<1>5. /\ work[i] = i => \A t \in Targets : OwnerAt(i, t)
      /\ pc[i] \in Resolving => \A t \in Targets : StepAt(i, t)
  BY DEF OwnerInv, StepInv
<1>6. /\ work[i] = i => i \notin refused \/ touched \/ i \in misjudged
      /\ work[i] \in refused /\ Sure(work[i]) => rec[work[i]] # None /\ RefusedAt(work[i])
  BY <1>1 DEF RefusedInv, RefusedAt, Sure
<1> QED
  BY <1>1, <1>2, <1>3, <1>4, <1>5, <1>6 DEF Holds

(* What one knows in particular that publishes.                            *)
Owns(i) ==
  /\ Holds(i, i) /\ pc[i] \in Locked
  /\ mem[i] = rec[i] /\ mem[i] # None /\ mem[i] \in Record_ /\ ~ mem[i].validated
  /\ \A t \in Targets : /\ mem[i].entry[t] \in EntryOf /\ priv[i][t] \in PrivFile
                         /\ target[t] \in Files \cup {None}

(* The invariant says so of whoever publishes.                             *)
LEMMA OwnerKnows ==
  ASSUME BundleInv, NEW i \in Inv, pc[i] \in Publishing
  PROVE  Owns(i)
<1>1. pc[i] \in Locked /\ Holds(i, work[i])
  BY HolderKnows DEF Locked, Working, Publishing
<1>2. work[i] = i
  BY <1>1 DEF Holds, Publishing, Resolving
<1>3. mem[i] = rec[i] /\ mem[i] # None /\ mem[i] \in Record_ /\ ~ mem[i].validated
  BY <1>1, <1>2 DEF Holds, AgreeAt
<1> QED
  BY <1>1, <1>2, <1>3, Types DEF Owns, BundleInv, Record_, EntryOf

(* What is said of the files at a target stands while they, and what the   *)
(* record says of them, stay.                                              *)
LEMMA FilesKept ==
  ASSUME NEW w \in Inv, NEW s \in Targets, FilesAt(w, s),
         rec'[w].entry[s] = rec[w].entry[s], rec'[w].validated = rec[w].validated,
         priv'[w][s] = priv[w][s], target'[s] = target[s]
  PROVE  FilesAt(w, s)'
BY DEF FilesAt, Known

(* And what one knows that resolves, its own operation or another's.       *)
Resolves(i, w) ==
  /\ Holds(i, w) /\ pc[i] \in Resolving /\ w \in Inv
  /\ mem[i] # None /\ mem[i] \in Record_ /\ rec[w] # None /\ rec[w] \in Record_
  /\ Sure(w) => mem[i].entry = rec[w].entry
  /\ Sure(w) /\ w # i => mem[i] = rec[w]
  /\ Sure(w) /\ rec[w].validated => mem[i].validated
  /\ \A t \in Targets :
       /\ mem[i].entry[t] \in EntryOf /\ priv[w][t] \in PrivFile
       /\ mem[i].entry[t].orig = rec[w].entry[t].orig
       /\ ContentOf(mem[i].entry[t].orig) # w
       /\ target[t] \in Files \cup {None}

(* The invariant says so of whoever resolves.                              *)
LEMMA ResolverKnows ==
  ASSUME BundleInv, NEW i \in Inv, pc[i] \in Resolving \ {"recording", "closing"}
  PROVE  Resolves(i, work[i])
<1> DEFINE w == work[i]
<1>1. pc[i] \in Locked /\ w \in Inv /\ Holds(i, w)
  BY HolderKnows DEF Locked, Working, Resolving
<1>2. mem[i] # None /\ mem[i] \in Record_ /\ rec[w] # None /\ rec[w] \in Record_
  BY <1>1 DEF Holds, AgreeAt
<1>3. /\ Sure(w) => mem[i].entry = rec[w].entry
      /\ Sure(w) /\ w # i => mem[i] = rec[w]
      /\ Sure(w) /\ rec[w].validated => mem[i].validated
      /\ \A t \in Targets : mem[i].entry[t].orig = rec[w].entry[t].orig
  BY <1>1, <1>2 DEF Holds, AgreeAt, Sure
<1>4. \A t \in Targets : ContentOf(rec[w].entry[t].orig) # w
  BY <1>1, <1>2 DEF Holds
<1>5. \A t \in Targets : /\ mem[i].entry[t] \in EntryOf /\ priv[w][t] \in PrivFile
                         /\ target[t] \in Files \cup {None}
  BY <1>1, <1>2, Types DEF BundleInv
<1> QED
  BY <1>1, <1>2, <1>3, <1>4, <1>5 DEF Resolves

(* Its copy of the record stays what it is, but for what is recorded now.  *)
LEMMA StillAgrees ==
  ASSUME NEW i \in Inv, NEW w \in Inv, Resolves(i, w), NEW next \in Resolving \ {"validated"},
         pc'[i] = next, UNCHANGED <<work, misjudged>>,
         pc[i] \in Resolving \ {"recording", "closing"},
         next \in RollingBack => pc[i] \in RollingBack,
         \/ UNCHANGED <<mem, rec>>
         \/ /\ rec'[w] = mem'[i] /\ mem'[i] # None
            /\ mem'[i].validated = mem[i].validated
  PROVE  AgreeAt(i)'
<1>1. next \notin Publishing /\ pc[i] \in Locked \ {"closing"} /\ pc[i] \notin Publishing
  BY DEF Publishing, Resolving, Locked, Working
<1>2. w = work[i] /\ work'[i] = w /\ AgreeAt(i) /\ mem[i] # None /\ rec[w] # None
  BY DEF Resolves, Holds
<1>3. CASE UNCHANGED <<mem, rec>>
  BY <1>1, <1>2, <1>3 DEF AgreeAt
<1>4. CASE rec'[w] = mem'[i] /\ mem'[i] # None /\ mem'[i].validated = mem[i].validated
  BY <1>1, <1>2, <1>4 DEF AgreeAt
<1> QED
  BY <1>3, <1>4

(* What a sweep leaves of the private files of a target.                   *)
LEMMA SweptIs ==
  ASSUME NEW p \in PrivFile, NEW r, NEW t, NEW q, q = Swept(p, r, t)
  PROVE  /\ q \in PrivFile /\ ~ q.source /\ ~ q.backup
         /\ p.moved = r.entry[t].orig => q.moved = None
         /\ p.moved # r.entry[t].orig => q.moved = p.moved
         /\ q.cand = p.cand /\ q.copy = p.copy /\ q.stray = p.stray
BY DEF Swept, PrivFile

(* The same, for one target.                                               *)
Sees(i, w, s) ==
  LET e == mem[i].entry[s] IN
    /\ priv[w][s] \in PrivFile /\ target[s] \in Files \cup {None} /\ e \in EntryOf
    /\ mem[i] # None /\ rec[w] # None
    /\ e.orig = rec[w].entry[s].orig /\ ContentOf(e.orig) # w /\ e.orig # New(w)
    /\ Sure(w) => rec[w].entry[s] = e /\ FilesAt(w, s)
    /\ Sure(w) /\ w # i => rec[w] = mem[i]
    /\ Sure(w) /\ rec[w].validated => mem[i].validated
    /\ w = i => OwnerAt(i, s)
    /\ StepAt(i, s)
    /\ s \in Links => ~ priv[w][s].backup
    /\ e.orig # None =>
         /\ File(e.orig.content, w) \in Files /\ File(e.orig.content, w) # None
         /\ File(e.orig.content, w) # New(w)
         /\ ContentOf(File(e.orig.content, w)) = ContentOf(e.orig)

(* A resolver sees this of every target.                                   *)
LEMMA ResolverSees ==
  ASSUME BundleAssumption, NEW i \in Inv, NEW w \in Inv, Resolves(i, w)
  PROVE  \A s \in Targets : Sees(i, w, s)
<1> SUFFICES ASSUME NEW s \in Targets PROVE Sees(i, w, s)
  OBVIOUS
<1> DEFINE e == mem[i].entry[s]
<1>1. /\ priv[w][s] \in PrivFile /\ target[s] \in Files \cup {None} /\ e \in EntryOf
      /\ e.orig = rec[w].entry[s].orig /\ ContentOf(e.orig) # w
      /\ mem[i] # None /\ rec[w] # None /\ StepAt(i, s) /\ (w = i => OwnerAt(i, s))
      /\ s \in Links => ~ priv[w][s].backup
      /\ Sure(w) => rec[w].entry[s] = e /\ FilesAt(w, s)
      /\ Sure(w) /\ w # i => rec[w] = mem[i]
      /\ Sure(w) /\ rec[w].validated => mem[i].validated
  BY DEF Resolves, Holds
<1>2. e.orig \in Files \cup {None}
  BY <1>1 DEF EntryOf
<1> HIDE DEF e
<1>3. e.orig # New(w)
  BY <1>1, FileFacts
<1>4. e.orig # None =>
         /\ File(e.orig.content, w) \in Files /\ File(e.orig.content, w) # None
         /\ File(e.orig.content, w) # New(w)
         /\ ContentOf(File(e.orig.content, w)) = ContentOf(e.orig)
  BY <1>1, <1>2, FileFacts, SMTT(60)
<1> QED
  BY <1>1, <1>3, <1>4 DEF Sees, e

(* A target moves as the invariant allows if its original comes back into  *)
(* an empty place.                                                         *)
LEMMA MovesAt ==
  ASSUME BundleAssumption, NEW w \in Inv, NEW s \in Targets, rec[w] # None,
         NEW o, o = rec[w].entry[s].orig,
         \/ target'[s] = target[s]
         \/ target[s] = None /\ ContentOf(target'[s]) = ContentOf(o),
         \/ priv'[w][s].moved = priv[w][s].moved
         \/ priv'[w][s].moved = None /\ priv[w][s].moved \in {None, o}
  PROVE  Moves(w, s)
<1>1. ContentOf(None) = None /\ Alien # None
  BY FileFacts DEF BundleAssumption
<1> QED
  BY <1>1 DEF Moves, Origs

-------------------------------------------------------------------------------
(* The steps of an invocation that publishes keep the invariant.           *)
LEMMA OwnerSteps ==
  ASSUME BundleAssumption, BundleInv, NEW i \in Inv,
         \/ Track(i) \/ (\E t \in Targets : BackupTarget(i, t))
         \/ Committing(i) \/ (\E t \in Targets : Candidate(i, t))
         \/ NothingToDisplace(i) \/ Displacing(i) \/ Displace(i)
         \/ Displaced(i) \/ PutBack(i) \/ Install(i) \/ Installed(i)
         \/ Validated(i) \/ ValidatedFails(i) \/ Fail(i)
  PROVE  BundleInv'
<1> USE BundleAssumption
<1>a. TypeInv
  BY DEF BundleInv
<1> USE <1>a
<1>1. CASE Track(i)
  <2>1. Holds(i, i) /\ pc[i] = "acquired" /\ To(i, "tracked") /\ pc'[i] = "tracked"
    BY <1>1, HolderKnows DEF Track, At, To, TypeInv, TypeOK, Locked, Working,
       Publishing, BundleInv, WorkInv, Resolving
  <2> DEFINE r == [entry |-> [t \in Targets |-> Untouched(target[t])], validated |-> FALSE]
             f == [t \in Targets |-> [NoPriv EXCEPT !.source = TRUE]]
  <2>2. /\ r \in Record_ /\ r.validated = FALSE
        /\ \A t \in Targets : /\ r.entry[t].orig = target[t] /\ ~ r.entry[t].cand
                              /\ ~ r.entry[t].rest
    <3>1. \A t \in Targets : /\ Untouched(target[t]) \in EntryOf
                               /\ Untouched(target[t]).orig = target[t]
                               /\ ~ Untouched(target[t]).cand /\ ~ Untouched(target[t]).rest
      BY Types DEF Untouched, EntryOf
    <3> QED
      BY <3>1 DEF Record_, EntryOf
  <2>3. /\ f \in [Targets -> PrivFile]
        /\ \A t \in Targets : /\ f[t].moved = None /\ ~ f[t].copy /\ ~ f[t].stray
                              /\ ~ f[t].cand
                              /\ ~ f[t].backup
    BY DEF PrivFile, NoPriv
  <2> HIDE DEF r, f
  <2>4. /\ priv' \in [Inv -> [Targets -> PrivFile]] /\ priv'[i] = f
        /\ \A v \in Inv : v # i => priv'[v] = priv[v]
    BY <1>1, <2>3, PrivatesAre DEF Track, f
  <2>5. /\ rec' \in [Inv -> Record_ \cup {None}] /\ mem' \in [Inv -> Record_ \cup {None}]
        /\ rec'[i] = r /\ mem'[i] = r /\ r # None /\ UNCHANGED row
        /\ \A v \in Inv : v # i => rec'[v] = rec[v]
        /\ \A j \in Inv : j # i => mem'[j] = mem[j]
    BY <1>1, <2>1, <2>2, PersistIs DEF Track, r, Holds
  <2>6. /\ Frame(i, i) /\ UNCHANGED <<refused, target, work, touched, misjudged>>
        /\ rec[i] = None
    <3>1. \A t \in Targets : ~ priv'[i][t].backup
      BY <2>3, <2>4
    <3> QED
      BY <1>1, <2>1, <2>4, <2>5, <3>1 DEF Track, Open, Frame, Holds, history,
         TypeInv, TypeOK
  <2>7. AgreeAt(i)'
    BY <2>1, <2>2, <2>5, <2>6 DEF AgreeAt, Holds, Publishing, Resolving,
       RollingBack
  <2>8. \A t \in Targets : Moves(i, t)
    BY <2>1, <2>3, <2>4, <2>6, StillMoves DEF Holds, NoPriv
  <2>9. ASSUME NEW t \in Targets PROVE FilesAt(i, t)' /\ OwnerAt(i, t)'
    <3>1. ContentOf(target[t]) # i /\ target[t] # New(i)
      BY <2>1, <2>6, FileFacts DEF Holds
    <3> QED
      BY <2>1, <2>2, <2>3, <2>4, <2>5, <2>6, <3>1 DEF FilesAt, OwnerAt, Known,
         Publishing, Holds
  <2> QED
    BY <2>1, <2>2, <2>5, <2>6, <2>7, <2>8, <2>9, LockedStep DEF Holds, Locked,
       Working, Publishing, Resolving, AtTarget
<1>2. ASSUME NEW t \in Targets, BackupTarget(i, t) PROVE BundleInv'
  <2>1. /\ Owns(i) /\ pc[i] = "tracked"
        /\ To(i, "tracked") /\ pc'[i] = "tracked"
    BY <1>2, OwnerKnows DEF BackupTarget, At, To, TypeInv, TypeOK, Publishing
  <2> DEFINE q == [priv[i][t] EXCEPT !.backup = TRUE]
  <2>2. /\ q \in PrivFile /\ q.backup
        /\ q.source = priv[i][t].source /\ q.moved = priv[i][t].moved
        /\ q.cand = priv[i][t].cand
        /\ q.copy = priv[i][t].copy /\ q.stray = priv[i][t].stray
    BY <2>1 DEF Owns, Holds, PrivFile
  <2>3. /\ priv' \in [Inv -> [Targets -> PrivFile]] /\ priv'[i][t] = q
        /\ \A s \in Targets : s # t => priv'[i][s] = priv[i][s]
        /\ \A v \in Inv : v # i => priv'[v] = priv[v]
    BY <1>2, <2>1, <2>2, PrivateIs DEF BackupTarget, Owns, Holds
  <2> HIDE DEF q
  <2> DEFINE e == [mem[i].entry[t] EXCEPT !.backup = TRUE]
  <2>4. /\ e \in EntryOf /\ e.backup
        /\ e.orig = mem[i].entry[t].orig /\ e.attempted = mem[i].entry[t].attempted
        /\ e.cand = mem[i].entry[t].cand
        /\ e.rest = mem[i].entry[t].rest
    BY <2>1 DEF Owns, Holds, EntryOf
  <2>5. /\ rec' \in [Inv -> Record_ \cup {None}] /\ mem' \in [Inv -> Record_ \cup {None}]
        /\ rec'[i] = mem'[i] /\ mem'[i] # None /\ UNCHANGED row
        /\ mem'[i].entry[t] = e /\ mem'[i].validated = mem[i].validated
        /\ \A s \in Targets : s # t => mem'[i].entry[s] = mem[i].entry[s]
        /\ \A v \in Inv : v # i => rec'[v] = rec[v]
        /\ \A j \in Inv : j # i => mem'[j] = mem[j]
    BY <1>2, <2>1, <2>2, <2>3, <2>4, EntryIs DEF BackupTarget, Owns, Holds
  <2> HIDE DEF e
  <2>6. rec[i] # None /\ \A s \in Targets : rec'[i].entry[s].orig = rec[i].entry[s].orig
    <3>1. rec[i] # None /\ \A s \in Targets : mem[i].entry[s].orig = rec[i].entry[s].orig
      BY <2>1 DEF Owns, Holds, AgreeAt
    <3> QED
      BY <2>1, <2>2, <2>3, <2>4, <2>5, <3>1
  <2>7. /\ Frame(i, i) /\ UNCHANGED <<target, cur, refused>>
    BY <1>2, <2>1, <2>2, <2>3, <2>4, <2>5, <2>6 DEF BackupTarget, Frame, Owns,
       Holds, NeedsBackup, disk, journal, local, history, TypeInv, TypeOK,
       PrivFile
  <2>8. AgreeAt(i)'
    BY <2>1, <2>2, <2>3, <2>4, <2>5, <2>6, <2>7, SMTT(60) DEF AgreeAt, Frame,
       Owns, Holds, Publishing, Resolving, RollingBack
  <2>9. \A s \in Targets : Moves(i, s)
    BY <2>1, <2>2, <2>3, <2>4, <2>5, <2>6, <2>7, StillMoves DEF Owns, Holds
  <2>10. ASSUME NEW s \in Targets PROVE (Sure(i) => FilesAt(i, s)') /\ OwnerAt(i, s)'
    <3>1. (Sure(i) => FilesAt(i, s)) /\ OwnerAt(i, s)
      BY <2>1 DEF Owns, Holds
    <3>2. s = t => (Sure(i) => FilesAt(i, s)')
      BY <2>1, <2>2, <2>3, <2>4, <2>5, <2>7, <3>1, SMTT(60) DEF FilesAt, Known,
         Owns
    <3>3. s = t => (OwnerAt(i, s)')
      BY <1>2, <2>1, <2>2, <2>3, <2>4, <2>5, <2>7, <3>1, SMTT(60) DEF OwnerAt,
         Frame
    <3>4. s # t => (Sure(i) => FilesAt(i, s)')
      BY <2>1, <2>3, <2>5, <2>7, <3>1, FilesKept DEF Owns
    <3>5. s # t => (OwnerAt(i, s)')
      BY <2>1, <2>3, <2>4, <2>5, <2>6, <2>7, <3>1, SMTT(60) DEF OwnerAt,
         Publishing, Owns, Frame
    <3> QED
      BY <3>2, <3>3, <3>4, <3>5
  <2> QED
    BY <2>1, <2>2, <2>3, <2>4, <2>5, <2>6, <2>7, <2>8, <2>9, <2>10, LockedStep
       DEF Owns, Holds, Locked, Working, Publishing, Resolving, AtTarget
<1>3. CASE Committing(i)
  <2>1. /\ Owns(i) /\ pc[i] = "tracked"
        /\ To(i, "committing") /\ pc'[i] = "committing"
    BY <1>3, OwnerKnows DEF Committing, At, To, TypeInv, TypeOK, Publishing
  <2>2. /\ Frame(i, i) /\ UNCHANGED <<priv, target, rec, mem, cur, refused>>
    BY <1>3, <2>1 DEF Committing, Frame, Owns, Holds, disk, journal, local,
       history, TypeInv, TypeOK, PrivFile, Open
  <2>3. AgreeAt(i)'
    BY <2>1, <2>2 DEF AgreeAt, Frame, Owns, Holds, Publishing, Resolving,
       RollingBack
  <2>4. \A s \in Targets : Moves(i, s)
    BY <2>1, <2>2, StillMoves DEF Owns, Holds
  <2>5. ASSUME NEW s \in Targets PROVE (Sure(i) => FilesAt(i, s)') /\ OwnerAt(i, s)'
    BY <1>3, <2>1, <2>2, SMTT(60) DEF FilesAt, OwnerAt, Known, Publishing,
       Owns, Holds, Frame
  <2> QED
    BY <2>1, <2>2, <2>3, <2>4, <2>5, LockedStep DEF Owns, Holds, Locked,
       Working, Publishing, Resolving, AtTarget
<1>4. ASSUME NEW t \in Targets, Candidate(i, t) PROVE BundleInv'
  <2>1. /\ Owns(i) /\ pc[i] = "committing"
        /\ To(i, "candidate") /\ pc'[i] = "candidate"
    BY <1>4, OwnerKnows DEF Candidate, At, To, TypeInv, TypeOK, Publishing
  <2> DEFINE q == [priv[i][t] EXCEPT !.cand = TRUE]
  <2>2. /\ q \in PrivFile /\ q.cand
        /\ q.source = priv[i][t].source /\ q.backup = priv[i][t].backup
        /\ q.moved = priv[i][t].moved
        /\ q.copy = priv[i][t].copy /\ q.stray = priv[i][t].stray
    BY <2>1 DEF Owns, Holds, PrivFile
  <2>3. /\ priv' \in [Inv -> [Targets -> PrivFile]] /\ priv'[i][t] = q
        /\ \A s \in Targets : s # t => priv'[i][s] = priv[i][s]
        /\ \A v \in Inv : v # i => priv'[v] = priv[v]
    BY <1>4, <2>1, <2>2, PrivateIs DEF Candidate, Owns, Holds
  <2> HIDE DEF q
  <2> DEFINE e == [mem[i].entry[t] EXCEPT !.cand = TRUE]
  <2>4. /\ e \in EntryOf /\ e.cand
        /\ e.orig = mem[i].entry[t].orig /\ e.backup = mem[i].entry[t].backup
        /\ e.attempted = mem[i].entry[t].attempted
        /\ e.rest = mem[i].entry[t].rest
    BY <2>1 DEF Owns, Holds, EntryOf
  <2>5. /\ rec' \in [Inv -> Record_ \cup {None}] /\ mem' \in [Inv -> Record_ \cup {None}]
        /\ rec'[i] = mem'[i] /\ mem'[i] # None /\ UNCHANGED row
        /\ mem'[i].entry[t] = e /\ mem'[i].validated = mem[i].validated
        /\ \A s \in Targets : s # t => mem'[i].entry[s] = mem[i].entry[s]
        /\ \A v \in Inv : v # i => rec'[v] = rec[v]
        /\ \A j \in Inv : j # i => mem'[j] = mem[j]
    BY <1>4, <2>1, <2>2, <2>3, <2>4, EntryIs DEF Candidate, Owns, Holds
  <2> HIDE DEF e
  <2>6. rec[i] # None /\ \A s \in Targets : rec'[i].entry[s].orig = rec[i].entry[s].orig
    <3>1. rec[i] # None /\ \A s \in Targets : mem[i].entry[s].orig = rec[i].entry[s].orig
      BY <2>1 DEF Owns, Holds, AgreeAt
    <3> QED
      BY <2>1, <2>2, <2>3, <2>4, <2>5, <3>1
  <2>7. /\ Frame(i, i) /\ UNCHANGED <<target, refused>>
        /\ cur' = [cur EXCEPT ![i] = t] /\ cur'[i] = t
    BY <1>4, <2>1, <2>2, <2>3, <2>4, <2>5, <2>6, ZenonT(120) DEF Candidate,
       Frame, Owns, Holds, disk, journal, local, history, TypeInv, TypeOK,
       PrivFile
  <2>8. AgreeAt(i)'
    BY <2>1, <2>2, <2>3, <2>5, <2>7, SMTT(60) DEF AgreeAt, Frame, Owns, Holds,
       Publishing
  <2>9. \A s \in Targets : Moves(i, s)
    BY <2>1, <2>2, <2>3, <2>4, <2>5, <2>6, <2>7, StillMoves DEF Owns, Holds
  <2>10. ASSUME NEW s \in Targets PROVE (Sure(i) => FilesAt(i, s)') /\ OwnerAt(i, s)'
    <3>1. (Sure(i) => FilesAt(i, s)) /\ OwnerAt(i, s)
      BY <2>1 DEF Owns, Holds
    <3>2. s = t => (Sure(i) => FilesAt(i, s)')
      BY <2>1, <2>2, <2>3, <2>4, <2>5, <2>7, <3>1, SMTT(60) DEF FilesAt, Known,
         Sure, Owns, Frame
    <3>3. s = t => (OwnerAt(i, s)')
      BY <1>4, <2>1, <2>2, <2>3, <2>4, <2>5, <2>7, <3>1, SMTT(60) DEF
         Candidate, OwnerAt, Publishing
    <3>4. s # t => (Sure(i) => FilesAt(i, s)')
      BY <2>1, <2>3, <2>5, <2>7, <3>1, FilesKept DEF Owns
    <3>5. s # t => (OwnerAt(i, s)')
      BY <2>1, <2>3, <2>4, <2>5, <2>7, <3>1, SMTT(60) DEF OwnerAt, Publishing,
         Frame
    <3> QED
      BY <3>2, <3>3, <3>4, <3>5
  <2> QED
    BY <2>1, <2>2, <2>3, <2>4, <2>5, <2>6, <2>7, <2>8, <2>9, <2>10, LockedStep
       DEF Owns, Holds, Locked, Working, Publishing, Resolving, AtTarget
<1>5. CASE NothingToDisplace(i)
  <2>1. /\ Owns(i) /\ pc[i] = "candidate"
        /\ To(i, "installing") /\ pc'[i] = "installing"
    BY <1>5, OwnerKnows DEF NothingToDisplace, At, To, TypeInv, TypeOK,
       Publishing
  <2>2. PICK t \in Targets : t = cur[i]
    BY <2>1 DEF Owns, Holds, AtTarget, Publishing
  <2>3. /\ Frame(i, i) /\ UNCHANGED <<priv, target, rec, mem, cur, refused>>
    BY <1>5, <2>1, <2>2 DEF NothingToDisplace, Frame, Owns, Holds, disk,
       journal, local, history, TypeInv, TypeOK, PrivFile
  <2>4. AgreeAt(i)'
    BY <2>1, <2>2, <2>3 DEF AgreeAt, Frame, Owns, Holds, Publishing, Resolving,
       RollingBack
  <2>5. \A s \in Targets : Moves(i, s)
    BY <2>1, <2>2, <2>3, StillMoves DEF Owns, Holds
  <2>6. ASSUME NEW s \in Targets PROVE (Sure(i) => FilesAt(i, s)') /\ OwnerAt(i, s)'
    <3>1. (Sure(i) => FilesAt(i, s)) /\ OwnerAt(i, s)
      BY <2>1 DEF Owns, Holds
    <3>2. s = t => (Sure(i) => FilesAt(i, s)')
      BY <1>5, <2>1, <2>2, <2>3, <3>1 DEF NothingToDisplace, FilesAt, Known,
         Sure, Owns, Frame
    <3>3. s = t => (OwnerAt(i, s)')
      BY <1>5, <2>1, <2>2, <2>3, <3>1 DEF NothingToDisplace, OwnerAt,
         Publishing, Owns, Frame
    <3>4. s # t => (Sure(i) => FilesAt(i, s)')
      BY <2>3, <3>1, FilesKept
    <3>5. s # t => (OwnerAt(i, s)')
      BY <1>5, <2>1, <2>2, <2>3, <3>1 DEF NothingToDisplace, OwnerAt,
         Publishing, Owns, Frame
    <3> QED
      BY <3>2, <3>3, <3>4, <3>5
  <2> QED
    BY <2>1, <2>2, <2>3, <2>4, <2>5, <2>6, LockedStep DEF Owns, Holds, Locked,
       Working, Publishing, Resolving, AtTarget
<1>6. CASE Displacing(i)
  <2>1. /\ Owns(i) /\ pc[i] = "candidate"
        /\ To(i, "displacing") /\ pc'[i] = "displacing"
    BY <1>6, OwnerKnows DEF Displacing, At, To, TypeInv, TypeOK, Publishing
  <2>2. PICK t \in Targets : t = cur[i]
    BY <2>1 DEF Owns, Holds, AtTarget, Publishing
  <2> DEFINE e == [mem[i].entry[t] EXCEPT !.attempted = TRUE]
  <2>3. /\ e \in EntryOf /\ e.attempted
        /\ e.orig = mem[i].entry[t].orig /\ e.backup = mem[i].entry[t].backup
        /\ e.cand = mem[i].entry[t].cand
        /\ e.rest = mem[i].entry[t].rest
    BY <2>1, <2>2 DEF Owns, Holds, EntryOf
  <2>4. /\ rec' \in [Inv -> Record_ \cup {None}] /\ mem' \in [Inv -> Record_ \cup {None}]
        /\ rec'[i] = mem'[i] /\ mem'[i] # None /\ UNCHANGED row
        /\ mem'[i].entry[t] = e /\ mem'[i].validated = mem[i].validated
        /\ \A s \in Targets : s # t => mem'[i].entry[s] = mem[i].entry[s]
        /\ \A v \in Inv : v # i => rec'[v] = rec[v]
        /\ \A j \in Inv : j # i => mem'[j] = mem[j]
    BY <1>6, <2>1, <2>2, <2>3, EntryIs DEF Displacing, Owns, Holds
  <2> HIDE DEF e
  <2>5. rec[i] # None /\ \A s \in Targets : rec'[i].entry[s].orig = rec[i].entry[s].orig
    <3>1. rec[i] # None /\ \A s \in Targets : mem[i].entry[s].orig = rec[i].entry[s].orig
      BY <2>1 DEF Owns, Holds, AgreeAt
    <3> QED
      BY <2>1, <2>2, <2>3, <2>4, <3>1
  <2>6. /\ Frame(i, i) /\ UNCHANGED <<priv, target, cur, refused>>
    BY <1>6, <2>1, <2>2, <2>3, <2>4, <2>5 DEF Displacing, Frame, Owns, Holds,
       disk, journal, local, history, TypeInv, TypeOK, PrivFile
  <2>7. AgreeAt(i)'
    BY <2>1, <2>2, <2>3, <2>4, <2>5, <2>6 DEF AgreeAt, Frame, Owns, Holds,
       Publishing, Resolving, RollingBack
  <2>8. \A s \in Targets : Moves(i, s)
    BY <2>1, <2>2, <2>3, <2>4, <2>5, <2>6, StillMoves DEF Owns, Holds
  <2>9. ASSUME NEW s \in Targets PROVE (Sure(i) => FilesAt(i, s)') /\ OwnerAt(i, s)'
    <3>1. (Sure(i) => FilesAt(i, s)) /\ OwnerAt(i, s)
      BY <2>1 DEF Owns, Holds
    <3>2. s = t => (Sure(i) => FilesAt(i, s)')
      BY <1>6, <2>1, <2>2, <2>3, <2>4, <2>5, <2>6, <3>1 DEF Displacing,
         FilesAt, Known, Sure, Owns, Frame
    <3>3. s = t => (OwnerAt(i, s)')
      BY <1>6, <2>1, <2>3, <2>4, <2>6, <3>1, SMTT(60) DEF Displacing, OwnerAt,
         Publishing, Owns, Frame
    <3>4. s # t => (Sure(i) => FilesAt(i, s)')
      BY <2>1, <2>4, <2>6, <3>1, FilesKept DEF Owns
    <3>5. s # t => (OwnerAt(i, s)')
      BY <1>6, <2>1, <2>2, <2>3, <2>4, <2>5, <2>6, <3>1 DEF Displacing,
         OwnerAt, Publishing, Owns, Frame
    <3> QED
      BY <3>2, <3>3, <3>4, <3>5
  <2> QED
    BY <2>1, <2>2, <2>3, <2>4, <2>5, <2>6, <2>7, <2>8, <2>9, LockedStep DEF
       Owns, Holds, Locked, Working, Publishing, Resolving, AtTarget
<1>7. CASE Displace(i)
  <2>1. /\ Owns(i) /\ pc[i] = "displacing"
        /\ To(i, "displaced") /\ pc'[i] = "displaced"
    BY <1>7, OwnerKnows DEF Displace, At, To, TypeInv, TypeOK, Publishing
  <2>2. PICK t \in Targets : t = cur[i]
    BY <2>1 DEF Owns, Holds, AtTarget, Publishing
  <2> DEFINE q == [priv[i][t] EXCEPT !.moved = target[t]]
  <2>3. /\ q \in PrivFile /\ q.moved = target[t]
        /\ q.source = priv[i][t].source /\ q.backup = priv[i][t].backup
        /\ q.cand = priv[i][t].cand
        /\ q.copy = priv[i][t].copy /\ q.stray = priv[i][t].stray
    BY <2>1, <2>2 DEF Owns, Holds, PrivFile
  <2>4. /\ priv' \in [Inv -> [Targets -> PrivFile]] /\ priv'[i][t] = q
        /\ \A s \in Targets : s # t => priv'[i][s] = priv[i][s]
        /\ \A v \in Inv : v # i => priv'[v] = priv[v]
    BY <1>7, <2>1, <2>2, <2>3, PrivateIs DEF Displace, Owns, Holds
  <2> HIDE DEF q
  <2>5. /\ target' \in [Targets -> Files \cup {None}] /\ target'[t] = None
        /\ \A s \in Targets : s # t => target'[s] = target[s]
    BY <1>7, <2>1, <2>2, <2>3, <2>4, FileFacts, Types DEF Displace, Owns,
       Holds, PrivFile
  <2>6. /\ Frame(i, i) /\ UNCHANGED <<rec, mem, cur, refused>>
    BY <1>7, <2>1, <2>2, <2>3, <2>4, <2>5 DEF Displace, Frame, Owns, Holds,
       disk, journal, local, history, TypeInv, TypeOK, PrivFile
  <2>7. AgreeAt(i)'
    BY <2>1, <2>2, <2>3, <2>4, <2>5, <2>6 DEF AgreeAt, Frame, Owns, Holds,
       Publishing, Resolving, RollingBack
  <2>8. \A s \in Targets : Moves(i, s)
    <3>1. ASSUME NEW s \in Targets, s # t PROVE Moves(i, s)
      BY <2>1, <2>2, <2>3, <2>4, <2>5, <2>6, <3>1 DEF Moves
    <3>2. Moves(i, t)
      BY <1>7, <2>1, <2>2, <2>3, <2>4, <2>5, <2>6, FileFacts DEF Displace,
         BundleAssumption, Moves, Origs, Owns, Holds, OwnerAt
    <3> QED
      BY <3>1, <3>2
  <2>9. ASSUME NEW s \in Targets PROVE (Sure(i) => FilesAt(i, s)') /\ OwnerAt(i, s)'
    <3>1. (Sure(i) => FilesAt(i, s)) /\ OwnerAt(i, s)
      BY <2>1 DEF Owns, Holds
    <3>2. s = t => (Sure(i) => FilesAt(i, s)')
      <4> SUFFICES ASSUME s = t, Sure(i) PROVE FilesAt(i, t)'
        OBVIOUS
      <4>1. rec'[i] = rec[i] /\ rec[i] = mem[i] /\ FilesAt(i, t)
        BY <2>1, <2>6, <3>1 DEF Owns
      <4>2. /\ target'[t] = None /\ priv'[i][t].moved = target[t]
        BY <2>3, <2>4, <2>5
      <4>3. target[t] = mem[i].entry[t].orig /\ mem[i].entry[t].attempted
        BY <2>1, <2>2, <3>1 DEF OwnerAt, Sure
      <4> QED
        BY <4>1, <4>2, <4>3 DEF FilesAt, Known
    <3>3. s = t => (OwnerAt(i, s)')
      BY <1>7, <2>1, <2>2, <2>3, <2>4, <2>5, <2>6, <3>1 DEF Displace, OwnerAt,
         Publishing, Owns, Frame
    <3>4. s # t => (Sure(i) => FilesAt(i, s)')
      BY <2>4, <2>5, <2>6, <3>1, FilesKept
    <3>5. s # t => (OwnerAt(i, s)')
      BY <1>7, <2>1, <2>2, <2>3, <2>4, <2>5, <2>6, <3>1 DEF Displace, OwnerAt,
         Publishing, Owns, Frame
    <3> QED
      BY <3>2, <3>3, <3>4, <3>5
  <2> QED
    BY <2>1, <2>2, <2>3, <2>4, <2>5, <2>6, <2>7, <2>8, <2>9, LockedStep DEF
       Owns, Holds, Locked, Working, Publishing, Resolving, AtTarget
<1>8. CASE Displaced(i)
  <2>1. /\ Owns(i) /\ pc[i] = "displaced"
        /\ To(i, "installing") /\ pc'[i] = "installing"
    BY <1>8, OwnerKnows DEF Displaced, At, To, TypeInv, TypeOK, Publishing
  <2>2. PICK t \in Targets : t = cur[i]
    BY <2>1 DEF Owns, Holds, AtTarget, Publishing
  <2> DEFINE e == mem[i].entry[t]
  <2>3. /\ e \in EntryOf /\ e = mem[i].entry[t]
        /\ e.orig = mem[i].entry[t].orig /\ e.backup = mem[i].entry[t].backup
        /\ e.attempted = mem[i].entry[t].attempted
        /\ e.cand = mem[i].entry[t].cand /\ e.rest = mem[i].entry[t].rest
    BY <2>1, <2>2 DEF Owns, Holds, EntryOf
  <2>4. /\ rec' \in [Inv -> Record_ \cup {None}] /\ mem' \in [Inv -> Record_ \cup {None}]
        /\ rec'[i] = mem'[i] /\ mem'[i] # None /\ UNCHANGED row
        /\ mem'[i].entry[t] = e /\ mem'[i].validated = mem[i].validated
        /\ \A s \in Targets : s # t => mem'[i].entry[s] = mem[i].entry[s]
        /\ \A v \in Inv : v # i => rec'[v] = rec[v]
        /\ \A j \in Inv : j # i => mem'[j] = mem[j]
    BY <1>8, <2>1, <2>2, <2>3, EntryIs DEF Displaced, Owns, Holds
  <2> HIDE DEF e
  <2>5. rec[i] # None /\ \A s \in Targets : rec'[i].entry[s].orig = rec[i].entry[s].orig
    <3>1. rec[i] # None /\ \A s \in Targets : mem[i].entry[s].orig = rec[i].entry[s].orig
      BY <2>1 DEF Owns, Holds, AgreeAt
    <3> QED
      BY <2>1, <2>2, <2>3, <2>4, <3>1
  <2>6. /\ Frame(i, i) /\ UNCHANGED <<priv, target, cur, refused>>
    BY <1>8, <2>1, <2>2, <2>3, <2>4, <2>5 DEF Displaced, Frame, Owns, Holds,
       disk, journal, local, history, TypeInv, TypeOK, PrivFile
  <2>7. AgreeAt(i)'
    BY <2>1, <2>2, <2>3, <2>4, <2>5, <2>6 DEF AgreeAt, Frame, Owns, Holds,
       Publishing, Resolving, RollingBack
  <2>8. \A s \in Targets : Moves(i, s)
    BY <2>1, <2>2, <2>3, <2>4, <2>5, <2>6, StillMoves DEF Owns, Holds
  <2>9. ASSUME NEW s \in Targets PROVE (Sure(i) => FilesAt(i, s)') /\ OwnerAt(i, s)'
    <3>1. (Sure(i) => FilesAt(i, s)) /\ OwnerAt(i, s)
      BY <2>1 DEF Owns, Holds
    <3>2. s = t => (Sure(i) => FilesAt(i, s)')
      <4> SUFFICES ASSUME s = t, Sure(i) PROVE FilesAt(i, t)'
        OBVIOUS
      <4>1. rec'[i] = mem'[i] /\ rec[i] = mem[i] /\ FilesAt(i, t)
        BY <2>1, <2>4, <3>1 DEF Owns
      <4>2. /\ mem'[i].entry[t] = mem[i].entry[t] /\ mem'[i].validated = mem[i].validated
            /\ UNCHANGED <<priv, target>>
        BY <2>3, <2>4, <2>6
      <4> QED
        BY <4>1, <4>2, FilesKept
    <3>3. s = t => (OwnerAt(i, s)')
      BY <2>1, <2>2, <2>3, <2>4, <2>6, <3>1 DEF OwnerAt
    <3>4. s # t => (Sure(i) => FilesAt(i, s)')
      BY <2>1, <2>4, <2>6, <3>1, FilesKept DEF Owns
    <3>5. s # t => (OwnerAt(i, s)')
      BY <1>8, <2>1, <2>2, <2>3, <2>4, <2>5, <2>6, <3>1 DEF Displaced, OwnerAt,
         Publishing, Owns, Frame
    <3> QED
      BY <3>2, <3>3, <3>4, <3>5
  <2> QED
    BY <2>1, <2>2, <2>3, <2>4, <2>5, <2>6, <2>7, <2>8, <2>9, LockedStep DEF
       Owns, Holds, Locked, Working, Publishing, Resolving, AtTarget
<1>9. CASE PutBack(i)
  <2>1. /\ Owns(i) /\ pc[i] = "displaced"
        /\ To(i, "unpublish") /\ pc'[i] = "unpublish"
    BY <1>9, OwnerKnows DEF PutBack, At, To, TypeInv, TypeOK, Publishing
  <2>2. PICK t \in Targets : t = cur[i]
    BY <2>1 DEF Owns, Holds, AtTarget, Publishing
  <2> DEFINE q == [priv[i][t] EXCEPT !.moved = None]
  <2>3. /\ q \in PrivFile /\ q.moved = None
        /\ q.source = priv[i][t].source /\ q.backup = priv[i][t].backup
        /\ q.cand = priv[i][t].cand
        /\ q.copy = priv[i][t].copy /\ q.stray = priv[i][t].stray
    BY <2>1, <2>2 DEF Owns, Holds, PrivFile
  <2>4. /\ priv' \in [Inv -> [Targets -> PrivFile]] /\ priv'[i][t] = q
        /\ \A s \in Targets : s # t => priv'[i][s] = priv[i][s]
        /\ \A v \in Inv : v # i => priv'[v] = priv[v]
    BY <1>9, <2>1, <2>2, <2>3, PrivateIs DEF PutBack, Owns, Holds
  <2> HIDE DEF q
  <2>5. /\ target' \in [Targets -> Files \cup {None}] /\ target'[t] = priv[i][t].moved
        /\ \A s \in Targets : s # t => target'[s] = target[s]
    BY <1>9, <2>1, <2>2, <2>3, <2>4, FileFacts, Types DEF PutBack, Owns, Holds,
       PrivFile
  <2>6. /\ Frame(i, i) /\ UNCHANGED <<rec, mem, cur, refused>>
    BY <1>9, <2>1, <2>2, <2>3, <2>4, <2>5 DEF PutBack, Frame, Owns, Holds,
       disk, journal, local, history, TypeInv, TypeOK, PrivFile
  <2>7. AgreeAt(i)'
    BY <2>1, <2>2, <2>3, <2>4, <2>5, <2>6 DEF AgreeAt, Frame, Owns, Holds,
       Publishing, Resolving, RollingBack
  <2>8. \A s \in Targets : Moves(i, s)
    <3>1. ASSUME NEW s \in Targets, s # t PROVE Moves(i, s)
      BY <2>1, <2>2, <2>3, <2>4, <2>5, <2>6, <3>1 DEF Moves
    <3>2. Moves(i, t)
      BY <1>9, <2>1, <2>2, <2>3, <2>4, <2>5, <2>6, FileFacts, SMTT(60) DEF
         PutBack, BundleAssumption, Moves, Origs, Owns, Holds, OwnerAt
    <3> QED
      BY <3>1, <3>2
  <2>9. ASSUME NEW s \in Targets
        PROVE  (Sure(i) => FilesAt(i, s)') /\ OwnerAt(i, s)' /\ StepAt(i, s)'
    <3>1. (Sure(i) => FilesAt(i, s)) /\ OwnerAt(i, s)
      BY <2>1 DEF Owns, Holds
    <3>2. s = t => (Sure(i) => FilesAt(i, s)')
      <4> SUFFICES ASSUME s = t, Sure(i) PROVE FilesAt(i, t)'
        OBVIOUS
      <4>1. rec'[i] = rec[i] /\ rec[i] = mem[i] /\ FilesAt(i, t)
        BY <2>1, <2>6, <3>1 DEF Owns
      <4>2. /\ target[t] = None /\ priv[i][t].moved # mem[i].entry[t].orig
            /\ priv'[i][t].moved = None /\ target'[t] = priv[i][t].moved
            /\ priv'[i][t].backup = priv[i][t].backup
        BY <1>9, <2>2, <2>3, <2>4, <2>5 DEF PutBack
      <4> QED
        BY <4>1, <4>2 DEF FilesAt, Known
    <3>3. s = t => (OwnerAt(i, s)' /\ StepAt(i, s)')
      BY <1>9, <2>1, <2>2, <2>3, <2>4, <2>5, <2>6, <3>1, SMTT(60) DEF PutBack,
         OwnerAt, Publishing, StepAt, Owns, Frame
    <3>4. s # t => (Sure(i) => FilesAt(i, s)')
      BY <2>4, <2>5, <2>6, <3>1, FilesKept
    <3>5. s # t => (OwnerAt(i, s)' /\ StepAt(i, s)')
      BY <1>9, <2>1, <2>2, <2>3, <2>4, <2>5, <2>6, <3>1, SMTT(60) DEF PutBack,
         OwnerAt, Publishing, StepAt, Owns, Frame
    <3> QED
      BY <3>2, <3>3, <3>4, <3>5
  <2> QED
    BY <2>1, <2>2, <2>3, <2>4, <2>5, <2>6, <2>7, <2>8, <2>9, LockedStep DEF
       Owns, Holds, Locked, Working, Publishing, Resolving, AtTarget
<1>10. CASE Install(i)
  <2>1. /\ Owns(i) /\ pc[i] = "installing"
        /\ To(i, "installed") /\ pc'[i] = "installed"
    BY <1>10, OwnerKnows DEF Install, At, To, TypeInv, TypeOK, Publishing
  <2>2. PICK t \in Targets : t = cur[i]
    BY <2>1 DEF Owns, Holds, AtTarget, Publishing
  <2> DEFINE q == [priv[i][t] EXCEPT !.cand = FALSE]
  <2>3. /\ q \in PrivFile /\ ~ q.cand
        /\ q.source = priv[i][t].source /\ q.backup = priv[i][t].backup
        /\ q.moved = priv[i][t].moved
        /\ q.copy = priv[i][t].copy /\ q.stray = priv[i][t].stray
    BY <2>1, <2>2 DEF Owns, Holds, PrivFile
  <2>4. /\ priv' \in [Inv -> [Targets -> PrivFile]] /\ priv'[i][t] = q
        /\ \A s \in Targets : s # t => priv'[i][s] = priv[i][s]
        /\ \A v \in Inv : v # i => priv'[v] = priv[v]
    BY <1>10, <2>1, <2>2, <2>3, PrivateIs DEF Install, Owns, Holds
  <2> HIDE DEF q
  <2>5. /\ target' \in [Targets -> Files \cup {None}] /\ target'[t] = New(i)
        /\ \A s \in Targets : s # t => target'[s] = target[s]
    BY <1>10, <2>1, <2>2, <2>3, <2>4, FileFacts, Types DEF Install, Owns,
       Holds, PrivFile
  <2>6. /\ Frame(i, i) /\ UNCHANGED <<rec, mem, cur, refused>>
    BY <1>10, <2>1, <2>2, <2>3, <2>4, <2>5 DEF Install, Frame, Owns, Holds,
       disk, journal, local, history, TypeInv, TypeOK, PrivFile
  <2>7. AgreeAt(i)'
    BY <2>1, <2>2, <2>3, <2>4, <2>5, <2>6 DEF AgreeAt, Frame, Owns, Holds,
       Publishing, Resolving, RollingBack
  <2>8. \A s \in Targets : Moves(i, s)
    <3>1. ASSUME NEW s \in Targets, s # t PROVE Moves(i, s)
      BY <2>1, <2>2, <2>3, <2>4, <2>5, <2>6, <3>1 DEF Moves
    <3>2. Moves(i, t)
      BY <1>10, <2>1, <2>2, <2>3, <2>4, <2>5, <2>6, FileFacts DEF Install,
         BundleAssumption, Moves, Origs, Owns, Holds, OwnerAt
    <3> QED
      BY <3>1, <3>2
  <2>9. ASSUME NEW s \in Targets PROVE (Sure(i) => FilesAt(i, s)') /\ OwnerAt(i, s)'
    <3>1. (Sure(i) => FilesAt(i, s)) /\ OwnerAt(i, s)
      BY <2>1 DEF Owns, Holds
    <3>2. s = t => (Sure(i) => FilesAt(i, s)')
      <4> SUFFICES ASSUME s = t, Sure(i) PROVE FilesAt(i, t)'
        OBVIOUS
      <4>1. rec'[i] = rec[i] /\ rec[i] = mem[i] /\ FilesAt(i, t)
        BY <2>1, <2>6, <3>1 DEF Owns
      <4>2. /\ target[t] = None /\ target'[t] = New(i)
            /\ priv'[i][t].moved = priv[i][t].moved /\ priv'[i][t].backup = priv[i][t].backup
        BY <1>10, <2>2, <2>3, <2>4, <2>5 DEF Install
      <4>3. mem[i].entry[t].cand
        BY <2>1, <2>2, <3>1 DEF OwnerAt
      <4> QED
        BY <4>1, <4>2, <4>3 DEF FilesAt, Known
    <3>3. s = t => (OwnerAt(i, s)')
      BY <2>1, <2>2, <2>3, <2>4, <2>6, <3>1 DEF OwnerAt
    <3>4. s # t => (Sure(i) => FilesAt(i, s)')
      BY <2>4, <2>5, <2>6, <3>1, FilesKept
    <3>5. s # t => (OwnerAt(i, s)')
      BY <1>10, <2>1, <2>2, <2>3, <2>4, <2>5, <2>6, <3>1 DEF Install, OwnerAt,
         Publishing, Owns, Frame
    <3> QED
      BY <3>2, <3>3, <3>4, <3>5
  <2> QED
    BY <2>1, <2>2, <2>3, <2>4, <2>5, <2>6, <2>7, <2>8, <2>9, LockedStep DEF
       Owns, Holds, Locked, Working, Publishing, Resolving, AtTarget
<1>11. CASE Installed(i)
  <2>1. PICK next \in {"complete", "committing"} :
          Owns(i) /\ pc[i] = "installed" /\ To(i, next) /\ pc'[i] = next
    BY <1>11, OwnerKnows DEF Installed, At, To, TypeInv, TypeOK, Publishing
  <2>2. PICK t \in Targets : t = cur[i]
    BY <2>1 DEF Owns, Holds, AtTarget
  <2>3. next = "complete" => \A s \in Targets : mem[i].entry[s].cand
    BY <1>11, <2>1 DEF Installed, At, To, TypeInv, TypeOK
  <2>4. /\ Frame(i, i) /\ UNCHANGED <<priv, target, rec, mem, refused>>
        /\ target[t] = New(i)
    BY <1>11, <2>1, <2>2 DEF Installed, Frame, Owns, Holds, disk, journal,
       history, TypeInv, TypeOK, PrivFile
  <2>5. AgreeAt(i)'
    BY <2>1, <2>4 DEF AgreeAt, Frame, Owns, Holds, Publishing, Resolving,
       RollingBack
  <2>6. \A s \in Targets : Moves(i, s)
    BY <2>4, StillMoves DEF Owns, Holds
  <2>7. ASSUME NEW s \in Targets PROVE (Sure(i) => FilesAt(i, s)') /\ OwnerAt(i, s)'
    <3>1. (Sure(i) => FilesAt(i, s)) /\ OwnerAt(i, s)
      BY <2>1 DEF Owns, Holds
    <3>2. Sure(i) => FilesAt(i, s)'
      BY <2>4, <3>1 DEF FilesAt, Known, Owns, Frame
    <3>3. OwnerAt(i, s)'
      BY <2>1, <2>2, <2>4, <3>1 DEF OwnerAt, Publishing, Owns, Frame
    <3> QED
      BY <3>2, <3>3
  <2> QED
    BY <2>1, <2>4, <2>5, <2>6, <2>7, LockedStep DEF Owns, Holds, Locked,
       Working, Publishing, Resolving, AtTarget
<1>12. CASE Validated(i)
  <2>1. /\ Owns(i) /\ pc[i] = "complete"
        /\ To(i, "validated") /\ pc'[i] = "validated"
    BY <1>12, OwnerKnows DEF Validated, At, To, TypeInv, TypeOK, Publishing
  <2>2. PICK r : r = [mem[i] EXCEPT !.validated = TRUE]
    OBVIOUS
  <2>3. /\ r \in Record_ /\ r.entry = mem[i].entry /\ r.validated
    BY <2>1, <2>2 DEF Owns, Record_
  <2>4. /\ rec' \in [Inv -> Record_ \cup {None}] /\ mem' \in [Inv -> Record_ \cup {None}]
        /\ rec'[i] = r /\ mem'[i] = r /\ r # None /\ UNCHANGED row
        /\ \A v \in Inv : v # i => rec'[v] = rec[v]
        /\ \A j \in Inv : j # i => mem'[j] = mem[j]
    <3>1. Persist(i, r)
      BY <1>12, <2>2 DEF Validated
    <3> QED
      BY <2>1, <2>3, <3>1, PersistIs DEF Owns, Holds
  <2>5. /\ Frame(i, i) /\ UNCHANGED <<priv, target, cur, refused>>
    BY <1>12, <2>1, <2>3, <2>4 DEF Validated, Frame, Owns, Holds, disk,
       journal, local, history, TypeInv, TypeOK, PrivFile
  <2>6. AgreeAt(i)'
    BY <2>1, <2>3, <2>4, <2>5 DEF AgreeAt, Frame, Owns, Holds, Publishing,
       Resolving, RollingBack
  <2>7. \A s \in Targets : Moves(i, s)
    BY <2>1, <2>3, <2>4, <2>5, StillMoves DEF Owns, Holds
  <2>8. ASSUME NEW s \in Targets
        PROVE  (Sure(i) => FilesAt(i, s)') /\ OwnerAt(i, s)' /\ StepAt(i, s)'
    BY <1>12, <2>1, <2>3, <2>4, <2>5, SMTT(60) DEF Validated, FilesAt, OwnerAt,
       Known, Publishing, Owns, Holds, Frame, Sure, StepAt
  <2> QED
    BY <2>1, <2>3, <2>4, <2>5, <2>6, <2>7, <2>8, LockedStep DEF Owns, Holds,
       Locked, Working, Publishing, Resolving, AtTarget
<1>13. CASE ValidatedFails(i)
  <2>1. /\ Owns(i) /\ pc[i] = "complete"
        /\ To(i, "unpublish") /\ pc'[i] = "unpublish"
    BY <1>13, OwnerKnows DEF ValidatedFails, At, To, TypeInv, TypeOK,
       Publishing
  <2>2. /\ mem' \in [Inv -> Record_ \cup {None}] /\ \A j \in Inv : j # i => mem'[j] = mem[j]
        /\ mem'[i] # None /\ mem'[i].entry = mem[i].entry /\ mem'[i].validated
        /\ UNCHANGED rec
    <3>1. PICK r : r = [mem[i] EXCEPT !.validated = TRUE]
      OBVIOUS
    <3>2. r \in Record_ /\ r.entry = mem[i].entry /\ r.validated
      BY <2>1, <3>1 DEF Owns, Record_
    <3> QED
      BY <1>13, <3>1, <3>2 DEF ValidatedFails, journal, TypeInv,
         BundleAssumption
  <2>3. /\ Frame(i, i) /\ UNCHANGED <<priv, target, cur, refused>>
    BY <1>13, <2>1, <2>2 DEF ValidatedFails, Frame, Owns, Holds, disk, journal,
       local, history, TypeInv, TypeOK, PrivFile
  <2>4. AgreeAt(i)'
    BY <2>1, <2>2, <2>3 DEF AgreeAt, Frame, Owns, Holds, Publishing, Resolving,
       RollingBack
  <2>5. \A s \in Targets : Moves(i, s)
    BY <2>1, <2>2, <2>3, StillMoves DEF Owns, Holds
  <2>6. ASSUME NEW s \in Targets
        PROVE  (Sure(i) => FilesAt(i, s)') /\ OwnerAt(i, s)' /\ StepAt(i, s)'
    BY <1>13, <2>1, <2>2, <2>3, SMTT(60) DEF ValidatedFails, FilesAt, OwnerAt,
       Known, Publishing, Owns, Holds, Frame, Sure, StepAt
  <2> QED
    BY <2>1, <2>2, <2>3, <2>4, <2>5, <2>6, LockedStep DEF Owns, Holds, Locked,
       Working, Publishing, Resolving, AtTarget
<1>14. CASE Fail(i)
  <2>1. /\ Owns(i) /\ pc[i] \in Publishing
        /\ To(i, "unpublish") /\ pc'[i] = "unpublish"
    BY <1>14, OwnerKnows DEF Fail, At, To, TypeInv, TypeOK, Publishing
  <2>2. PICK f : f = [s \in Targets |-> [priv[i][s] EXCEPT !.cand = FALSE]]
    OBVIOUS
  <2>3. /\ f \in [Targets -> PrivFile]
        /\ \A s \in Targets : /\ f[s].source = priv[i][s].source
                              /\ f[s].backup = priv[i][s].backup
                              /\ f[s].moved = priv[i][s].moved /\ ~ f[s].cand
                              /\ f[s].copy = priv[i][s].copy /\ f[s].stray = priv[i][s].stray
    BY <2>1, <2>2 DEF Owns, PrivFile
  <2>4. /\ priv' \in [Inv -> [Targets -> PrivFile]] /\ priv'[i] = f
        /\ \A v \in Inv : v # i => priv'[v] = priv[v]
    BY <1>14, <2>1, <2>2, <2>3, PrivatesAre DEF Fail, Owns, Holds
  <2>5. /\ Frame(i, i) /\ UNCHANGED <<target, rec, mem, refused>>
        /\ cur' = [cur EXCEPT ![i] = None] /\ cur'[i] = None
    BY <1>14, <2>1, <2>3, <2>4 DEF Fail, Frame, Owns, Holds, disk, journal,
       local, history, TypeInv, TypeOK, PrivFile
  <2>6. AgreeAt(i)'
    BY <2>1, <2>3, <2>4, <2>5 DEF AgreeAt, Frame, Owns, Holds, Publishing,
       Resolving, RollingBack
  <2>7. \A s \in Targets : Moves(i, s)
    BY <2>1, <2>3, <2>4, <2>5, StillMoves DEF Owns, Holds
  <2>8. ASSUME NEW s \in Targets
        PROVE  (Sure(i) => FilesAt(i, s)') /\ OwnerAt(i, s)' /\ StepAt(i, s)'
    <3>1. (Sure(i) => FilesAt(i, s)) /\ OwnerAt(i, s)
      BY <2>1 DEF Owns, Holds
    <3>2. /\ priv'[i][s].moved = priv[i][s].moved /\ priv'[i][s].backup = priv[i][s].backup
          /\ priv'[i][s].copy = priv[i][s].copy /\ priv'[i][s].stray = priv[i][s].stray
          /\ ~ priv'[i][s].cand
      BY <2>3, <2>4
    <3>3. Sure(i) => FilesAt(i, s)'
      BY <2>5, <3>1, <3>2 DEF FilesAt, Known
    <3>4. OwnerAt(i, s)'
      BY <2>1, <2>5, <3>1, <3>2 DEF OwnerAt, Publishing
    <3>5. StepAt(i, s)'
      BY <2>1 DEF StepAt
    <3> QED
      BY <3>3, <3>4, <3>5
  <2> QED
    BY <2>1, <2>5, <2>6, <2>7, <2>8, LockedStep DEF Owns, Holds, Locked,
       Working, AtTarget
<1> QED
  BY <1>1, <1>2, <1>3, <1>4, <1>5, <1>6, <1>7, <1>8, <1>9, <1>10, <1>11, <1>12,
     <1>13, <1>14

(* So do those by which one rolls back, cleans up and finishes.             *)
LEMMA ResolverSteps ==
  ASSUME BundleAssumption, BundleInv, NEW i \in Inv,
         \/ (\E t \in Targets : Unpublish(i, t)) \/ Unpublished(i)
         \/ InstallCopy(i) \/ Restored(i)
         \/ (\E t \in Targets : Restoring(i, t)) \/ RolledBack(i)
         \/ RollbackFails(i) \/ Sweep(i) \/ CleanupCommitted(i) \/ Finish(i)
         \/ FinishFails(i)
  PROVE  BundleInv'
<1> USE BundleAssumption
<1>a. TypeInv
  BY DEF BundleInv
<1> USE <1>a
<1>1. ASSUME NEW t \in Targets, Unpublish(i, t) PROVE BundleInv'
  <2>1. pc[i] = "unpublish" /\ To(i, "unpublish") /\ pc'[i] = "unpublish"
    BY <1>1 DEF Unpublish, At, To, TypeInv, TypeOK
  <2>2. PICK w \in Inv : Resolves(i, w) /\ w = work[i]
    BY <2>1, ResolverKnows DEF Resolving, Resolves
  <2>3. pc[i] = "unpublish" /\ To(i, "unpublish") /\ pc'[i] = "unpublish" /\ Resolves(i, w)
        /\ w = work[i]
    BY <2>1, <2>2
  <2>4. \A s \in Targets : Sees(i, w, s)
    BY <2>3, ResolverSees
  <2>5. /\ target' \in [Targets -> Files \cup {None}] /\ target'[t] = None
        /\ \A s \in Targets : s # t => target'[s] = target[s]
    BY <1>1, <2>3, FileFacts, Types, <2>4 DEF Unpublish, Sees, Holds, PrivFile
  <2>6. /\ Frame(i, w) /\ UNCHANGED <<priv, rec, mem, cur, refused>>
    BY <1>1, <2>3, <2>5 DEF Unpublish, Frame, Resolves, Holds, disk, journal,
       local, history, TypeInv, TypeOK, PrivFile
  <2>7. AgreeAt(i)'
    BY <2>3, <2>5, <2>6, StillAgrees DEF Frame, Resolving, RollingBack
  <2>8. \A s \in Targets : Moves(w, s)
    <3>1. ASSUME NEW s \in Targets, s # t PROVE Moves(w, s)
      BY <2>3, <2>5, <2>6, <3>1 DEF Moves
    <3>2. Moves(w, t)
      BY <1>1, <2>3, <2>5, <2>6, FileFacts, <2>4, SMTT(60) DEF Unpublish,
         BundleAssumption, Moves, Origs, Sees
    <3> QED
      BY <3>1, <3>2
  <2>9. ASSUME NEW s \in Targets
        PROVE  (Sure(w) => FilesAt(w, s)') /\ (w = i => OwnerAt(i, s)') /\ StepAt(i, s)'
    <3>1. Sees(i, w, s)
      BY <2>4
    <3>2. s = t => (Sure(w) => FilesAt(w, s)')
      BY <1>1, <2>3, <2>5, <2>6, <3>1, FileFacts DEF Unpublish, FilesAt, Known,
         Sure, Sees
    <3>3. s = t => (w = i => OwnerAt(i, s)')
      BY <1>1, <2>3, <2>5, <2>6, <3>1 DEF Unpublish, OwnerAt, Publishing, Sees,
         Frame
    <3>4. s = t => (StepAt(i, s)')
      BY <1>1, <2>3, <2>5, <2>6, <3>1, FileFacts DEF Unpublish, StepAt, Sure,
         Sees, Frame
    <3>5. s # t => (Sure(w) => FilesAt(w, s)')
      BY <1>1, <2>3, <2>5, <2>6, <3>1, FileFacts DEF Unpublish, FilesAt, Known,
         Sure, Sees
    <3>6. s # t => (w = i => OwnerAt(i, s)')
      BY <1>1, <2>3, <2>5, <2>6, <3>1 DEF Unpublish, OwnerAt, Publishing, Sees,
         Frame
    <3>7. s # t => (StepAt(i, s)')
      BY <1>1, <2>3, <2>5, <2>6, <3>1, FileFacts DEF Unpublish, StepAt, Sure,
         Sees, Frame
    <3> QED
      BY <3>2, <3>3, <3>4, <3>5, <3>6, <3>7
  <2>10. w # i /\ Sure(w) /\ w \in refused' => RefusedAt(w)'
    <3>1. w # i /\ Sure(w) /\ w \in refused' => RefusedAt(w) /\ mem[i] = rec[w]
      BY <2>3, <2>5, <2>6 DEF Resolves, Holds
    <3> QED
      BY <1>1, <2>3, <2>5, <2>6, <3>1 DEF Unpublish, RefusedAt, Resolves,
         Holds, AgreeAt, RollingBack, Frame
  <2> QED
    BY <2>3, <2>5, <2>6, <2>7, <2>8, <2>9, <2>10, LockedStep DEF Resolves,
       Holds, Frame, Locked, Working, Publishing, Resolving, AtTarget
<1>2. CASE Unpublished(i)
  <2>1. pc[i] = "unpublish" /\ To(i, "restore") /\ pc'[i] = "restore"
    BY <1>2 DEF Unpublished, At, To, TypeInv, TypeOK
  <2>2. PICK w \in Inv : Resolves(i, w) /\ w = work[i]
    BY <2>1, ResolverKnows DEF Resolving, Resolves
  <2>3. pc[i] = "unpublish" /\ To(i, "restore") /\ pc'[i] = "restore" /\ Resolves(i, w)
        /\ w = work[i]
    BY <2>1, <2>2
  <2>4. \A s \in Targets : Sees(i, w, s)
    BY <2>3, ResolverSees
  <2>5. /\ Frame(i, w) /\ UNCHANGED <<priv, target, rec, mem, cur, refused>>
    BY <1>2, <2>3 DEF Unpublished, Frame, Resolves, Holds, disk, journal,
       local, history, TypeInv, TypeOK, PrivFile
  <2>6. AgreeAt(i)'
    BY <2>3, <2>5, StillAgrees DEF Frame, Resolving, RollingBack
  <2>7. \A s \in Targets : Moves(w, s)
    BY <2>3, <2>5, StillMoves DEF Resolves, Holds
  <2>8. ASSUME NEW s \in Targets
        PROVE  (Sure(w) => FilesAt(w, s)') /\ (w = i => OwnerAt(i, s)') /\ StepAt(i, s)'
    <3>1. Sees(i, w, s)
      BY <2>4
    <3>2. Sure(w) => FilesAt(w, s)'
      BY <1>2, <2>3, <2>5, <3>1, FileFacts DEF Unpublished, FilesAt, Known,
         Sure, Sees
    <3>3. w = i => OwnerAt(i, s)'
      BY <1>2, <2>3, <2>5, <3>1 DEF Unpublished, OwnerAt, Publishing, Sees,
         Frame
    <3>4. StepAt(i, s)'
      BY <1>2, <2>3, <2>5, <3>1, FileFacts DEF Unpublished, StepAt, Sure, Sees,
         Frame
    <3> QED
      BY <3>2, <3>3, <3>4
  <2>9. w # i /\ Sure(w) /\ w \in refused' => RefusedAt(w)'
    <3>1. w # i /\ Sure(w) /\ w \in refused' => RefusedAt(w) /\ mem[i] = rec[w]
      BY <2>3, <2>5 DEF Resolves, Holds
    <3> QED
      BY <1>2, <2>3, <2>5, <3>1 DEF Unpublished, RefusedAt, Resolves, Holds,
         AgreeAt, RollingBack, Frame
  <2> QED
    BY <2>3, <2>5, <2>6, <2>7, <2>8, <2>9, LockedStep DEF Resolves, Holds,
       Frame, Locked, Working, Publishing, Resolving, AtTarget
<1>3. CASE InstallCopy(i)
  <2>1. pc[i] = "restoring" /\ To(i, "restored") /\ pc'[i] = "restored"
    BY <1>3 DEF InstallCopy, At, To, TypeInv, TypeOK
  <2>2. PICK w \in Inv : Resolves(i, w) /\ w = work[i]
    BY <2>1, ResolverKnows DEF Resolving, Resolves
  <2>3. pc[i] = "restoring" /\ To(i, "restored") /\ pc'[i] = "restored" /\ Resolves(i, w)
        /\ w = work[i]
    BY <2>1, <2>2
  <2>4. \A s \in Targets : Sees(i, w, s)
    BY <2>3, ResolverSees
  <2>5. PICK t \in Targets : t = cur[i]
    BY <2>3 DEF Resolves, Holds, AtTarget, Publishing
  <2>6. /\ target[t] = None /\ mem[i].entry[t].orig # None /\ mem[i].entry[t].rest
        /\ t \in Links => priv[w][t].moved \in {None, mem[i].entry[t].orig}
    BY <1>3, <2>3, <2>5, <2>4 DEF InstallCopy, Sees, StepAt
  <2> DEFINE q == IF t \in Links THEN [priv[w][t] EXCEPT !.moved = None]
                ELSE [priv[w][t] EXCEPT !.copy = FALSE]
  <2>7. /\ q \in PrivFile /\ (t \in Links => q.moved = None /\ q.copy = priv[w][t].copy)
        /\ (t \notin Links => q.moved = priv[w][t].moved /\ ~ q.copy)
        /\ q.source = priv[w][t].source /\ q.backup = priv[w][t].backup
        /\ q.cand = priv[w][t].cand
        /\ q.stray = priv[w][t].stray
    <3>1. priv[w][t] \in PrivFile
      BY <2>3 DEF Resolves
    <3>2. CASE t \in Links
      BY <3>1, <3>2 DEF PrivFile
    <3>3. CASE t \notin Links
      BY <3>1, <3>3 DEF PrivFile
    <3> QED
      BY <3>2, <3>3
  <2>8. /\ priv' \in [Inv -> [Targets -> PrivFile]] /\ priv'[w][t] = q
        /\ \A s \in Targets : s # t => priv'[w][s] = priv[w][s]
        /\ \A v \in Inv : v # w => priv'[v] = priv[v]
    <3>1. Private(i, t, q)
      BY <1>3, <2>3, <2>5 DEF InstallCopy
    <3> QED
      BY <2>3, <2>7, <3>1, PrivateIs
  <2> HIDE DEF q
  <2>9. /\ target' \in [Targets -> Files \cup {None}]
        /\ target'[t] = IF t \in Links THEN mem[i].entry[t].orig
                           ELSE File(mem[i].entry[t].orig.content, w)
        /\ \A s \in Targets : s # t => target'[s] = target[s]
    <3>1. /\ mem[i].entry[t].orig \in Files
          /\ File(mem[i].entry[t].orig.content, w) \in Files
      BY <2>4, <2>6 DEF Sees, EntryOf
    <3> QED
      BY <1>3, <2>3, <2>5, <3>1 DEF InstallCopy, TypeInv, TypeOK
  <2>10. /\ target'[t] # New(w) /\ target'[t] # None
         /\ ContentOf(target'[t]) = ContentOf(mem[i].entry[t].orig)
         /\ target'[t] \in {mem[i].entry[t].orig, File(mem[i].entry[t].orig.content, w)}
    BY <2>4, <2>6, <2>9 DEF Sees
  <2>11. /\ Frame(i, w) /\ UNCHANGED <<rec, mem, cur, refused>>
    BY <1>3, <2>3, <2>5, <2>6, <2>7, <2>8, <2>9, <2>10, ZenonT(120) DEF
       InstallCopy, Frame, Resolves, Holds, disk, journal, local, history,
       TypeInv, TypeOK, PrivFile
  <2>12. AgreeAt(i)'
    BY <2>3, <2>5, <2>6, <2>7, <2>8, <2>9, <2>10, <2>11, StillAgrees DEF Frame,
       Resolving, RollingBack
  <2>13. \A s \in Targets : Moves(w, s)
    <3>1. ASSUME NEW s \in Targets, s # t PROVE Moves(w, s)
      BY <2>3, <2>5, <2>6, <2>7, <2>8, <2>9, <2>10, <2>11, <3>1 DEF Moves
    <3>2. Moves(w, t)
      <4>1. rec[w] # None /\ mem[i].entry[t].orig = rec[w].entry[t].orig
        BY <2>4 DEF Sees
      <4>2. \/ priv'[w][t].moved = priv[w][t].moved
            \/ priv'[w][t].moved = None /\ priv[w][t].moved \in {None, mem[i].entry[t].orig}
        BY <2>6, <2>7, <2>8
      <4> QED
        BY <2>6, <2>10, <4>1, <4>2, MovesAt
    <3> QED
      BY <3>1, <3>2
  <2>14. ASSUME NEW s \in Targets
         PROVE  (Sure(w) => FilesAt(w, s)') /\ (w = i => OwnerAt(i, s)') /\ StepAt(i, s)'
    <3>1. Sees(i, w, s)
      BY <2>4
    <3>2. s = t => (Sure(w) => FilesAt(w, s)')
      <4> SUFFICES ASSUME s = t, Sure(w) PROVE FilesAt(w, t)'
        OBVIOUS
      <4>1. /\ rec'[w] = rec[w] /\ rec[w].entry[t] = mem[i].entry[t] /\ FilesAt(w, t)
        BY <2>11, <3>1 DEF Sees
      <4>2. priv'[w][t].moved \in {None, mem[i].entry[t].orig}
        BY <2>6, <2>7, <2>8, <4>1 DEF FilesAt
      <4> QED
        BY <2>6, <2>10, <4>1, <4>2 DEF FilesAt, Known
    <3>3. s = t => (w = i => OwnerAt(i, s)')
      <4> SUFFICES ASSUME s = t, w = i PROVE OwnerAt(i, t)'
        OBVIOUS
      <4>1. OwnerAt(i, t) /\ UNCHANGED <<mem, cur, touched>>
        BY <2>11, <3>1 DEF Sees, Frame
      <4>2. /\ priv'[i][t].stray = priv[i][t].stray /\ priv'[i][t].cand = priv[i][t].cand
            /\ ~ priv'[i][t].copy
        BY <2>7, <2>8, <4>1 DEF OwnerAt
      <4> QED
        BY <2>3, <4>1, <4>2 DEF OwnerAt, Publishing
    <3>4. s = t => (StepAt(i, s)')
      <4> SUFFICES ASSUME s = t PROVE StepAt(i, t)'
        OBVIOUS
      <4>1. /\ ~ priv[w][t].backup => priv[w][t].moved \in {None, mem[i].entry[t].orig}
            /\ work'[i] = w /\ UNCHANGED <<rec, mem, cur>>
        BY <2>3, <2>5, <2>11, <3>1 DEF Sees, StepAt, Frame
      <4> QED
        BY <2>3, <2>6, <2>7, <2>8, <2>10, <4>1 DEF StepAt
    <3>5. s # t => (Sure(w) => FilesAt(w, s)')
      BY <2>5, <2>6, <2>8, <2>9, <2>11, <3>1, FilesKept DEF Sees
    <3>6. s # t => (w = i => OwnerAt(i, s)')
      BY <2>3, <2>5, <2>8, <2>11, <3>1 DEF OwnerAt, Publishing, Sees, Frame
    <3>7. s # t => (StepAt(i, s)')
      BY <2>3, <2>5, <2>6, <2>7, <2>8, <2>9, <2>10, <2>11, <3>1 DEF StepAt,
         Sure, Sees, Frame
    <3> QED
      BY <3>2, <3>3, <3>4, <3>5, <3>6, <3>7
  <2>15. w # i /\ Sure(w) /\ w \in refused' => RefusedAt(w)'
    <3>1. w # i /\ Sure(w) /\ w \in refused' => RefusedAt(w) /\ mem[i] = rec[w]
      BY <2>3, <2>5, <2>6, <2>7, <2>8, <2>9, <2>10, <2>11 DEF Resolves, Holds
    <3>2. w # i => ~ mem[i].validated
      BY <2>3 DEF Resolves, Holds, AgreeAt, RollingBack
    <3> QED
      BY <2>7, <2>8, <2>11, <3>1, <3>2 DEF RefusedAt
  <2> QED
    BY <2>3, <2>5, <2>6, <2>7, <2>8, <2>9, <2>10, <2>11, <2>12, <2>13, <2>14,
       <2>15, LockedStep DEF Resolves, Holds, Frame, Locked, Working,
       Publishing, Resolving, AtTarget
<1>4. CASE Restored(i)
  <2>1. pc[i] = "restored" /\ To(i, "restore") /\ pc'[i] = "restore"
    BY <1>4 DEF Restored, At, To, TypeInv, TypeOK
  <2>2. PICK w \in Inv : Resolves(i, w) /\ w = work[i]
    BY <2>1, ResolverKnows DEF Resolving, Resolves
  <2>3. pc[i] = "restored" /\ To(i, "restore") /\ pc'[i] = "restore" /\ Resolves(i, w)
        /\ w = work[i]
    BY <2>1, <2>2
  <2>4. \A s \in Targets : Sees(i, w, s)
    BY <2>3, ResolverSees
  <2>5. PICK t \in Targets : t = cur[i]
    BY <2>3 DEF Resolves, Holds, AtTarget, Publishing
  <2>6. /\ target[t] # New(w) /\ (Sure(w) => target[t] # None)
        /\ ~ priv[w][t].backup => priv[w][t].moved \in {None, mem[i].entry[t].orig}
    BY <1>4, <2>3, <2>5, <2>4 DEF Restored, Sees, StepAt
  <2> DEFINE q == IF priv[w][t].backup THEN [priv[w][t] EXCEPT !.backup = FALSE]
                ELSE [priv[w][t] EXCEPT !.moved = None]
  <2>7. /\ q \in PrivFile /\ ~ q.backup
        /\ (priv[w][t].backup => q.moved = priv[w][t].moved)
        /\ (~ priv[w][t].backup => q.moved = None)
        /\ q.source = priv[w][t].source /\ q.cand = priv[w][t].cand /\ q.copy = priv[w][t].copy
        /\ q.stray = priv[w][t].stray
    <3>1. priv[w][t] \in PrivFile
      BY <2>3 DEF Resolves
    <3>2. CASE priv[w][t].backup
      BY <3>1, <3>2 DEF PrivFile
    <3>3. CASE ~ priv[w][t].backup
      BY <3>1, <3>3 DEF PrivFile
    <3> QED
      BY <3>2, <3>3
  <2>8. /\ priv' \in [Inv -> [Targets -> PrivFile]] /\ priv'[w][t] = q
        /\ \A s \in Targets : s # t => priv'[w][s] = priv[w][s]
        /\ \A v \in Inv : v # w => priv'[v] = priv[v]
    <3>1. Private(i, t, q)
      BY <1>4, <2>3, <2>5 DEF Restored
    <3> QED
      BY <2>3, <2>7, <3>1, PrivateIs
  <2> HIDE DEF q
  <2>9. /\ Frame(i, w) /\ UNCHANGED <<target, rec, mem, refused>>
        /\ cur' = [cur EXCEPT ![i] = None] /\ cur'[i] = None
    BY <1>4, <2>3, <2>5, <2>6, <2>7, <2>8 DEF Restored, Frame, Resolves, Holds,
       disk, journal, local, history, TypeInv, TypeOK, PrivFile
  <2>10. AgreeAt(i)'
    BY <2>3, <2>5, <2>6, <2>7, <2>8, <2>9, StillAgrees DEF Frame, Resolving,
       RollingBack
  <2>11. \A s \in Targets : Moves(w, s)
    <3>1. ASSUME NEW s \in Targets PROVE Moves(w, s)
      <4>1. Sees(i, w, s)
        BY <2>4
      <4>2. CASE s = t
        BY <2>3, <2>5, <2>6, <2>7, <2>8, <2>9, <4>1, <4>2, MovesAt DEF Sees
      <4>3. CASE s # t
        BY <2>3, <2>5, <2>6, <2>7, <2>8, <2>9, <4>1, <4>3, MovesAt DEF Sees
      <4> QED
        BY <4>2, <4>3
    <3> QED
      BY <3>1
  <2>12. ASSUME NEW s \in Targets
         PROVE  (Sure(w) => FilesAt(w, s)') /\ (w = i => OwnerAt(i, s)') /\ StepAt(i, s)'
    <3>1. Sees(i, w, s)
      BY <2>4
    <3>2. s = t => (Sure(w) => FilesAt(w, s)')
      BY <2>3, <2>5, <2>6, <2>7, <2>8, <2>9, <3>1, FileFacts, ZenonT(120) DEF
         FilesAt, Known, Sure, Sees
    <3>3. s = t => (w = i => OwnerAt(i, s)')
      BY <2>3, <2>7, <2>8, <2>9, <3>1 DEF OwnerAt, Publishing, Sees, Frame
    <3>4. s = t => (StepAt(i, s)')
      BY <2>3, <2>5, <2>6, <2>7, <2>8, <2>9, <3>1, FileFacts DEF StepAt, Sure,
         Sees, Frame
    <3>5. s # t => (Sure(w) => FilesAt(w, s)')
      BY <2>3, <2>5, <2>6, <2>7, <2>8, <2>9, <3>1, FileFacts DEF FilesAt,
         Known, Sure, Sees
    <3>6. s # t => (w = i => OwnerAt(i, s)')
      BY <2>3, <2>5, <2>6, <2>7, <2>8, <2>9, <3>1 DEF OwnerAt, Publishing,
         Sees, Frame
    <3>7. s # t => (StepAt(i, s)')
      BY <2>3, <2>5, <2>6, <2>7, <2>8, <2>9, <3>1, FileFacts DEF StepAt, Sure,
         Sees, Frame
    <3> QED
      BY <3>2, <3>3, <3>4, <3>5, <3>6, <3>7
  <2>13. w # i /\ Sure(w) /\ w \in refused' => RefusedAt(w)'
    <3>1. w # i /\ Sure(w) /\ w \in refused' => RefusedAt(w) /\ mem[i] = rec[w]
      BY <2>3, <2>5, <2>6, <2>7, <2>8, <2>9 DEF Resolves, Holds
    <3> QED
      BY <2>3, <2>5, <2>6, <2>7, <2>8, <2>9, <3>1 DEF RefusedAt, Resolves,
         Holds, AgreeAt, RollingBack, Frame
  <2> QED
    BY <2>3, <2>5, <2>6, <2>7, <2>8, <2>9, <2>10, <2>11, <2>12, <2>13,
       LockedStep DEF Resolves, Holds, Frame, Locked, Working, Publishing,
       Resolving, AtTarget
<1>5. ASSUME NEW t \in Targets, Restoring(i, t) PROVE BundleInv'
  <2>1. pc[i] = "restore" /\ To(i, "restoring") /\ pc'[i] = "restoring"
    BY <1>5 DEF Restoring, At, To, TypeInv, TypeOK
  <2>2. PICK w \in Inv : Resolves(i, w) /\ w = work[i]
    BY <2>1, ResolverKnows DEF Resolving, Resolves
  <2>3. pc[i] = "restore" /\ To(i, "restoring") /\ pc'[i] = "restoring" /\ Resolves(i, w)
        /\ w = work[i]
    BY <2>1, <2>2
  <2>4. \A s \in Targets : Sees(i, w, s)
    BY <2>3, ResolverSees
  <2>5. /\ target[t] = None /\ mem[i].entry[t].orig # None /\ mem[i].entry[t].attempted
        /\ priv[w][t].backup \/ priv[w][t].moved = mem[i].entry[t].orig
    BY <1>5, <2>3, <2>4 DEF Restoring, Missing
  <2> DEFINE q == IF t \in Links THEN priv[w][t]
                ELSE [priv[w][t] EXCEPT !.copy = TRUE, !.stray = @ \/ priv[w][t].copy]
  <2>6. /\ q \in PrivFile /\ (t \in Links => q = priv[w][t])
        /\ (t \notin Links => q.copy /\ (q.stray <=> priv[w][t].stray \/ priv[w][t].copy))
        /\ q.source = priv[w][t].source /\ q.backup = priv[w][t].backup
        /\ q.moved = priv[w][t].moved
        /\ q.cand = priv[w][t].cand
    <3>1. priv[w][t] \in PrivFile
      BY <2>3 DEF Resolves
    <3>2. CASE t \in Links
      BY <3>1, <3>2
    <3>3. CASE t \notin Links
      BY <3>1, <3>3 DEF PrivFile
    <3> QED
      BY <3>2, <3>3
  <2>7. /\ priv' \in [Inv -> [Targets -> PrivFile]] /\ priv'[w][t] = q
        /\ \A s \in Targets : s # t => priv'[w][s] = priv[w][s]
        /\ \A v \in Inv : v # w => priv'[v] = priv[v]
    <3>1. CASE t \in Links
      <4>1. UNCHANGED priv /\ q = priv[w][t]
        BY <1>5, <3>1 DEF Restoring
      <4> QED
        BY <2>3, <4>1, Types
    <3>2. CASE t \notin Links
      <4>1. Private(i, t, q)
        BY <1>5, <2>3, <3>2 DEF Restoring
      <4> QED
        BY <2>3, <2>6, <4>1, PrivateIs
    <3> QED
      BY <3>1, <3>2
  <2> HIDE DEF q
  <2> DEFINE e == [mem[i].entry[t] EXCEPT !.rest = TRUE]
  <2>8. /\ e \in EntryOf /\ e.rest
        /\ e.orig = mem[i].entry[t].orig /\ e.backup = mem[i].entry[t].backup
        /\ e.attempted = mem[i].entry[t].attempted
        /\ e.cand = mem[i].entry[t].cand
    BY <2>3, ZenonT(120) DEF Resolves, Holds, EntryOf
  <2>9. /\ rec' \in [Inv -> Record_ \cup {None}] /\ mem' \in [Inv -> Record_ \cup {None}]
        /\ rec'[w] = mem'[i] /\ mem'[i] # None /\ UNCHANGED row
        /\ mem'[i].entry[t] = e /\ mem'[i].validated = mem[i].validated
        /\ \A s \in Targets : s # t => mem'[i].entry[s] = mem[i].entry[s]
        /\ \A v \in Inv : v # w => rec'[v] = rec[v]
        /\ \A j \in Inv : j # i => mem'[j] = mem[j]
    BY <1>5, <2>3, <2>5, <2>6, <2>7, <2>8, EntryIs DEF Restoring, Resolves,
       Holds
  <2> HIDE DEF e
  <2>10. rec[w] # None /\ \A s \in Targets : rec'[w].entry[s].orig = rec[w].entry[s].orig
    <3>1. rec[w] # None /\ \A s \in Targets : mem[i].entry[s].orig = rec[w].entry[s].orig
      BY <2>3 DEF Resolves, Holds, AgreeAt
    <3> QED
      BY <2>3, <2>5, <2>6, <2>7, <2>8, <2>9, <3>1, SMTT(60)
  <2>11. /\ UNCHANGED <<target, touched, holder, work, history>>
         /\ cur' = [cur EXCEPT ![i] = t]
    BY <1>5, <2>3 DEF Restoring
  <2>12. /\ Frame(i, w) /\ UNCHANGED <<target, refused>>
         /\ cur' = [cur EXCEPT ![i] = t] /\ cur'[i] = t
    BY <2>3, <2>5, <2>6, <2>7, <2>8, <2>9, <2>10, <2>11, ZenonT(120) DEF Frame,
       Resolves, Holds, disk, journal, local, history, TypeInv, TypeOK,
       PrivFile
  <2>13. AgreeAt(i)'
    BY <2>3, <2>9, <2>12, StillAgrees DEF Frame, Resolving, RollingBack
  <2>14. \A s \in Targets : Moves(w, s)
    <3>1. ASSUME NEW s \in Targets PROVE Moves(w, s)
      <4>1. Sees(i, w, s)
        BY <2>4
      <4>2. CASE s = t
        BY <2>3, <2>5, <2>6, <2>7, <2>8, <2>9, <2>10, <2>11, <2>12, <4>1, <4>2,
           MovesAt, ZenonT(120) DEF Sees
      <4>3. CASE s # t
        BY <2>3, <2>5, <2>6, <2>7, <2>8, <2>9, <2>10, <2>11, <2>12, <4>1, <4>3,
           MovesAt DEF Sees
      <4> QED
        BY <4>2, <4>3
    <3> QED
      BY <3>1
  <2>15. ASSUME NEW s \in Targets
         PROVE  (Sure(w) => FilesAt(w, s)') /\ (w = i => OwnerAt(i, s)') /\ StepAt(i, s)'
    <3>1. Sees(i, w, s)
      BY <2>4
    <3>2. s = t => (Sure(w) => FilesAt(w, s)')
      <4> SUFFICES ASSUME s = t, Sure(w) PROVE FilesAt(w, t)'
        OBVIOUS
      <4>1. /\ rec[w].entry[t] = mem[i].entry[t] /\ FilesAt(w, t) /\ target'[t] = target[t]
            /\ rec[w].validated => rec'[w].validated
        BY <2>9, <2>12, <3>1, Types DEF Sees
      <4>2. /\ rec'[w].entry[t] = e /\ e.orig = mem[i].entry[t].orig /\ e.orig # None
            /\ e.rest /\ e.attempted /\ (e.cand <=> mem[i].entry[t].cand)
        BY <2>5, <2>8, <2>9
      <4>3. /\ priv'[w][t].moved = priv[w][t].moved
            /\ priv'[w][t].backup <=> priv[w][t].backup
        BY <2>6, <2>7
      <4> QED
        BY <2>5, <4>1, <4>2, <4>3 DEF FilesAt, Known
    <3>3. s = t => (w = i => OwnerAt(i, s)')
      BY <2>3, <2>5, <2>6, <2>7, <2>8, <2>9, <2>10, <2>11, <2>12, <3>1,
         SMTT(60) DEF OwnerAt, Publishing, Sees, Frame
    <3>4. s = t => (StepAt(i, s)')
      <4> SUFFICES ASSUME s = t PROVE StepAt(i, t)'
        OBVIOUS
      <4>1. target'[t] = None /\ target'[t] # New(w) /\ work'[i] = w
        BY <2>3, <2>5, <2>12, FileFacts DEF Frame
      <4>2. /\ mem'[i].entry[t].rest /\ mem'[i].entry[t].orig # None
            /\ mem'[i].entry[t].orig = mem[i].entry[t].orig
        BY <2>5, <2>8, <2>9
      <4>3. ~ priv'[w][t].backup => priv'[w][t].moved = mem'[i].entry[t].orig
        BY <2>5, <2>6, <2>7, <4>2
      <4> QED
        BY <2>3, <4>1, <4>2, <4>3 DEF StepAt
    <3>5. s # t => (Sure(w) => FilesAt(w, s)')
      BY <2>5, <2>6, <2>7, <2>8, <2>9, <2>12, <3>1, SMTT(60) DEF FilesAt,
         Known, Sure, Sees
    <3>6. s # t => (w = i => OwnerAt(i, s)')
      BY <2>3, <2>7, <2>11, <3>1 DEF OwnerAt, Publishing, Sees
    <3>7. s # t => (StepAt(i, s)')
      BY <2>3, <2>5, <2>6, <2>7, <2>8, <2>9, <2>12, <3>1 DEF StepAt, Sure,
         Sees, Frame
    <3> QED
      BY <3>2, <3>3, <3>4, <3>5, <3>6, <3>7
  <2>16. w # i /\ Sure(w) /\ w \in refused' => RefusedAt(w)'
    <3>1. w # i /\ Sure(w) /\ w \in refused' => RefusedAt(w) /\ mem[i] = rec[w]
      BY <2>3, <2>5, <2>6, <2>7, <2>8, <2>9, <2>10, <2>11, <2>12 DEF Resolves,
         Holds
    <3>2. w # i => ~ mem[i].validated
      BY <2>3 DEF Resolves, Holds, AgreeAt, RollingBack
    <3> QED
      BY <2>6, <2>7, <2>9, <3>1, <3>2 DEF RefusedAt
  <2> QED
    BY <2>3, <2>9, <2>10, <2>12, <2>13, <2>14, <2>15, <2>16, LockedStep DEF
       Locked, Working, Resolving
<1>6. CASE RolledBack(i)
  <2>1. pc[i] = "restore" /\ To(i, "sweep") /\ pc'[i] = "sweep"
    BY <1>6 DEF RolledBack, At, To, TypeInv, TypeOK
  <2>2. PICK w \in Inv : Resolves(i, w) /\ w = work[i]
    BY <2>1, ResolverKnows DEF Resolving, Resolves
  <2>3. pc[i] = "restore" /\ To(i, "sweep") /\ pc'[i] = "sweep" /\ Resolves(i, w)
        /\ w = work[i]
    BY <2>1, <2>2
  <2>4. \A s \in Targets : Sees(i, w, s)
    BY <2>3, ResolverSees
  <2>5. /\ Frame(i, w) /\ UNCHANGED <<priv, target, rec, mem, cur, refused>>
    BY <1>6, <2>3 DEF RolledBack, Frame, Resolves, Holds, disk, journal, local,
       history, TypeInv, TypeOK, PrivFile
  <2>6. AgreeAt(i)'
    BY <2>3, <2>5, StillAgrees DEF Frame, Resolving, RollingBack
  <2>7. \A s \in Targets : Moves(w, s)
    BY <2>3, <2>5, StillMoves DEF Resolves, Holds
  <2>8. ASSUME NEW s \in Targets
        PROVE  (Sure(w) => FilesAt(w, s)') /\ (w = i => OwnerAt(i, s)') /\ StepAt(i, s)'
    <3>1. Sees(i, w, s)
      BY <2>4
    <3>2. Sure(w) => FilesAt(w, s)'
      BY <1>6, <2>3, <2>5, <3>1, FileFacts DEF RolledBack, FilesAt, Known,
         Sure, Sees
    <3>3. w = i => OwnerAt(i, s)'
      BY <1>6, <2>3, <2>5, <3>1 DEF RolledBack, OwnerAt, Publishing, Sees,
         Frame
    <3>4. StepAt(i, s)'
      BY <1>6, <2>3, <2>5, <3>1, FileFacts DEF RolledBack, StepAt, Sure, IsOld,
         Sees, Frame
    <3> QED
      BY <3>2, <3>3, <3>4
  <2>9. w # i /\ Sure(w) /\ w \in refused' => RefusedAt(w)'
    <3>1. w # i /\ Sure(w) /\ w \in refused' => RefusedAt(w) /\ mem[i] = rec[w]
      BY <2>3, <2>5 DEF Resolves, Holds
    <3> QED
      BY <1>6, <2>3, <2>5, <3>1 DEF RolledBack, RefusedAt, Resolves, Holds,
         AgreeAt, RollingBack, Frame
  <2> QED
    BY <2>3, <2>5, <2>6, <2>7, <2>8, <2>9, LockedStep DEF Resolves, Holds,
       Frame, Locked, Working, Publishing, Resolving, AtTarget
<1>7. CASE RollbackFails(i)
  <2>1. pc[i] = "restore" /\ To(i, "closing") /\ pc'[i] = "closing"
    BY <1>7 DEF RollbackFails, At, To, TypeInv, TypeOK
  <2>2. PICK w \in Inv : Resolves(i, w) /\ w = work[i]
    BY <2>1, ResolverKnows DEF Resolving, Resolves
  <2>3. pc[i] = "restore" /\ To(i, "closing") /\ pc'[i] = "closing" /\ Resolves(i, w)
        /\ w = work[i]
    BY <2>1, <2>2
  <2>4. \A s \in Targets : Sees(i, w, s)
    BY <2>3, ResolverSees
  <2>5. /\ Frame(i, w) /\ UNCHANGED <<priv, target, rec, mem, cur>>
    BY <1>7, <2>3 DEF RollbackFails, Frame, Resolves, Holds, disk, journal,
       local, history, TypeInv, TypeOK, PrivFile
  <2>6. AgreeAt(i)'
    BY <2>3, <2>5, StillAgrees DEF Frame, Resolving, RollingBack
  <2>7. \A s \in Targets : Moves(w, s)
    BY <2>3, <2>5, StillMoves DEF Resolves, Holds
  <2>8. ASSUME NEW s \in Targets
        PROVE  (Sure(w) => FilesAt(w, s)') /\ (w = i => OwnerAt(i, s)') /\ StepAt(i, s)'
    <3>1. Sees(i, w, s)
      BY <2>4
    <3>2. Sure(w) => FilesAt(w, s)'
      BY <1>7, <2>3, <2>5, <3>1, FileFacts DEF RollbackFails, FilesAt, Known,
         Sure, Sees
    <3>3. w = i => OwnerAt(i, s)'
      BY <1>7, <2>3, <2>5, <3>1 DEF RollbackFails, OwnerAt, Publishing, Sees,
         Frame
    <3>4. StepAt(i, s)'
      BY <1>7, <2>3, <2>5, <3>1, FileFacts DEF RollbackFails, StepAt, Sure,
         Sees, Frame
    <3> QED
      BY <3>2, <3>3, <3>4
  <2>9. ASSUME w # i, Sure(w) PROVE w \in refused' => RefusedAt(w)'
    <3>1. ~ mem[i].validated /\ mem[i] = rec[w]
      BY <2>3, <2>9 DEF Resolves, Holds, AgreeAt, RollingBack
    <3>2. ASSUME NEW s \in Targets
          PROVE  /\ target[s] = None \/ IsOld(i, s)
                 /\ Missing(i, s) => /\ mem[i].entry[s].attempted
                                     /\ \/ priv[w][s].backup
                                        \/ priv[w][s].moved = mem[i].entry[s].orig
      <4>1. /\ FilesAt(w, s) /\ StepAt(i, s)
            /\ rec[w].entry[s] = mem[i].entry[s]
        BY <2>4, <2>9 DEF Sees
      <4>2. target[s] # New(w)
        BY <2>3, <4>1 DEF StepAt
      <4> QED
        BY <2>3, <3>1, <4>1, <4>2 DEF FilesAt, Known, IsOld, Missing
    <3> QED
      BY <1>7, <2>3, <3>2 DEF RollbackFails
  <2> QED
    BY <1>7, <2>3, <2>5, <2>6, <2>7, <2>8, <2>9, LockedStep DEF RollbackFails,
       Resolves, Holds, Frame, Locked, Working, Publishing, Resolving, AtTarget
<1>8. CASE Sweep(i)
  <2>1. pc[i] = "sweep" /\ To(i, "finish") /\ pc'[i] = "finish"
    BY <1>8 DEF Sweep, At, To, TypeInv, TypeOK
  <2>2. PICK w \in Inv : Resolves(i, w) /\ w = work[i]
    BY <2>1, ResolverKnows DEF Resolving, Resolves
  <2>3. pc[i] = "sweep" /\ To(i, "finish") /\ pc'[i] = "finish" /\ Resolves(i, w)
        /\ w = work[i]
    BY <2>1, <2>2
  <2>4. \A s \in Targets : Sees(i, w, s)
    BY <2>3, ResolverSees
  <2>5. w # i => ~ mem[i].validated
    BY <1>8, <2>3, <2>4 DEF Sweep, Resolves, Holds, AgreeAt, RollingBack
  <2>6. PICK f : f = [s \in Targets |-> Swept(priv[w][s], mem[i], s)]
    OBVIOUS
  <2>7. /\ f \in [Targets -> PrivFile]
        /\ \A s \in Targets : /\ ~ f[s].source /\ ~ f[s].backup
                              /\ priv[w][s].moved = mem[i].entry[s].orig => f[s].moved = None
                              /\ priv[w][s].moved # mem[i].entry[s].orig =>
                                   f[s].moved = priv[w][s].moved
                              /\ f[s].cand = priv[w][s].cand
                              /\ f[s].copy = priv[w][s].copy /\ f[s].stray = priv[w][s].stray
    <3>1. ASSUME NEW s \in Targets
          PROVE  f[s] = Swept(priv[w][s], mem[i], s) /\ priv[w][s] \in PrivFile
      BY <2>4, <2>6 DEF Sees
    <3>2. ASSUME NEW s \in Targets
          PROVE  /\ f[s] \in PrivFile /\ ~ f[s].source /\ ~ f[s].backup
                 /\ priv[w][s].moved = mem[i].entry[s].orig => f[s].moved = None
                 /\ priv[w][s].moved # mem[i].entry[s].orig =>
                      f[s].moved = priv[w][s].moved
                 /\ f[s].cand = priv[w][s].cand
                 /\ f[s].copy = priv[w][s].copy /\ f[s].stray = priv[w][s].stray
      <4>1. PICK q, p, r : q = f[s] /\ p = priv[w][s] /\ r = mem[i]
        OBVIOUS
      <4>2. p \in PrivFile /\ q = Swept(p, r, s)
        BY <3>1, <4>1
      <4>3. /\ q \in PrivFile /\ ~ q.source /\ ~ q.backup
            /\ p.moved = r.entry[s].orig => q.moved = None
            /\ p.moved # r.entry[s].orig => q.moved = p.moved
            /\ q.cand = p.cand /\ q.copy = p.copy /\ q.stray = p.stray
        BY <4>2, SweptIs
      <4> QED
        BY <4>1, <4>3
    <3> QED
      BY <2>6, <3>2
  <2>8. /\ priv' \in [Inv -> [Targets -> PrivFile]]
        /\ \A v \in Inv : v # w => priv'[v] = priv[v]
        /\ priv'[w] = f
    BY <1>8, <2>3, <2>6, <2>7, PrivatesAre, Types DEF Sweep, Resolves, Holds
  <2>9. /\ Frame(i, w) /\ UNCHANGED <<target, rec, mem, cur, refused>>
    BY <1>8, <2>3, <2>5, <2>7, <2>8 DEF Sweep, Frame, Resolves, Holds, disk,
       journal, local, history, TypeInv, TypeOK, PrivFile
  <2>10. AgreeAt(i)'
    BY <2>3, <2>5, <2>7, <2>8, <2>9, StillAgrees DEF Frame, Resolving,
       RollingBack
  <2>11. \A s \in Targets : Moves(w, s)
    <3>1. ASSUME NEW s \in Targets PROVE Moves(w, s)
      <4>1. Sees(i, w, s)
        BY <2>4
      <4> QED
        BY <2>3, <2>5, <2>7, <2>8, <2>9, <4>1, MovesAt, SMTT(60) DEF Sees
    <3> QED
      BY <3>1
  <2>12. ASSUME NEW s \in Targets
         PROVE  (Sure(w) => FilesAt(w, s)') /\ (w = i => OwnerAt(i, s)') /\ StepAt(i, s)'
    <3>1. Sees(i, w, s)
      BY <2>4
    <3>2. Sure(w) => FilesAt(w, s)'
      BY <2>3, <2>5, <2>7, <2>8, <2>9, <3>1, FileFacts DEF FilesAt, Known,
         Sure, StepAt, IsOld, Sees
    <3>3. w = i => OwnerAt(i, s)'
      BY <2>3, <2>5, <2>7, <2>8, <2>9, <3>1 DEF OwnerAt, Publishing, Sees,
         Frame
    <3>4. StepAt(i, s)'
      BY <2>3, <2>5, <2>7, <2>8, <2>9, <3>1, FileFacts DEF StepAt, Sure, IsOld,
         Sees, Frame
    <3> QED
      BY <3>2, <3>3, <3>4
  <2>13. w # i /\ Sure(w) /\ w \in refused' => RefusedAt(w)'
    <3>1. w # i /\ Sure(w) /\ w \in refused' => RefusedAt(w) /\ mem[i] = rec[w]
      BY <2>3, <2>5, <2>7, <2>8, <2>9 DEF Resolves, Holds
    <3> QED
      BY <2>3, <2>5, <2>7, <2>8, <2>9, <3>1 DEF RefusedAt, Resolves, Holds,
         AgreeAt, RollingBack, Frame
  <2> QED
    BY <2>3, <2>5, <2>7, <2>8, <2>9, <2>10, <2>11, <2>12, <2>13, LockedStep DEF
       Resolves, Holds, Frame, Locked, Working, Publishing, Resolving, AtTarget
<1>9. CASE CleanupCommitted(i)
  <2>1. pc[i] = "validated" /\ To(i, "finish") /\ pc'[i] = "finish"
    BY <1>9 DEF CleanupCommitted, At, To, TypeInv, TypeOK
  <2>2. PICK w \in Inv : Resolves(i, w) /\ w = work[i]
    BY <2>1, ResolverKnows DEF Resolving, Resolves
  <2>3. pc[i] = "validated" /\ To(i, "finish") /\ pc'[i] = "finish" /\ Resolves(i, w)
        /\ w = work[i]
    BY <2>1, <2>2
  <2>4. \A s \in Targets : Sees(i, w, s)
    BY <2>3, ResolverSees
  <2>5. mem[i].validated /\ (Sure(w) => rec[w] = mem[i])
    BY <1>9, <2>3, <2>4 DEF CleanupCommitted, Resolves, Holds, AgreeAt, Sure
  <2>6. PICK f : f = [s \in Targets |-> Swept(priv[w][s], mem[i], s)]
    OBVIOUS
  <2>7. /\ f \in [Targets -> PrivFile]
        /\ \A s \in Targets : /\ ~ f[s].source /\ ~ f[s].backup
                              /\ priv[w][s].moved = mem[i].entry[s].orig => f[s].moved = None
                              /\ priv[w][s].moved # mem[i].entry[s].orig =>
                                   f[s].moved = priv[w][s].moved
                              /\ f[s].cand = priv[w][s].cand
                              /\ f[s].copy = priv[w][s].copy /\ f[s].stray = priv[w][s].stray
    <3>1. ASSUME NEW s \in Targets
          PROVE  f[s] = Swept(priv[w][s], mem[i], s) /\ priv[w][s] \in PrivFile
      BY <2>4, <2>6 DEF Sees
    <3>2. ASSUME NEW s \in Targets
          PROVE  /\ f[s] \in PrivFile /\ ~ f[s].source /\ ~ f[s].backup
                 /\ priv[w][s].moved = mem[i].entry[s].orig => f[s].moved = None
                 /\ priv[w][s].moved # mem[i].entry[s].orig =>
                      f[s].moved = priv[w][s].moved
                 /\ f[s].cand = priv[w][s].cand
                 /\ f[s].copy = priv[w][s].copy /\ f[s].stray = priv[w][s].stray
      <4>1. PICK q, p, r : q = f[s] /\ p = priv[w][s] /\ r = mem[i]
        OBVIOUS
      <4>2. p \in PrivFile /\ q = Swept(p, r, s)
        BY <3>1, <4>1
      <4>3. /\ q \in PrivFile /\ ~ q.source /\ ~ q.backup
            /\ p.moved = r.entry[s].orig => q.moved = None
            /\ p.moved # r.entry[s].orig => q.moved = p.moved
            /\ q.cand = p.cand /\ q.copy = p.copy /\ q.stray = p.stray
        BY <4>2, SweptIs
      <4> QED
        BY <4>1, <4>3
    <3> QED
      BY <2>6, <3>2
  <2>8. /\ priv' \in [Inv -> [Targets -> PrivFile]]
        /\ \A v \in Inv : v # w => priv'[v] = priv[v]
        /\ priv'[w] = f
    BY <1>9, <2>3, <2>6, <2>7, PrivatesAre, Types, SMTT(60) DEF
       CleanupCommitted, Resolves, Holds
  <2>9. /\ Frame(i, w) /\ UNCHANGED <<target, rec, mem, cur, refused>>
    BY <1>9, <2>3, <2>5, <2>7, <2>8 DEF CleanupCommitted, Frame, Resolves,
       Holds, disk, journal, local, history, TypeInv, TypeOK, PrivFile
  <2>10. AgreeAt(i)'
    BY <2>3, <2>5, <2>7, <2>8, <2>9, StillAgrees DEF Frame, Resolving,
       RollingBack
  <2>11. \A s \in Targets : Moves(w, s)
    <3>1. ASSUME NEW s \in Targets PROVE Moves(w, s)
      <4>1. Sees(i, w, s)
        BY <2>4
      <4> QED
        BY <2>3, <2>5, <2>7, <2>8, <2>9, <4>1, MovesAt, SMTT(60) DEF Sees
    <3> QED
      BY <3>1
  <2>12. ASSUME NEW s \in Targets
         PROVE  (Sure(w) => FilesAt(w, s)') /\ (w = i => OwnerAt(i, s)') /\ StepAt(i, s)'
    <3>1. Sees(i, w, s)
      BY <2>4
    <3>2. Sure(w) => FilesAt(w, s)'
      BY <2>3, <2>5, <2>7, <2>8, <2>9, <3>1, FileFacts DEF FilesAt, Known,
         Sure, Sees
    <3>3. w = i => OwnerAt(i, s)'
      BY <2>3, <2>5, <2>7, <2>8, <2>9, <3>1 DEF OwnerAt, Publishing, Sees,
         Frame
    <3>4. StepAt(i, s)'
      BY <2>3, <2>5, <2>7, <2>8, <2>9, <3>1, FileFacts DEF StepAt, Sure, Sees,
         Frame
    <3> QED
      BY <3>2, <3>3, <3>4
  <2>13. w # i /\ Sure(w) /\ w \in refused' => RefusedAt(w)'
    <3>1. w # i /\ Sure(w) /\ w \in refused' => RefusedAt(w) /\ mem[i] = rec[w]
      BY <2>3, <2>5, <2>7, <2>8, <2>9 DEF Resolves, Holds
    <3> QED
      BY <2>3, <2>5, <2>7, <2>8, <2>9, <3>1 DEF RefusedAt, Resolves, Holds,
         AgreeAt, RollingBack, Frame
  <2> QED
    BY <2>3, <2>5, <2>7, <2>8, <2>9, <2>10, <2>11, <2>12, <2>13, LockedStep,
       ZenonT(120) DEF Resolves, Holds, Frame, Locked, Working, Publishing,
       Resolving, AtTarget
<1>10. CASE Finish(i)
  <2>1. pc[i] = "finish" /\ To(i, "recording") /\ pc'[i] = "recording"
    BY <1>10 DEF Finish, At, To, TypeInv, TypeOK
  <2>2. PICK w \in Inv : Resolves(i, w) /\ w = work[i]
    BY <2>1, ResolverKnows DEF Resolving, Resolves
  <2>3. pc[i] = "finish" /\ To(i, "recording") /\ pc'[i] = "recording" /\ Resolves(i, w)
        /\ w = work[i]
    BY <2>1, <2>2
  <2>4. \A s \in Targets : Sees(i, w, s)
    BY <2>3, ResolverSees
  <2>5. /\ w # i => \A s \in Targets : priv[w][s].moved \in {None, mem[i].entry[s].orig}
        /\ \A s \in Targets : IF mem[i].validated THEN target[s] = New(w) ELSE IsOld(i, s)
    BY <1>10, <2>3, <2>4 DEF Finish, Cleanable, Verified
  <2>6. PICK f : f = [s \in Targets |-> NoPriv]
    OBVIOUS
  <2>7. /\ f \in [Targets -> PrivFile]
        /\ \A s \in Targets : f[s] = NoPriv
    BY <2>6, Types
  <2>8. /\ priv' \in [Inv -> [Targets -> PrivFile]]
        /\ \A v \in Inv : v # w => priv'[v] = priv[v]
        /\ IF w = i THEN UNCHANGED priv ELSE \A s \in Targets : priv'[w][s] = NoPriv
    BY <1>10, <2>3, <2>6, <2>7, PrivatesAre, Types DEF Finish, Resolves, Holds
  <2>9. ASSUME NEW s \in Targets, Sure(w)
        PROVE  /\ priv'[w][s] = NoPriv
               /\ IF mem[i].validated THEN target[s] = New(w)
                  ELSE ContentOf(target[s]) = ContentOf(rec[w].entry[s].orig)
    <3>1. ASSUME w = i PROVE priv[w][s] = NoPriv
      <4>1. /\ ~ priv[w][s].source /\ ~ priv[w][s].backup /\ priv[w][s].moved = None
            /\ ~ priv[w][s].cand /\ ~ priv[w][s].copy /\ ~ priv[w][s].stray
        BY <2>4, <2>3, <2>9, <3>1 DEF Sees, OwnerAt, FilesAt, Sure
      <4>2. priv[w][s] \in PrivFile
        BY <2>4 DEF Sees
      <4> QED
        BY <4>1, <4>2 DEF PrivFile, NoPriv
    <3>2. IF mem[i].validated THEN target[s] = New(w)
          ELSE ContentOf(target[s]) = ContentOf(rec[w].entry[s].orig)
      <4>1. /\ rec[w].entry[s] = mem[i].entry[s] /\ FilesAt(w, s)
            /\ mem[i].entry[s].orig # None =>
                 ContentOf(File(mem[i].entry[s].orig.content, w))
                   = ContentOf(mem[i].entry[s].orig)
        BY <2>4, <2>9 DEF Sees
      <4>2. mem[i].entry[s].rest => mem[i].entry[s].orig # None
        BY <4>1 DEF FilesAt
      <4> QED
        BY <2>3, <2>5, <4>1, <4>2 DEF IsOld
    <3> QED
      BY <2>8, <2>9, <3>1, <3>2
  <2>10. /\ Frame(i, w) /\ UNCHANGED <<target, rec, mem, cur, refused>>
    BY <1>10, <2>3, <2>5, <2>8, <2>9 DEF Finish, Frame, Resolves, Holds, disk,
       journal, local, history, TypeInv, TypeOK, PrivFile, NoPriv
  <2>11. AgreeAt(i)'
    BY <2>3, <2>5, <2>8, <2>9, <2>10, StillAgrees DEF Frame, Resolving,
       RollingBack
  <2>12. \A s \in Targets : Moves(w, s)
    <3>1. ASSUME NEW s \in Targets PROVE Moves(w, s)
      <4>1. Sees(i, w, s)
        BY <2>4
      <4>2. NoPriv.moved = None
        BY DEF NoPriv
      <4>5. \/ priv'[w][s] = priv[w][s]
            \/ w # i /\ priv'[w][s].moved = None
        BY <2>8, <4>2
      <4>3. rec[w] # None /\ mem[i].entry[s].orig = rec[w].entry[s].orig
        BY <4>1 DEF Sees
      <4>4. w # i => priv[w][s].moved \in {None, mem[i].entry[s].orig}
        BY <2>5
      <4> QED
        BY <2>10, <4>3, <4>4, <4>5, MovesAt
    <3> QED
      BY <3>1
  <2>13. ASSUME NEW s \in Targets
         PROVE  (Sure(w) => FilesAt(w, s)') /\ (w = i => OwnerAt(i, s)') /\ StepAt(i, s)'
    <3>1. Sees(i, w, s)
      BY <2>4
    <3>2. ASSUME Sure(w) PROVE FilesAt(w, s)'
      <4>1. /\ FilesAt(w, s) /\ rec[w].entry[s] = mem[i].entry[s]
            /\ w # i => rec[w] = mem[i]
        BY <3>1, <3>2 DEF Sees
      <4>2. priv'[w][s] = NoPriv /\ Known(w, rec[w], s)'
        BY <2>9, <2>10, <3>2, <4>1 DEF FilesAt, Known
      <4>3. CASE w = i
        BY <2>8, <2>10, <4>1, <4>2, <4>3 DEF FilesAt
      <4>4. ASSUME w # i, ~ rec[w].validated, mem[i].entry[s].orig # None
            PROVE  target[s] \notin {None, New(w)}
        BY <2>3, <2>5, <3>1, <4>1, <4>4 DEF Sees, IsOld
      <4>5. CASE w # i
        BY <2>10, <4>1, <4>2, <4>4, <4>5 DEF FilesAt, NoPriv
      <4> QED
        BY <4>3, <4>5
    <3>3. w = i => OwnerAt(i, s)'
      BY <2>3, <2>5, <2>8, <2>9, <2>10, <3>1 DEF OwnerAt, Publishing, Sees,
         Frame, NoPriv
    <3>4. StepAt(i, s)'
      BY <2>3, <2>5, <2>8, <2>9, <2>10, <3>1, FileFacts DEF StepAt, Sure, Sees,
         Frame, NoPriv
    <3> QED
      BY <3>2, <3>3, <3>4
  <2>14. ASSUME w # i, Sure(w) PROVE w \in refused' => RefusedAt(w)'
    <3>1. ~ RefusedAt(w)
      BY <1>10, <2>4, <2>3, <2>14 DEF Finish, Verified, Cleanable, RefusedAt,
         Resolves
    <3> QED
      BY <2>3, <2>10, <2>14, <3>1 DEF Resolves, Holds
  <2> QED
    BY <2>3, <2>5, <2>8, <2>9, <2>10, <2>11, <2>12, <2>13, <2>14, LockedStep
       DEF Resolves, Holds, Frame, Locked, Working, Publishing, Resolving,
       AtTarget
<1>11. CASE FinishFails(i)
  <2>1. pc[i] = "finish" /\ To(i, "closing") /\ pc'[i] = "closing"
    BY <1>11 DEF FinishFails, At, To, TypeInv, TypeOK
  <2>2. PICK w \in Inv : Resolves(i, w) /\ w = work[i]
    BY <2>1, ResolverKnows DEF Resolving, Resolves
  <2>3. pc[i] = "finish" /\ To(i, "closing") /\ pc'[i] = "closing" /\ Resolves(i, w)
        /\ w = work[i]
    BY <2>1, <2>2
  <2>4. \A s \in Targets : Sees(i, w, s)
    BY <2>3, ResolverSees
  <2>5. /\ Frame(i, w) /\ UNCHANGED <<priv, target, rec, mem, cur>>
    BY <1>11, <2>3 DEF FinishFails, Frame, Resolves, Holds, disk, journal,
       local, history, TypeInv, TypeOK, PrivFile
  <2>6. AgreeAt(i)'
    BY <2>3, <2>5, StillAgrees DEF Frame, Resolving, RollingBack
  <2>7. \A s \in Targets : Moves(w, s)
    BY <2>3, <2>5, StillMoves DEF Resolves, Holds
  <2>8. ASSUME NEW s \in Targets
        PROVE  (Sure(w) => FilesAt(w, s)') /\ (w = i => OwnerAt(i, s)') /\ StepAt(i, s)'
    <3>1. Sees(i, w, s)
      BY <2>4
    <3>2. Sure(w) => FilesAt(w, s)'
      BY <1>11, <2>3, <2>5, <3>1, FileFacts DEF FinishFails, FilesAt, Known,
         Sure, Sees
    <3>3. w = i => OwnerAt(i, s)'
      BY <1>11, <2>3, <2>5, <3>1 DEF FinishFails, OwnerAt, Publishing, Sees,
         Frame
    <3>4. StepAt(i, s)'
      BY <1>11, <2>3, <2>5, <3>1, FileFacts DEF FinishFails, StepAt, Sure,
         Sees, Frame
    <3> QED
      BY <3>2, <3>3, <3>4
  <2>9. ASSUME w # i, Sure(w) PROVE w \in refused' => RefusedAt(w)'
    <3>1. ASSUME NEW s \in Targets
          PROVE  /\ IF mem[i].validated THEN target[s] = New(w) ELSE IsOld(i, s)
                 /\ priv[w][s].moved \in {None, mem[i].entry[s].orig}
      BY <2>4, <2>3, <2>9 DEF Sees, FilesAt, StepAt
    <3>2. \E s \in Targets : priv[w][s].stray
      BY <1>11, <2>3, <3>1 DEF FinishFails, Verified, Cleanable
    <3> QED
      BY <2>5, <3>2 DEF RefusedAt
  <2> QED
    BY <1>11, <2>3, <2>5, <2>6, <2>7, <2>8, <2>9, LockedStep DEF FinishFails,
       Resolves, Holds, Frame, Locked, Working, Publishing, Resolving, AtTarget
<1> QED
  BY <1>1, <1>2, <1>3, <1>4, <1>5, <1>6, <1>7, <1>8, <1>9, <1>10, <1>11

-------------------------------------------------------------------------------
(* A step that changes no file and no record keeps what they say, also if  *)
(* it opens an operation that has none yet.                                *)
LEMMA QuietFiles ==
  ASSUME BundleInv, UNCHANGED <<target, priv, touched, rec>>, misjudged \subseteq misjudged',
         \A w \in Inv : row'[w] \in Open => row[w] \in Open \/ rec[w] = None
  PROVE  FreshInv' /\ OwnInv' /\ LinkInv' /\ FilesInv' /\ ForeignFilesSurvive'
<1>1. FreshInv' /\ OwnInv' /\ LinkInv'
  BY DEF BundleInv, FreshInv, FreshAt, OwnInv, LinkInv, ContentOf
<1>2. FilesInv'
  BY DEF BundleInv, FilesInv, FilesAt, Known, Sure
<1>3. ForeignFilesSurvive'
  BY DEF BundleInv, ForeignFilesSurvive, ContentOf
<1> QED
  BY <1>1, <1>2, <1>3

(* Such a step of an invocation leaves what is said of the others.         *)
Apart(i) ==
  /\ UNCHANGED <<target, priv, touched, rec>> /\ misjudged \subseteq misjudged'
  /\ \A w \in Inv : row'[w] \in Open => row[w] \in Open \/ rec[w] = None
  /\ mem' \in [Inv -> Record_ \cup {None}] /\ work' \in [Inv -> Inv]
  /\ cur' \in [Inv -> Targets \cup {None}] /\ pc' \in [Inv -> {"new", "done"} \cup Working]
  /\ misjudged' \subseteq Inv /\ refused' \subseteq Inv /\ holder' \in Inv \cup {None}
  /\ row' \in [Inv -> {"absent", "COMMITTED", "ABORTED"} \cup Open]
  /\ \A j \in Inv : j # i => /\ mem'[j] = mem[j] /\ work'[j] = work[j] /\ cur'[j] = cur[j]
                             /\ pc'[j] = pc[j]

(* A step that touches no file and no record of others keeps the           *)
(* invariant.                                                              *)
LEMMA ApartStep ==
  ASSUME BundleInv, NEW i \in Inv, Apart(i), LockInv', WorkInv', RefusedInv', AgreeAt(i)',
         pc'[i] \in Locked /\ work'[i] = i => \A t \in Targets : OwnerAt(i, t)',
         pc'[i] \in Resolving => \A t \in Targets : StepAt(i, t)',
         pc'[i] \notin AtTarget
  PROVE  BundleInv'
<1> USE DEF BundleInv
<1>1. TypeInv'
  BY DEF Apart, TypeInv, TypeOK, IsRecord
<1>2. FreshInv' /\ OwnInv' /\ LinkInv' /\ FilesInv' /\ ForeignFilesSurvive'
  BY QuietFiles DEF Apart
<1>3. AgreeInv'
  <2>1. ASSUME NEW j \in Inv, j # i PROVE AgreeAt(j)'
    BY <2>1 DEF Apart, AgreeInv, AgreeAt
  <2> QED
    BY <2>1 DEF AgreeInv
<1>4. OwnerInv'
  <2>1. ASSUME NEW j \in Inv, j # i, pc'[j] \in Locked, work'[j] = j, NEW t \in Targets
        PROVE  OwnerAt(j, t)'
    BY <2>1 DEF Apart, OwnerInv, OwnerAt
  <2> QED
    BY <2>1 DEF OwnerInv
<1>5. StepInv'
  <2>1. ASSUME NEW j \in Inv, j # i, pc'[j] \in Resolving, NEW t \in Targets
        PROVE  StepAt(j, t)'
    <3>1. StepAt(j, t) /\ work[j] \in Inv
      BY <2>1 DEF Apart, StepInv, TypeInv, TypeOK
    <3> QED
      <4>1. /\ UNCHANGED <<target, priv, rec>> /\ mem'[j] = mem[j] /\ work'[j] = work[j]
            /\ cur'[j] = cur[j] /\ pc'[j] = pc[j]
        BY <2>1 DEF Apart
      <4>2. Sure(work[j])' => Sure(work[j])
        BY <4>1 DEF Apart, Sure
      <4> QED
        BY <3>1, <4>1, <4>2 DEF StepAt, IsOld, ContentOf
  <2> QED
    BY <2>1 DEF StepInv
<1>6. CurInv'
  BY DEF Apart, CurInv
<1> QED
  BY <1>1, <1>2, <1>3, <1>4, <1>5, <1>6

(* Who has no lock holds nothing and resolves nothing.                     *)
LEMMA Outside ==
  /\ {"new", "found", "ready", "done"} \cap Locked = {}
  /\ Publishing \subseteq Locked /\ Resolving \subseteq Locked /\ AtTarget \subseteq Locked
  /\ RollingBack \subseteq Resolving /\ Publishing \cap Resolving = {}
BY DEF Locked, Working, Publishing, Resolving, RollingBack, AtTarget

(* The steps before the lock is taken, and those that give it back.        *)
LEMMA Outer ==
  ASSUME BundleAssumption, BundleInv, NEW i \in Inv,
         NEW next \in {"new", "found", "ready", "done"}, pc'[i] = next,
         Apart(i), work'[i] # i => next = "found",
         next \in {"found", "ready"} => row[i] = "absent",
         next = "new" => pc[i] = "new",
         mem'[i] # None => next = "found" /\ mem'[i] = rec[work'[i]],
         UNCHANGED refused,
         \/ UNCHANGED <<row, holder>> /\ pc[i] \notin Locked
         \/ /\ pc[i] \in Locked /\ holder' = None
            /\ row'[work[i]] # "absent"
            /\ \A w \in Inv : w # work[i] => row'[w] = row[w]
            /\ work[i] \in refused /\ Sure(work[i]) => row'[work[i]] \in Open
  PROVE  BundleInv'
<1> USE BundleAssumption DEF BundleInv
<1>1. next \notin Locked \cup AtTarget \cup Resolving \cup Publishing
  BY Outside
<1>2. CASE UNCHANGED <<row, holder>> /\ pc[i] \notin Locked
  <2>1. LockInv'
    BY <1>1, <1>2 DEF LockInv, Apart
  <2>2. WorkInv'
    BY <1>1, <1>2 DEF WorkInv, Apart
  <2>3. RefusedInv'
    BY <1>1, <1>2 DEF RefusedInv, Apart, Sure
  <2>4. AgreeAt(i)'
    BY <1>1, Outside DEF AgreeAt, Apart
  <2> QED
    BY <1>1, <2>1, <2>2, <2>3, <2>4, ApartStep
<1>3. CASE /\ pc[i] \in Locked /\ holder' = None
           /\ row'[work[i]] # "absent"
           /\ \A w \in Inv : w # work[i] => row'[w] = row[w]
           /\ work[i] \in refused /\ Sure(work[i]) => row'[work[i]] \in Open
  <2>1. /\ holder = i /\ \A j \in Inv : pc'[j] \notin Locked
        /\ work[i] \in Inv /\ row[work[i]] \in Open
        /\ \A v \in Inv : row'[v] \in Open => v = work[i]
    <3>1. holder = i /\ work[i] \in Inv /\ row[work[i]] \in Open
      BY <1>3 DEF LockInv, TypeInv, TypeOK
    <3>2. \A j \in Inv : pc'[j] \notin Locked
      <4>1. ASSUME NEW j \in Inv, j # i PROVE pc[j] \notin Locked /\ pc'[j] = pc[j]
        BY <3>1, <4>1 DEF LockInv, Apart
      <4> QED
        BY <1>1, <4>1
    <3>3. \A v \in Inv : row'[v] \in Open => v = work[i]
      BY <1>3, <3>1 DEF LockInv
    <3> QED
      BY <3>1, <3>2, <3>3
  <2>2. LockInv'
    <3>1. \A j \in Inv : ~ (pc'[j] \in Locked) /\ holder' # j
      BY <1>3, <2>1 DEF BundleAssumption
    <3> QED
      BY <2>1, <3>1 DEF LockInv
  <2>3. WorkInv'
    <3>1. row[work[i]] # "absent"
      BY <2>1 DEF Open
    <3>2. \A v \in Inv : row'[v] = "absent" <=> row[v] = "absent"
      BY <1>3, <3>1
    <3>3. \A j \in Inv : pc'[j] # "acquired"
      BY <2>1 DEF Locked, Working
    <3> QED
      BY <1>1, <1>3, <3>2, <3>3 DEF WorkInv, Apart
  <2>4. RefusedInv'
    BY <1>3, <2>1 DEF RefusedInv, Apart, Sure
  <2>5. AgreeAt(i)'
    BY <1>1, Outside DEF AgreeAt, Apart
  <2> QED
    BY <1>1, <2>2, <2>3, <2>4, <2>5, ApartStep
<1> QED
  BY <1>2, <1>3

(* Recovery finds its work or is refused, a result is recorded, the lock   *)
(* is given back, a process dies.                                          *)
LEMMA OuterSteps ==
  ASSUME BundleAssumption, BundleInv, NEW i \in Inv,
         \/ Find(i) \/ FindNothing(i) \/ RecoverRefused(i) \/ AcquireRefused(i)
         \/ Record(i) \/ Close(i) \/ Crash(i)
  PROVE  BundleInv'
<1> USE BundleAssumption DEF BundleInv
<1>1. CASE Find(i)
  <2>1. /\ pc[i] = "new" /\ pc'[i] = "found" /\ pc[i] \notin Locked /\ row[i] = "absent"
        /\ Apart(i) /\ UNCHANGED <<row, holder, refused>>
    BY <1>1, Outside DEF Find, Apart, At, To, TypeInv, TypeOK, WorkInv, disk,
       journal, history, Working
  <2>2. mem'[i] = rec[work'[i]]
    BY <1>1 DEF Find, TypeInv, TypeOK
  <2> QED
    BY <2>1, <2>2, Outer
<1>2. CASE FindNothing(i) \/ AcquireRefused(i)
  <2>1. PICK next \in {"ready", "done"} :
          /\ pc[i] \in {"new", "ready"} /\ pc'[i] = next /\ pc[i] \notin Locked
          /\ row[i] = "absent"
          /\ Apart(i) /\ UNCHANGED <<row, holder, refused, work, mem>>
    <3>1. CASE FindNothing(i)
      BY <3>1, Outside DEF FindNothing, Apart, At, To, TypeInv, TypeOK,
         WorkInv, disk, journal, local, history, Working
    <3>2. CASE AcquireRefused(i)
      BY <3>2, Outside DEF AcquireRefused, Apart, At, To, TypeInv, TypeOK,
         WorkInv, disk, journal, local, history, Working
    <3> QED
      BY <1>2, <3>1, <3>2
  <2>2. work[i] = i /\ mem[i] = None
    BY <2>1, Outside DEF WorkInv
  <2> QED
    BY <2>1, <2>2, Outer
<1>3. CASE RecoverRefused(i)
  <2>1. /\ pc[i] = "found" /\ pc'[i] = "done" /\ pc[i] \notin Locked
        /\ Apart(i) /\ UNCHANGED <<row, holder, refused>>
        /\ work'[i] = i /\ mem'[i] = None
    BY <1>3, Outside DEF RecoverRefused, Forget, Apart, At, To, TypeInv,
       TypeOK, disk, journal, history, Working
  <2> QED
    BY <2>1, Outer
<1>4. CASE Record(i)
  <2>1. pc[i] = "recording" /\ pc[i] \in Locked /\ work[i] \in Inv /\ Holds(i, work[i])
    BY <1>4, HolderKnows DEF Record, At, Locked, Working
  <2>2. PICK w \in Inv : w = work[i] /\ Holds(i, w)
    BY <2>1
  <2>3. PICK next \in {"ready", "done"} :
          pc'[i] = next /\ pc' = [pc EXCEPT ![i] = next] /\ (next = "ready" => w # i)
    BY <1>4, <2>2 DEF Record, At, To, TypeInv, TypeOK
  <2>4. PICK result \in {"COMMITTED", "ABORTED"} : row' = [row EXCEPT ![w] = result]
    BY <1>4, <2>2 DEF Record
  <2>5. /\ Apart(i) /\ UNCHANGED refused /\ holder' = None
        /\ work'[i] = i /\ mem'[i] = None
        /\ row'[w] # "absent" /\ \A v \in Inv : v # w => row'[v] = row[v]
    BY <1>4, <2>2, <2>3, <2>4 DEF Record, Forget, Apart, TypeInv, TypeOK, disk,
       history, Working, Open
  <2>6. next = "ready" => row[i] = "absent"
    BY <2>2, <2>3 DEF WorkInv
  <2>7. ASSUME w \in refused, Sure(w) PROVE FALSE
    <3>1. /\ w # i /\ rec[w] # None /\ RefusedAt(w)
      BY <2>1, <2>2, <2>7 DEF RefusedInv, RefusedAt
    <3>2. mem[i] = rec[w]
      BY <2>1, <2>2, <2>7, <3>1 DEF Holds, AgreeAt, Sure
    <3>3. ASSUME NEW t \in Targets
          PROVE  ~ priv[w][t].stray /\ (rec[w].validated => target[t] = New(w))
      <4>1. StepAt(i, t)
        BY <2>1, <2>2 DEF Holds, Resolving
      <4>2. priv[w][t] = NoPriv /\ (rec[w].validated => target[t] = New(w))
        BY <2>1, <2>2, <2>7, <3>1, <3>2, <4>1 DEF StepAt
      <4> QED
        BY <4>2 DEF NoPriv
    <3> QED
      BY <3>1, <3>3 DEF RefusedAt
  <2> QED
    BY <2>1, <2>2, <2>3, <2>5, <2>6, <2>7, Outer
<1>5. CASE Close(i)
  <2>1. pc[i] = "closing" /\ pc[i] \in Locked /\ work[i] \in Inv /\ row[work[i]] \in Open
    BY <1>5 DEF Close, At, Locked, Working, LockInv, TypeInv, TypeOK
  <2>2. PICK w \in Inv : w = work[i]
    BY <2>1
  <2>3. /\ Apart(i) /\ UNCHANGED refused /\ holder' = None /\ pc'[i] = "done"
        /\ work'[i] = i /\ mem'[i] = None
        /\ row'[w] \in Open /\ row'[w] # "absent" /\ \A v \in Inv : v # w => row'[v] = row[v]
    BY <1>5, <2>1, <2>2 DEF Close, At, To, Forget, Apart, TypeInv, TypeOK,
       disk, history, Working, Open
  <2> QED
    BY <2>1, <2>2, <2>3, Outer
<1>6. CASE Crash(i)
  <2>1. /\ Apart(i) /\ UNCHANGED <<row, refused>> /\ pc'[i] = "done"
        /\ work'[i] = i /\ mem'[i] = None
    BY <1>6 DEF Crash, To, Forget, Apart, TypeInv, TypeOK, disk, journal,
       history
  <2>2. CASE pc[i] \notin Locked
    BY <1>6, <2>1, <2>2, Outer DEF Crash, LockInv
  <2>3. CASE pc[i] \in Locked
    <3>1. holder' = None /\ work[i] \in Inv /\ row[work[i]] \in Open
      BY <1>6, <2>3 DEF Crash, LockInv, TypeInv, TypeOK
    <3>2. row'[work[i]] \in Open /\ row'[work[i]] # "absent"
      BY <2>1, <3>1 DEF Open
    <3> QED
      BY <2>1, <2>3, <3>1, <3>2, Outer
  <2> QED
    BY <2>2, <2>3
<1> QED
  BY <1>1, <1>2, <1>3, <1>4, <1>5, <1>6


(* The steps that take the lock.                                           *)
LEMMA EnteringSteps ==
  ASSUME BundleAssumption, BundleInv, NEW i \in Inv,
         Recover(i) \/ RecoverFails(i) \/ Acquire(i) \/ FailEntering(i)
  PROVE  BundleInv'
<1> USE BundleAssumption DEF BundleInv
<1>1. ASSUME NEW w \in Inv, w = work[i], Recover(i) \/ RecoverFails(i)
      PROVE  /\ pc[i] = "found" /\ w # i /\ row[i] = "absent" /\ row[w] \in Open
             /\ holder = None /\ holder' = i /\ AgreeAt(i)
             /\ \A j \in Inv : pc[j] \notin Locked
             /\ \A v \in Inv : row[v] \in Open => v = w
  BY <1>1 DEF Recover, RecoverFails, At, WorkInv, Open, LockInv, AgreeInv,
     BundleAssumption
<1>2. CASE Recover(i)
  <2>1. PICK w \in Inv : w = work[i]
    BY DEF TypeInv, TypeOK
  <2>2. PICK next \in {"recording", "validated", "unpublish"} :
          /\ pc' = [pc EXCEPT ![i] = next] /\ pc'[i] = next
          /\ next = "recording" <=> mem[i] = None
          /\ mem[i] # None => (next = "validated" <=> mem[i].validated)
          /\ mem[i] # None => Recoverable(w, mem[i])
    BY <1>2, <2>1 DEF Recover, To, TypeInv, TypeOK
  <2>3. next \in Locked /\ next \in Resolving /\ next \notin AtTarget \cup Publishing
    BY <2>2 DEF Locked, Working, Resolving, AtTarget, Publishing
  <2>4. /\ Apart(i) /\ UNCHANGED <<refused, mem, work, rec>>
        /\ row'[w] \in Open /\ \A v \in Inv : v # w => row'[v] = row[v]
        /\ misjudged \subseteq misjudged' /\ (w \notin misjudged' => mem[i] = rec[w])
    BY <1>1, <1>2, <2>1, <2>2 DEF Recover, Apart, TypeInv, TypeOK, disk, local,
       Working, Open
  <2>5. LockInv'
    BY <1>1, <1>2, <2>1, <2>2, <2>3, <2>4 DEF LockInv, Apart
  <2>6. WorkInv'
    <3>1. \A v \in Inv : row'[v] = "absent" <=> row[v] = "absent"
      BY <1>1, <1>2, <2>1, <2>4 DEF Open
    <3> QED
      BY <1>1, <1>2, <2>1, <2>2, <2>3, <2>4, <3>1 DEF WorkInv, Apart, Resolving
  <2>7. RefusedInv'
    BY <1>1, <1>2, <2>1, <2>2, <2>3, <2>4 DEF RefusedInv, Apart, Sure
  <2>8. AgreeAt(i)'
    BY <1>1, <1>2, <2>1, <2>2, <2>3, <2>4 DEF AgreeAt, RollingBack
  <2>9. ASSUME NEW t \in Targets PROVE StepAt(i, t)'
    <3>1. rec[w] = None => priv[w][t] = NoPriv
      BY DEF FreshInv, FreshAt
    <3>2. next = "validated" => target[t] = New(w)
      BY <2>2 DEF Recoverable
    <3>3. /\ work'[i] = w /\ pc'[i] = next /\ target' = target /\ priv' = priv /\ rec' = rec
          /\ mem'[i] = mem[i] /\ (Sure(w)' => mem[i] = rec[w])
      BY <2>1, <2>2, <2>4 DEF Apart, Sure
    <3> QED
      BY <2>2, <3>1, <3>2, <3>3 DEF StepAt
  <2> QED
    BY <1>1, <1>2, <2>1, <2>2, <2>3, <2>4, <2>5, <2>6, <2>7, <2>8, <2>9,
       ApartStep
<1>3. CASE RecoverFails(i)
  <2>1. PICK w \in Inv : w = work[i]
    BY DEF TypeInv, TypeOK
  <2>2. /\ pc' = [pc EXCEPT ![i] = "closing"] /\ pc'[i] = "closing"
        /\ mem[i] # None /\ ~ Recoverable(w, mem[i])
    BY <1>3, <2>1 DEF RecoverFails, At, To, TypeInv, TypeOK
  <2>3. /\ "closing" \in Locked /\ "closing" \in Resolving
        /\ "closing" \notin AtTarget \cup Publishing
    BY DEF Locked, Working, Resolving, AtTarget, Publishing
  <2>4. /\ Apart(i) /\ UNCHANGED <<mem, work, rec, row, misjudged>>
        /\ refused' = refused \/ (refused' = refused \cup {w} /\ mem[i] = rec[w])
    BY <1>1, <1>3, <2>1, <2>2 DEF RecoverFails, Apart, TypeInv, TypeOK, disk,
       journal, local, Working
  <2>5. LockInv'
    BY <1>1, <1>3, <2>1, <2>2, <2>3, <2>4 DEF LockInv, Apart
  <2>6. WorkInv'
    BY <1>1, <1>3, <2>1, <2>2, <2>3, <2>4 DEF WorkInv, Apart, Resolving
  <2>7. RefusedInv'
    <3>1. ASSUME mem[i] = rec[w], Sure(w) PROVE RefusedAt(w)
      <4>1. \A t \in Targets : Known(w, rec[w], t)
        BY <1>1, <1>3, <2>1, <2>2, <3>1 DEF FilesInv, FilesAt
      <4> QED
        BY <2>2, <3>1, <4>1 DEF Recoverable, RefusedAt
    <3> SUFFICES ASSUME NEW v \in Inv, v \in refused', Sure(v)'
                 PROVE  /\ rec[v] # None /\ row[v] \in Open /\ v = w /\ RefusedAt(v)
      BY <1>1, <1>3, <2>1, <2>2, <2>4 DEF RefusedInv, RefusedAt, Apart
    <3>2. Sure(v)
      BY <2>4 DEF Apart, Sure
    <3>3. CASE v \in refused
      BY <1>1, <1>3, <2>1, <3>2, <3>3 DEF RefusedInv, RefusedAt
    <3>4. CASE v = w /\ mem[i] = rec[w]
      BY <1>1, <1>3, <2>1, <2>2, <3>1, <3>2, <3>4
    <3> QED
      BY <2>4, <3>3, <3>4
  <2>8. AgreeAt(i)'
    BY <1>1, <1>3, <2>1, <2>2, <2>3, <2>4 DEF AgreeAt, RollingBack
  <2>9. ASSUME NEW t \in Targets PROVE StepAt(i, t)'
    BY <2>2 DEF StepAt
  <2> QED
    BY <1>1, <1>3, <2>1, <2>2, <2>3, <2>4, <2>5, <2>6, <2>7, <2>8, <2>9,
       ApartStep
<1>4. CASE Acquire(i)
  <2>1. /\ pc[i] = "ready" /\ pc' = [pc EXCEPT ![i] = "acquired"] /\ pc'[i] = "acquired"
        /\ holder = None /\ holder' = i /\ \A w \in Inv : row[w] \notin Open
    BY <1>4 DEF Acquire, At, To, TypeInv, TypeOK
  <2>2. /\ "acquired" \in Locked /\ "acquired" \notin Resolving \cup AtTarget \cup Publishing
        /\ "ready" \notin {"found"} \cup Resolving
    BY DEF Locked, Working, Resolving, AtTarget, Publishing
  <2>3. work[i] = i /\ mem[i] = None /\ row[i] = "absent" /\ rec[i] = None
    BY <2>1, <2>2 DEF WorkInv
  <2>4. /\ Apart(i) /\ UNCHANGED <<refused, mem, work, rec, misjudged>>
        /\ row'[i] = "PREPARED" /\ row'[i] \in Open /\ \A v \in Inv : v # i => row'[v] = row[v]
    BY <1>4, <2>1, <2>3 DEF Acquire, Apart, TypeInv, TypeOK, disk, local,
       history, Working, Open
  <2>5. LockInv'
    <3>1. \A j \in Inv : pc[j] \notin Locked
      BY <2>1 DEF LockInv, BundleAssumption
    <3> QED
      BY <2>1, <2>2, <2>3, <2>4, <3>1 DEF LockInv, Apart
  <2>6. WorkInv'
    BY <2>1, <2>2, <2>3, <2>4 DEF WorkInv, Apart
  <2>7. RefusedInv'
    BY <2>1, <2>4 DEF RefusedInv, Apart, Sure
  <2>8. AgreeAt(i)'
    BY <2>1, <2>2, <2>3, <2>4, Outside DEF AgreeAt
  <2>9. ASSUME NEW t \in Targets PROVE OwnerAt(i, t)'
    <3>1. priv'[i][t] = NoPriv
      BY <2>3, <2>4 DEF Apart, FreshInv, FreshAt
    <3> QED
      BY <2>1, <2>2, <3>1 DEF OwnerAt, NoPriv
  <2> QED
    BY <2>1, <2>2, <2>4, <2>5, <2>6, <2>7, <2>8, <2>9, ApartStep
<1>5. CASE FailEntering(i)
  <2>1. /\ pc[i] = "acquired" /\ To(i, "closing") /\ pc'[i] = "closing"
        /\ UNCHANGED <<disk, journal, holder, local, history>>
    BY <1>5 DEF FailEntering, At, To, TypeInv, TypeOK
  <2>2. "acquired" \in Locked /\ "closing" \in Locked /\ "closing" \in Resolving
        /\ "closing" \notin AtTarget \cup Publishing /\ "acquired" \notin Resolving
        /\ "closing" # "acquired" /\ "closing" \notin RollingBack
    BY DEF Locked, Working, Resolving, RollingBack, AtTarget, Publishing
  <2>3. /\ work[i] = i /\ Holds(i, i) /\ rec[i] = None
    BY <2>1, <2>2, HolderKnows DEF Holds
  <2>4. Frame(i, i) /\ UNCHANGED <<rec, priv, target, refused, mem, work>>
    BY <2>1, <2>3 DEF Frame, Holds, disk, journal, local, history, TypeInv,
       TypeOK, PrivFile
  <2>5. AgreeAt(i)'
    BY <2>1, <2>2, <2>3, <2>4 DEF AgreeAt, Holds, Frame
  <2>6. \A t \in Targets : Moves(i, t)
    BY <2>4, StillMoves
  <2>7. ASSUME NEW t \in Targets PROVE OwnerAt(i, t)' /\ StepAt(i, t)'
    <3>1. priv'[i][t] = NoPriv
      BY <2>3, <2>4 DEF Holds
    <3>2. OwnerAt(i, t)'
      BY <2>1, <2>2, <3>1 DEF OwnerAt, NoPriv
    <3>3. StepAt(i, t)'
      BY <2>1 DEF StepAt
    <3> QED
      BY <3>2, <3>3
  <2> QED
    BY <2>1, <2>2, <2>3, <2>4, <2>5, <2>6, <2>7, LockedStep
<1> QED
  BY <1>2, <1>3, <1>4, <1>5

(* Another program writes to a target.                                     *)
LEMMA AlienStep ==
  ASSUME BundleAssumption, BundleInv, NEW t \in Targets, Overwrite(t)
  PROVE  BundleInv'
<1> USE BundleAssumption DEF BundleInv
<1>1. /\ touched' = TRUE /\ target' \in [Targets -> Files \cup {None}] /\ target'[t] = Foreign
      /\ \A s \in Targets : target'[s] \in {target[s], Foreign}
      /\ UNCHANGED <<priv, row, rec, holder, pc, work, mem, cur, refused, misjudged>>
  BY FileFacts DEF Overwrite, TypeInv, TypeOK, journal, local, history
<1>2. \A v \in Inv : ContentOf(Foreign) # v /\ Foreign # New(v)
  BY FileFacts DEF BundleAssumption
<1>3. TypeInv' /\ LockInv' /\ WorkInv' /\ AgreeInv' /\ CurInv' /\ OwnInv' /\ LinkInv'
  <2>1. TypeInv'
    BY <1>1 DEF TypeInv, TypeOK, IsRecord
  <2>2. LockInv' /\ WorkInv' /\ CurInv' /\ OwnInv' /\ LinkInv'
    BY <1>1 DEF LockInv, WorkInv, CurInv, OwnInv, LinkInv, ContentOf
  <2>3. AgreeInv'
    BY <1>1 DEF AgreeInv, AgreeAt
  <2> QED
    BY <2>1, <2>2, <2>3
<1>4. FreshInv'
  <2>1. \A s \in Targets, v \in Inv : ContentOf(target[s]) # v => ContentOf(target'[s]) # v
    BY <1>1, <1>2
  <2> QED
    BY <1>1, <2>1 DEF FreshInv, FreshAt, ContentOf
<1>5. FilesInv' /\ RefusedInv'
  BY <1>1 DEF FilesInv, RefusedInv, Sure
<1>6. OwnerInv'
  <2>1. ASSUME NEW i \in Inv, NEW s \in Targets, OwnerAt(i, s) PROVE OwnerAt(i, s)'
    BY <1>1, <2>1 DEF OwnerAt
  <2> QED
    BY <1>1, <2>1 DEF OwnerInv
<1>7. StepInv'
  <2>1. ASSUME NEW i \in Inv, NEW s \in Targets, StepAt(i, s) PROVE StepAt(i, s)'
    <3>1. work[i] \in Inv
      BY DEF TypeInv, TypeOK
    <3> QED
      BY <1>1, <1>2, <2>1, <3>1 DEF StepAt, Sure
  <2> QED
    BY <1>1, <2>1 DEF StepInv
<1>8. ForeignFilesSurvive'
  <2>1. ContentOf(target'[t]) = Alien
    BY <1>1, FileFacts
  <2> QED
    BY <2>1 DEF ForeignFilesSurvive, ContentOf
<1> QED
  BY <1>3, <1>4, <1>5, <1>6, <1>7, <1>8

(* Every step keeps the invariant.                                         *)
LEMMA BundleStep ==
  ASSUME BundleAssumption, BundleInv, [Next]_vars
  PROVE  BundleInv'
<1> USE BundleAssumption
<1>1. ASSUME NEW i \in Inv, Step(i) PROVE BundleInv'
  BY <1>1, OwnerSteps, ResolverSteps, OuterSteps, EnteringSteps DEF Step
<1>2. ASSUME NEW t \in Targets, Overwrite(t) PROVE BundleInv'
  BY <1>2, AlienStep
<1>3. CASE UNCHANGED vars
  <2>1. UNCHANGED <<target, priv, row, rec, holder, pc, work, mem, cur, touched, refused,
                    misjudged>>
    BY <1>3 DEF vars
  <2>2. TypeInv' /\ LockInv' /\ WorkInv' /\ AgreeInv' /\ FreshInv' /\ OwnInv' /\ LinkInv'
    BY <2>1 DEF BundleInv, TypeInv, TypeOK, IsRecord, LockInv, WorkInv,
       AgreeInv, AgreeAt, FreshInv, FreshAt, OwnInv, LinkInv, ContentOf
  <2>3. FilesInv'
    BY <2>1 DEF BundleInv, FilesInv, FilesAt, Known, Sure
  <2>5. OwnerInv'
    BY <2>1 DEF BundleInv, OwnerInv, OwnerAt
  <2>6. CurInv' /\ ForeignFilesSurvive' /\ RefusedInv'
    BY <2>1 DEF BundleInv, CurInv, ForeignFilesSurvive, ContentOf, RefusedInv,
       Sure
  <2>4. StepInv'
    BY <2>1, SMTT(60) DEF BundleInv, StepInv, StepAt, Sure, IsOld, ContentOf
  <2> QED
    BY <2>2, <2>3, <2>4, <2>5, <2>6 DEF BundleInv
<1> QED
  BY <1>1, <1>2, <1>3 DEF Next

(* It holds at first.                                                      *)
LEMMA InitBundle ==
  ASSUME BundleAssumption, Init
  PROVE  BundleInv
<1> USE BundleAssumption DEF Init
<1>1. \A t \in Targets : target[t] \in Files \cup {None} /\ target[t] \in {First, None}
  BY FileFacts
<1>2. TypeInv
  BY <1>1, FileFacts DEF TypeInv, TypeOK, IsRecord, NoPriv, Working, Open
<1>3. \A i \in Inv : pc[i] \notin Locked \cup Resolving \cup AtTarget \cup Publishing
  BY Outside
<1>4. \A w \in Inv : row[w] \notin Open
  BY DEF Open
<1>5. LockInv
  BY <1>3, <1>4 DEF LockInv, BundleAssumption
<1>6. WorkInv /\ CurInv /\ OwnerInv /\ StepInv /\ FilesInv
  BY <1>3, <1>4 DEF WorkInv, CurInv, OwnerInv, StepInv, FilesInv
<1>7. AgreeInv
  <2>1. ASSUME NEW i \in Inv PROVE AgreeAt(i)
    BY <1>3, Outside DEF AgreeAt
  <2> QED
    BY <2>1 DEF AgreeInv
<1>8. FreshInv
  <2>1. \A v \in Inv : v # Old /\ v # None
    BY DEF BundleAssumption
  <2>2. \A t \in Targets : ContentOf(target[t]) \in {Old, None}
    BY <1>1, FileFacts
  <2>3. ContentOf(NoPriv.moved) = None
    BY FileFacts DEF NoPriv
  <2> QED
    BY <2>1, <2>2, <2>3 DEF FreshInv, FreshAt
<1>9. OwnInv /\ LinkInv /\ ForeignFilesSurvive /\ RefusedInv
  BY DEF OwnInv, LinkInv, NoPriv, ForeignFilesSurvive, RefusedInv
<1> QED
  BY <1>2, <1>5, <1>6, <1>7, <1>8, <1>9 DEF BundleInv

(* Hence always.                                                           *)
LEMMA AlwaysBundle ==
  ASSUME BundleAssumption
  PROVE  Spec => []BundleInv
<1>1. Init => BundleInv
  BY InitBundle
<1>2. BundleInv /\ [Next]_vars => BundleInv'
  BY BundleStep
<1> QED
  BY <1>1, <1>2, PTL DEF Spec

(* Only Record gives an operation its result.                              *)
LEMMA ResultIsRecorded ==
  ASSUME BundleInv, NEW v \in Inv, row'[v] # row[v], row'[v] \in {"COMMITTED", "ABORTED"},
         [Next]_vars
  PROVE  \E i \in Inv : Record(i) /\ work[i] = v
<1> USE DEF BundleInv, TypeInv, TypeOK
<1>1. ASSUME NEW i \in Inv, row' = row PROVE FALSE
  BY <1>1
<1>2. ASSUME NEW w \in Inv, NEW s \in Open, row' = [row EXCEPT ![w] = s] PROVE FALSE
  BY <1>2 DEF Open
<1>3. ASSUME NEW t \in Targets, Overwrite(t) PROVE FALSE
  BY <1>3 DEF Overwrite, journal
<1>4. CASE UNCHANGED vars
  BY <1>4 DEF vars
<1>5. ASSUME NEW i \in Inv, Step(i) PROVE Record(i) /\ work[i] = v
  <2>1. CASE Record(i)
    BY <2>1 DEF Record
  <2>2. CASE Recover(i) \/ Acquire(i) \/ Committing(i) \/ Close(i)
    <3>1. PICK w \in Inv, s \in Open : row' = [row EXCEPT ![w] = s]
      BY <2>2 DEF Recover, Acquire, Committing, Close, Open
    <3> QED
      BY <1>2, <3>1
  <2>3. CASE \/ Find(i) \/ FindNothing(i) \/ RecoverRefused(i) \/ RecoverFails(i)
             \/ AcquireRefused(i) \/ Track(i) \/ Crash(i) \/ FailEntering(i)
    <3>1. row' = row
      BY <2>3 DEF Find, FindNothing, RecoverRefused, RecoverFails,
         AcquireRefused, Track, Persist, Crash, FailEntering, journal
    <3> QED
      BY <1>1, <3>1
  <2>4. CASE \/ NothingToDisplace(i) \/ Displacing(i) \/ Displace(i) \/ Displaced(i)
             \/ PutBack(i) \/ Install(i) \/ Installed(i) \/ Validated(i) \/ ValidatedFails(i)
             \/ Fail(i)
    <3>1. row' = row
      BY <2>4 DEF NothingToDisplace, Displacing, Displace, Displaced, PutBack,
         Install, Installed, Validated, ValidatedFails, Fail, Entry, Persist,
         journal
    <3> QED
      BY <1>1, <3>1
  <2>5. CASE \/ Unpublished(i) \/ InstallCopy(i) \/ Restored(i) \/ RolledBack(i)
             \/ RollbackFails(i) \/ Sweep(i) \/ CleanupCommitted(i) \/ Finish(i)
             \/ FinishFails(i)
    <3>1. row' = row
      BY <2>5 DEF Unpublished, InstallCopy, Restored, RolledBack,
         RollbackFails, Sweep, CleanupCommitted, Finish, FinishFails, journal
    <3> QED
      BY <1>1, <3>1
  <2>6. ASSUME NEW t \in Targets,
               BackupTarget(i, t) \/ Candidate(i, t) \/ Unpublish(i, t) \/ Restoring(i, t)
        PROVE  FALSE
    <3>1. row' = row
      BY <2>6 DEF BackupTarget, Candidate, Unpublish, Restoring, Entry,
         Persist, journal
    <3> QED
      BY <1>1, <3>1
  <2> QED
    BY <1>5, <2>1, <2>2, <2>3, <2>4, <2>5, <2>6 DEF Step
<1> QED
  BY <1>3, <1>4, <1>5 DEF Next

-------------------------------------------------------------------------------
(* Every state of the journal, the records and the files is of its type    *)
(* (BundleMutation and PublishedArtifact, core/publication.py).            *)
THEOREM BundleTyped ==
  ASSUME BundleAssumption
  PROVE  Spec => []TypeOK
<1>1. BundleInv => TypeOK
  BY DEF BundleInv, TypeInv
<1> QED
  BY <1>1, AlwaysBundle, PTL

(* Whatever publishes, crashes and recovers, a file that another program   *)
(* put under a target's name is not lost: the displacement moves it, the   *)
(* rollback puts it back, and no sweep removes what the record does not    *)
(* know (publish_staged_bundle, _rollback_bundle,                          *)
(* _cleanup_committed_bundle), unless a publication was bound to it.       *)
THEOREM AlienFilesAreKept ==
  ASSUME BundleAssumption
  PROVE  Spec => []ForeignFilesSurvive
<1>1. BundleInv => ForeignFilesSurvive
  BY DEF BundleInv
<1> QED
  BY <1>1, AlwaysBundle, PTL

(* A result is recorded when it is true of the whole set: committed, every *)
(* target is the new file; aborted, every target has its old content; and  *)
(* nothing private is left (BundleMutation.finish), as long as no other    *)
(* program interferes and the record had not changed before the lock.      *)
THEOREM ResultsAreWhole ==
  ASSUME BundleAssumption
  PROVE  Spec => [][RecordsWholeSets]_vars
<1> USE BundleAssumption
<1>1. BundleInv /\ [Next]_vars => RecordsWholeSets
  <2> SUFFICES ASSUME BundleInv, [Next]_vars, NEW v \in Inv, v \notin misjudged,
                      row[v] # row'[v], row'[v] \in {"COMMITTED", "ABORTED"}, ~ touched
               PROVE  WholeSet(v) /\ \A t \in Targets : priv[v][t] = NoPriv
    BY DEF RecordsWholeSets
  <2>1. PICK i \in Inv : Record(i) /\ work[i] = v
    BY ResultIsRecorded
  <2>2. pc[i] = "recording" /\ pc[i] \in Resolving
    BY <2>1 DEF Record, At, Resolving
  <2>3. row'[v] = "COMMITTED" <=> mem[i] # None /\ mem[i].validated
    BY <2>1 DEF Record, BundleInv, TypeInv, TypeOK
  <2>4. ASSUME NEW t \in Targets
        PROVE  /\ priv[v][t] = NoPriv
               /\ IF mem[i] # None /\ mem[i].validated THEN target[t] = New(v)
                  ELSE rec[v] # None => ContentOf(target[t]) = ContentOf(rec[v].entry[t].orig)
    BY <2>1, <2>2 DEF BundleInv, StepInv, StepAt, Sure
  <2> QED
    BY <2>3, <2>4 DEF WholeSet
<1> QED
  BY <1>1, AlwaysBundle, PTL DEF Spec

(* No recovery is refused for good, when no other program interferes and   *)
(* the record had not changed before the lock, but for a restoration done  *)
(* twice and a validated set that was rolled back (_recover_artifacts,     *)
(* _rollback_bundle, BundleMutation.finish).                               *)
THEOREM RecoveryGoesOn ==
  ASSUME BundleAssumption
  PROVE  Spec => []RecoveryResolves
<1>1. BundleInv => RecoveryResolves
  BY DEF BundleInv, RefusedInv, RecoveryResolves, Sure, TypeInv, TypeOK
<1> QED
  BY <1>1, AlwaysBundle, PTL
===============================================================================
