------------------------------- MODULE SyncMerge -------------------------------
(***************************************************************************)
(* What `gedcom sync update` and `gedcom sync rebase` put into the next    *)
(* release: the people of the master and of the snapshots are matched,     *)
(* their facts are united or removed, and the manifest remembers who saw   *)
(* what.  A release is a master with its manifest; both are immutable, the *)
(* operator continues from any of them.  An operation is one step: its     *)
(* inputs are verified again before it publishes (SyncPublication).        *)
(***************************************************************************)
EXTENDS Naturals, FiniteSets, Sequences, Functions

CONSTANTS
  Facts,        \* person blocks: _block_key
  Slot,         \* Slot[f]: _block_logical_identity
  Removable,    \* facts of a removable tag
  Similar,      \* pairs of identities that look alike without being safe to merge
  Baseline,     \* the legacy master: pointer -> person
  Exports,      \* Exports[source]: the possible contents of its snapshots
  MaxReleases   \* bound

VARIABLES releases  \* published releases, in the order of their publication
vars == releases

MasterFacts(master) == {b \in (DOMAIN master) \X Facts : b[2] \in master[b[1]].facts}

(* A person of a snapshot is [id, who, facts, cited].  A snapshot is       *)
(* [source, vendor, people]: its identity is its source and its content.   *)
NewManifest ==
  [generation |-> 0, parent |-> 0, history |-> 0, active |-> <<>>, snapshots |-> {},
   bindings |-> <<>>, blocks |-> <<>>, tombstones |-> {}, next |-> 1]

Init == releases = <<>>

-------------------------------------------------------------------------------
(* _match_people.  A state of the matching: the survivors so far, the next *)
(* free pointer and the targets that were chosen.  Equal identifiers, an   *)
(* equal fingerprint and a score that is safe to merge mean one identity;  *)
(* a persisted binding counts while the two do not conflict.               *)
Alike(a, b) == a = b \/ {a, b} \in Similar

BoundCandidates(survivors, previous, who) ==  \* one possible bug: a binding is believed
  {p \in DOMAIN survivors : survivors[p] = who} \cup (previous \cap DOMAIN survivors)

Candidates(survivors, previous, who) ==
  {p \in DOMAIN survivors : survivors[p] = who}
    \cup {p \in previous \cap DOMAIN survivors : Alike(survivors[p], who)}

TargetFree(m, previous, who, accepts) ==  \* one possible bug: a free pointer is taken again
  LET safe == Candidates(m.survivors, previous, who)
      free == (0..m.next) \ DOMAIN m.survivors
  IN IF Cardinality(safe) = 1 THEN CHOOSE p \in safe : TRUE
     ELSE CHOOSE p \in free : \A q \in free : p <= q

Target(m, previous, who, accepts) ==
  LET safe == Candidates(m.survivors, previous, who)
      scored == {p \in DOMAIN m.survivors : {m.survivors[p], who} \in Similar}
  IN IF Cardinality(safe) = 1 THEN CHOOSE p \in safe : TRUE
     ELSE IF safe = {} /\ scored # {} /\ accepts
       THEN CHOOSE p \in scored : \A q \in scored : q <= p
       ELSE m.next

RECURSIVE Matched(_, _, _, _)
Matched(m, people, bindings, accepts) ==
  IF people = <<>> THEN m
  ELSE LET person == Head(people)
           previous == IF person.id \in DOMAIN bindings THEN {bindings[person.id]} ELSE {}
           target == Target(m, previous, person.who, accepts)
       IN Matched([survivors |-> [p \in DOMAIN m.survivors \cup {target} |->
                                    IF p \in DOMAIN m.survivors THEN m.survivors[p] ELSE person.who],
                   next |-> IF target = m.next THEN m.next + 1 ELSE m.next,
                   targets |-> [i \in DOMAIN m.targets \cup {person.id} |->
                                  IF i = person.id THEN target ELSE m.targets[i]]],
                  Tail(people), bindings, accepts)

(* The snapshots of an update are matched one after the other, each with   *)
(* the survivors of those before it.                                       *)
RECURSIVE MatchAll(_, _, _, _, _)
MatchAll(m, specs, manifest, accepts, bound) ==
  IF specs = <<>> THEN [m EXCEPT !.targets = bound]
  ELSE LET s == Head(specs)
           old == IF s.source \in DOMAIN manifest.bindings THEN manifest.bindings[s.source] ELSE <<>>
           after == Matched([m EXCEPT !.targets = <<>>], s.people, old, accepts)
       IN MatchAll(after, Tail(specs), manifest, accepts,
                   [t \in DOMAIN bound \cup {s.source} |-> IF t = s.source THEN after.targets ELSE bound[t]])

-------------------------------------------------------------------------------
(* _reconcile_person_blocks                                                *)
Entry(blocks, p, f) ==
  IF <<p, f>> \in DOMAIN blocks THEN blocks[<<p, f>>] ELSE [protected |-> {}, seen |-> {}]

(* A deletion by hand holds for the fact and for its logical identity.     *)
Deleted(manifest, p, f) ==
  \/ <<p, f>> \in manifest.tombstones
  \/ \E g \in Facts : <<p, g>> \in manifest.tombstones /\ Slot[g] = Slot[f]

(* What the snapshots say about the person at a pointer.                   *)
Origins(specs, bound, p) ==
  UNION {{[snapshot |-> s, person |-> s.people[i]] :
            i \in {j \in DOMAIN s.people : bound[s.source][s.people[j].id] = p}} : s \in specs}

(* base's blocks united with those of the snapshots, without what was      *)
(* deleted by hand; then what only former snapshots said, nobody protected *)
(* and no source supports is removed from the master.                      *)
Reconciled(base, specs, bound, survivors, active, initialize) ==
  LET manifest == base.manifest
      before(p) == IF p \in DOMAIN base.master THEN base.master[p] ELSE [facts |-> {}, cited |-> {}]
      seenBy(p, f) ==
        {o.snapshot : o \in {x \in Origins(specs, bound, p) : f \in x.person.facts /\ ~ Deleted(manifest, p, f)}}
      united(p) == before(p).facts \cup {f \in Facts : seenBy(p, f) # {}}
      cited(p) == before(p).cited \cup
        {f \in Facts : ~ Deleted(manifest, p, f) /\ \E o \in Origins(specs, bound, p) : f \in o.person.cited}
      entry(p, f) ==
        [protected |-> Entry(manifest.blocks, p, f).protected
                         \cup (IF initialize /\ f \in before(p).facts THEN {"baseline"} ELSE {}),
         seen |-> Entry(manifest.blocks, p, f).seen \cup seenBy(p, f)]
      absent(p, f) ==
        /\ f \in before(p).facts
        /\ entry(p, f).seen \cap {active[s] : s \in DOMAIN active} = {}
        /\ entry(p, f).protected = {}
      facts(p) == {f \in united(p) : absent(p, f) => f \notin Removable \/ f \in cited(p)}
  IN [master |-> [p \in DOMAIN survivors |->
                    [who |-> survivors[p], facts |-> facts(p), cited |-> cited(p) \cap facts(p)]],
      blocks |-> [b \in DOMAIN manifest.blocks \cup MasterFacts([p \in DOMAIN survivors |-> [facts |-> united(p)]])
                    |-> entry(b[1], b[2])]]

-------------------------------------------------------------------------------
(* _validate_manifest, where it relates the parts of a manifest: a release *)
(* with any other one cannot be continued from.                            *)
Sources(snapshots) == {s.source : s \in snapshots}

Valid(manifest) ==
  /\ manifest.history = manifest.generation
  /\ manifest.generation > 0 => manifest.parent = manifest.generation - 1
  /\ Range(manifest.active) \subseteq manifest.snapshots
  /\ \A t \in DOMAIN manifest.active : manifest.active[t].source = t
  /\ DOMAIN manifest.active = Sources(manifest.snapshots)
  /\ \A s, o \in manifest.snapshots : s.source = o.source => s.vendor = o.vendor
  /\ DOMAIN manifest.bindings \subseteq Sources(manifest.snapshots)
  /\ \A b \in DOMAIN manifest.blocks : manifest.blocks[b].seen \subseteq manifest.snapshots

(* _validate_snapshot_continuity: a source keeps its vendor.               *)
Continues(manifest, specs) ==
  \A s \in specs, o \in manifest.snapshots : s.source = o.source => s.vendor = o.vendor

Publish(release) == releases' = Append(releases, release)

(* _perform_update from a release, or from the legacy master.  Snapshots   *)
(* that are active already change nothing; the new ones replace those of   *)
(* their sources.                                                          *)
Update(base, specs, initialize, accepts) ==
  LET manifest == base.manifest
      start == [survivors |-> [p \in DOMAIN base.master |-> base.master[p].who],
                next |-> manifest.next, targets |-> <<>>]
      m == MatchAll(start, specs, manifest, accepts, <<>>)
      given == {s.source : s \in Range(specs)}
      active == [t \in DOMAIN manifest.active \cup given |->
                   IF t \in given THEN CHOOSE s \in Range(specs) : s.source = t ELSE manifest.active[t]]
      result == Reconciled(base, Range(specs), m.targets, m.survivors, active, initialize)
  IN
  /\ Valid(manifest) /\ Continues(manifest, Range(specs))
  /\ Range(specs) \ Range(manifest.active) # {}
  /\ Publish(
       [kind |-> "update", from |-> base.number, number |-> Len(releases) + 1,
        master |-> result.master,
        manifest |-> [manifest EXCEPT
          !.generation = @ + 1, !.parent = manifest.generation, !.history = @ + 1, !.active = active,
          !.snapshots = @ \cup Range(specs),
          !.bindings = [t \in DOMAIN @ \cup given |-> IF t \in given THEN m.targets[t] ELSE @[t]],
          !.blocks = result.blocks, !.next = m.next]])

(* _perform_rebase: the operator's edited master becomes the next one.     *)
(* What it adds is protected and retires the same tombstone; what it lacks *)
(* becomes a tombstone, which the operator has to accept.                  *)
Rebase(base, edited, accept) ==
  LET additions == MasterFacts(edited) \ MasterFacts(base.master)
      deletions == MasterFacts(base.master) \ MasterFacts(edited)
      manifest == base.manifest
  IN
  /\ Valid(manifest)
  /\ deletions # {} => accept
  /\ Publish(
       [kind |-> "rebase", from |-> base.number, number |-> Len(releases) + 1,
        master |-> edited,
        manifest |-> [manifest EXCEPT
          !.generation = @ + 1, !.parent = manifest.generation, !.history = @ + 1,
          !.tombstones = (@ \ additions) \cup deletions,
          !.blocks = [b \in DOMAIN @ \cup additions |->
                        IF b \in additions
                          THEN [Entry(@, b[1], b[2]) EXCEPT !.protected = @ \cup {"manual"}]
                          ELSE @[b]]]])

-------------------------------------------------------------------------------
Legacy == [number |-> 0, master |-> Baseline, manifest |-> NewManifest]
Snapshots == UNION {{[source |-> t, vendor |-> e.vendor, people |-> e.people] : e \in Exports[t]} : t \in DOMAIN Exports}

(* Snapshots of different sources, in the order of their sources.          *)
Given ==
  {<<s>> : s \in Snapshots} \cup {g \in Snapshots \X Snapshots : g[1].source < g[2].source}

(* The edits: one fact more or less, or a whole person less.               *)
Edits(master) ==
  {[master EXCEPT ![p] = [@ EXCEPT !.facts = @ \cup {f}]] : p \in DOMAIN master, f \in Facts}
    \cup {[master EXCEPT ![p] = [@ EXCEPT !.facts = @ \ {f}, !.cited = @ \ {f}]] : p \in DOMAIN master, f \in Facts}
    \cup {[q \in DOMAIN master \ {p} |-> master[q]] : p \in DOMAIN master}

Next ==
  /\ Len(releases) < MaxReleases
  /\ \/ \E specs \in Given : releases = <<>> /\ Update(Legacy, specs, TRUE, FALSE)
     \/ \E specs \in Given, k \in DOMAIN releases, accepts \in BOOLEAN : Update(releases[k], specs, FALSE, accepts)
     \/ \E k \in DOMAIN releases : \E edited \in Edits(releases[k].master) \ {releases[k].master}, accept \in BOOLEAN :
          Rebase(releases[k], edited, accept)

Spec == Init /\ [][Next]_vars
-------------------------------------------------------------------------------
Published(step) == releases' # releases /\ releases'[Len(releases')].kind = step
Result == releases'[Len(releases')]
Base == IF Result.from = 0 THEN Legacy ELSE releases[Result.from]
Gone == MasterFacts(Base.master) \ MasterFacts(Result.master)
Active(r) == Range(r.manifest.active)

(* What a snapshot says about the person that it was bound to.             *)
Says(r, s) ==
  {<<r.manifest.bindings[s.source][s.people[x[1]].id], x[2]>> :
     x \in {y \in (DOMAIN s.people) \X Facts : y[2] \in s.people[y[1]].facts}}

(* An update loses nothing but removable, uncited and unprotected facts    *)
(* that no active snapshot says any more, or of whose logical identity one *)
(* was deleted by hand; and it loses no person                             *)
(* (_reconcile_person_blocks).                                             *)
UpdatesLoseNothing ==
  [][Published("update") =>
       /\ DOMAIN Base.master \subseteq DOMAIN Result.master
       /\ \A b \in Gone :
            /\ b[2] \in Removable \ Base.master[b[1]].cited
            /\ Entry(Base.manifest.blocks, b[1], b[2]).protected = {}
            /\ \A s \in Active(Result) : b \in Says(Result, s) => Deleted(Base.manifest, b[1], b[2])]_vars

(* A pointer of the master means one person for ever: what is new gets a   *)
(* pointer no earlier person had (_next_pointer, _match_people).           *)
PointersMeanOne ==
  [][releases' # releases =>
       \A p \in DOMAIN Result.master :
          \/ p \in DOMAIN Base.master /\ Result.master[p].who = Base.master[p].who
          \/ p \notin DOMAIN Base.master /\ \A b \in DOMAIN Base.manifest.blocks : b[1] # p]_vars

(* What was deleted by hand stays away from its person (_perform_rebase,   *)
(* _reconcile_person_blocks).                                              *)
DeletedStays ==
  \A k \in DOMAIN releases : releases[k].manifest.tombstones \cap MasterFacts(releases[k].master) = {}

(* Every fact of a master is accounted for by a protection or an           *)
(* observation, and every release can be continued from                    *)
(* (_reconcile_person_blocks, _seed_snapshot_history, _validate_manifest). *)
AccountIsTrue ==
  \A k \in DOMAIN releases :
    LET m == releases[k].manifest
        there == MasterFacts(releases[k].master)
    IN
    /\ Valid(m)
    /\ \A b \in there : b \in DOMAIN m.blocks /\ (m.blocks[b].protected # {} \/ m.blocks[b].seen # {})
    /\ \A b \in DOMAIN m.blocks : m.blocks[b].protected # {} => b \in there \cup m.tombstones

(* A binding never leads to a person that conflicts (_match_people).       *)
BindingsMatch ==
  \A k \in DOMAIN releases : LET r == releases[k] IN
    \A s \in Active(r) : \A i \in DOMAIN s.people :
      LET p == r.manifest.bindings[s.source][s.people[i].id] IN
        p \in DOMAIN r.master => Alike(r.master[p].who, s.people[i].who)

(* Not checked: a fact goes only once every active snapshot is silent      *)
(* about it.  A deletion by hand of one undated fact lets the next update  *)
(* remove its namesakes too.                                               *)
Disappeared ==
  [][Published("update") => \A b \in Gone, s \in Active(Result) : b \notin Says(Result, s)]_vars

(* Not checked: who was deleted by hand stays away.  The next snapshot     *)
(* brings the person back, at another pointer.                             *)
PeopleStayDeleted ==
  [][Published("update") =>
       \A p \in DOMAIN Result.master \ DOMAIN Base.master :
         ~ \E k \in DOMAIN releases, q \in {b[1] : b \in Base.manifest.tombstones} \ DOMAIN Base.master :
             q \in DOMAIN releases[k].master /\ releases[k].master[q].who = Result.master[p].who]_vars
===============================================================================
