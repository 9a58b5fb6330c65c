------------------------------- MODULE RecordMerge -------------------------------
(***************************************************************************)
(* How `gedcom sync update` unites the records of a snapshot that are no   *)
(* people (sources, notes, families, ...) with those of the master, and    *)
(* the citations of two statements of the same fact.  Records that say the *)
(* same become one; the pointers to them are rewritten.                    *)
(*                                                                         *)
(* A pointer is <<origin, tag, number>>; the pointers of a snapshot are    *)
(* unlike those of the master (load_sources renames them).  A record is    *)
(* [ptr, tag, body, refs, atts]: refs are its pointers to other records    *)
(* and atts, which only families have here, the notes and citations of its *)
(* one fact.  A citation is a structure [tag, value, kids].                *)
(***************************************************************************)
EXTENDS Naturals, FiniteSets, Sequences, SequencesExt

CONSTANTS
  Legacy,     \* records of the first master
  Exports,    \* the possible records of a snapshot
  MaxUpdates  \* bound

VARIABLES
  records,  \* of the current master, in its order
  next,     \* next_ids of the manifest: tag -> number
  map,      \* the pointer map of the last update
  given,    \* its snapshot
  updates   \* so far
vars == <<records, next, map, given, updates>>

Order == <<"NOTE", "SOUR", "FAM">>  \* ordered_tags, as far as they are used here

-------------------------------------------------------------------------------
(* Citations.                                                              *)
Nothing == 0
Conflict == [tag |-> "conflict", value |-> 0, kids |-> <<>>]

Put(s, i, e) == [k \in DOMAIN s |-> IF k = i THEN e ELSE s[k]]

Below(c) == FlattenSeq([k \in DOMAIN c.kids |-> <<c.kids[k]>> \o c.kids[k].kids])
Valued(c, tag) == SelectSeq(Below(c), LAMBDA k : k.tag = tag)

(* _citation_identity: a place in a source.                                *)
Identity(c) == <<c.value, IF Valued(c, "PAGE") = <<>> THEN Nothing ELSE Head(Valued(c, "PAGE")).value>>

(* _singleton_values                                                       *)
Singles(c, tag) == {k.value : k \in Range(Valued(c, tag))}

(* _merge_compatible_structure: what may be repeated is united, one date   *)
(* is enough, and two dates are a conflict.                                *)
WithGrandchild(data, kid) ==
  IF data = Conflict \/ kid \in Range(data.kids) THEN data
  ELSE IF kid.tag = "DATE" /\ \E o \in Range(data.kids) : o.tag = "DATE" THEN Conflict
  ELSE [data EXCEPT !.kids = Append(@, kid)]

MergedData(left, right) == FoldLeft(WithGrandchild, left, right.kids)

(* _merge_citations                                                        *)
WithChild(c, kid) ==
  LET same == {i \in DOMAIN c.kids : c.kids[i].tag = kid.tag}
      first == CHOOSE i \in same : \A j \in same : i <= j
      data == MergedData(c.kids[first], kid)
  IN IF c = Conflict \/ kid \in Range(c.kids) THEN c
     ELSE IF kid.tag \notin {"DATA", "PAGE", "QUAY"} \/ same = {} THEN [c EXCEPT !.kids = Append(@, kid)]
     ELSE IF c.kids[first].value # kid.value THEN Conflict
     ELSE IF kid.tag # "DATA" THEN c
     ELSE IF data = Conflict THEN Conflict
     ELSE [c EXCEPT !.kids = Put(c.kids, first, data)]

MergedCitation(left, right) ==
  IF \/ Identity(left) # Identity(right)
     \/ \E tag \in {"DATE", "PAGE", "QUAY"} :
          /\ Singles(left, tag) # {} /\ Singles(right, tag) # {}
          /\ Singles(left, tag) # Singles(right, tag)
  THEN Conflict
  ELSE FoldLeft(WithChild, left, right.kids)

(* _merge_same_fact.  m.seen counts the citations of the right side so     *)
(* far: of one place, as many survive as the side that has more of them.   *)
Cited(atts, id) == Cardinality({i \in DOMAIN atts : atts[i].tag = "SOUR" /\ Identity(atts[i]) = id})

Attached(m, new) ==
  LET isCitation == new.tag = "SOUR"
      seen == IF isCitation THEN Append(m.seen, new) ELSE m.seen
      more == isCitation /\ Cited(seen, Identity(new)) > Cited(m.atts, Identity(new))
      fits == {i \in DOMAIN m.atts : m.atts[i].tag = "SOUR" /\ MergedCitation(m.atts[i], new) # Conflict}
      first == CHOOSE i \in fits : \A j \in fits : i <= j
  IN [seen |-> seen,
      atts |-> IF new \in Range(m.atts) /\ ~ more THEN m.atts
               ELSE IF new \notin Range(m.atts) /\ isCitation /\ ~ more /\ fits # {}
                 THEN Put(m.atts, first, MergedCitation(m.atts[first], new))
               ELSE Append(m.atts, new)]

MergedFact(left, right) == FoldLeft(Attached, [seen |-> <<>>, atts |-> left], right).atts

-------------------------------------------------------------------------------
(* Records.                                                                *)
Led(m, p) == IF p \in DOMAIN m THEN m[p] ELSE p

(* _rewrite_lines                                                          *)
Rewritten(r, m) ==
  [r EXCEPT !.refs = [k \in DOMAIN r.refs |-> Led(m, r.refs[k])],
            !.atts = [k \in DOMAIN r.atts |-> [r.atts[k] EXCEPT !.value = Led(m, r.atts[k].value)]]]

(* _record_semantic_key, _family_semantic_key: what a record says, without *)
(* its pointer; a family without its citations.                            *)
SemanticKey(r, m) == [tag |-> r.tag, body |-> r.body, refs |-> Rewritten(r, m).refs]

(* One record of _map_nonpeople's loop; s is [map, canon, keys, next].     *)
(* keys holds the representatives: key -> pointer.                         *)
Placed(s, r) ==
  LET isMaster == r.ptr[1] = "m"
      known == IF isMaster /\ r.ptr \notin DOMAIN s.map
                 THEN [p \in DOMAIN s.map \cup {r.ptr} |-> Led(s.map, p)] ELSE s.map
      key == SemanticKey(r, known)
      old == {k \in DOMAIN s.keys : s.keys[k][1] = key}
      fresh == <<"m", r.tag, s.next[r.tag]>>
      target == IF old # {} THEN s.keys[CHOOSE k \in old : TRUE][2]
                ELSE IF isMaster THEN r.ptr ELSE fresh
      led == [p \in DOMAIN known \cup {r.ptr} |-> IF p = r.ptr THEN target ELSE known[p]]
      new == [Rewritten(r, led) EXCEPT !.ptr = target]
      at == {k \in DOMAIN s.canon : s.canon[k].ptr = target}
  IN [map |-> led,
      keys |-> IF old = {} THEN Append(s.keys, <<key, target>>) ELSE s.keys,
      next |-> IF old = {} /\ ~ isMaster THEN [s.next EXCEPT ![r.tag] = @ + 1] ELSE s.next,
      canon |-> IF at = {} THEN Append(s.canon, new)
                ELSE [k \in DOMAIN s.canon |->
                        IF k \in at /\ r.tag = "FAM"
                          THEN [s.canon[k] EXCEPT !.atts = MergedFact(s.canon[k].atts, new.atts)] ELSE s.canon[k]]]

(* _map_nonpeople: tag by tag, the master before the snapshot; then every  *)
(* representative once more, through the complete map.                     *)
ByTag(all) == FlattenSeq([k \in DOMAIN Order |-> SelectSeq(all, LAMBDA r : r.tag = Order[k])])

Mapped(master, incoming) ==
  FoldLeft(Placed, [map |-> <<>>, canon |-> <<>>, keys |-> <<>>, next |-> next], ByTag(master \o incoming))

-------------------------------------------------------------------------------
Init ==
  /\ records = Legacy
  /\ next = [t \in Range(Order) |-> 1]
  /\ map = <<>> /\ given = <<>> /\ updates = 0

Import(incoming) ==
  LET result == Mapped(records, incoming) IN
  /\ updates < MaxUpdates /\ updates' = updates + 1
  /\ records' = [i \in DOMAIN result.canon |-> Rewritten(result.canon[i], result.map)]
  /\ next' = result.next /\ map' = result.map /\ given' = incoming

Next == \E incoming \in Exports : Import(incoming)

Spec == Init /\ [][Next]_vars
-------------------------------------------------------------------------------
Pointers == {r.ptr : r \in Range(records)}

(* What a citation says is in another one.                                 *)
Covers(big, small) ==
  /\ big.tag = small.tag /\ big.value = small.value
  /\ \A k \in Range(small.kids) :
       \E b \in Range(big.kids) :
         b.tag = k.tag /\ b.value = k.value /\ Range(k.kids) \subseteq Range(b.kids)

(* A record that led to another one said the same, under the map of the    *)
(* update; nothing it cites is lost, nor how often it cites one place.     *)
SaysAll(big, small, m) ==
  LET new == Rewritten(small, m) IN
  /\ big.tag = new.tag /\ big.body = new.body /\ big.refs = new.refs
  /\ \A a \in Range(new.atts) :
       /\ \E b \in Range(big.atts) : Covers(b, a)
       /\ a.tag = "SOUR" => Cited(big.atts, Identity(a)) >= Cited(new.atts, Identity(a))

(* No record and no citation of the snapshot or of the previous master is  *)
(* lost, none is taken for one that says something else, and every pointer *)
(* leads to a record (_map_nonpeople, _merge_same_fact).                   *)
RecordsAreKept ==
  /\ \A r \in Range(given) : \E n \in Range(records) : n.ptr = Led(map, r.ptr) /\ SaysAll(n, r, map)
  /\ Cardinality(Pointers) = Len(records)
  /\ \A r \in Range(records) :
       Range(r.refs) \cup {a.value : a \in {x \in Range(r.atts) : x.tag = "SOUR"}} \subseteq Pointers

MasterIsKept ==
  [][updates' # updates => \A r \in Range(records) :
       \E n \in Range(records') : n.ptr = Led(map', r.ptr) /\ SaysAll(n, r, map')]_vars

(* The same snapshot again adds nothing, as long as no record names one    *)
(* that comes later in the order: such a note is new with every snapshot   *)
(* (_map_nonpeople, _merge_same_fact).                                     *)
NamesEarlierOnly(rs) ==
  \A r \in Range(rs) : \A p \in Range(r.refs) :
    \E i, j \in DOMAIN Order : i < j /\ Order[i] = p[2] /\ Order[j] = r.tag

RepeatsAddNothing ==
  [][updates' # updates /\ given' = given /\ NamesEarlierOnly(records \o given) => records' = records]_vars
===============================================================================
