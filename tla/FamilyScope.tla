------------------------------ MODULE FamilyScope ------------------------------
(***************************************************************************)
(* What a rooted export selects: the pointers of the input files are made  *)
(* different (gedcom/parser.py), the people of a scope are walked to from  *)
(* the root (gedcom/graph.py, and again in rootsmagic/mapping.py and for   *)
(* the generations of a quality report in gedcom/quality.py), and the      *)
(* records that these refer to are retained (gedcom/serialization.py).     *)
(*                                                                         *)
(* A pointer @I7@ is <<"I", 7>>, and @I2_1@ is <<"I", 2, 1>>.  The sets    *)
(* that the walks iterate over have no order: any may come.                *)
(***************************************************************************)
EXTENDS Naturals, FiniteSets, FiniteSetsExt, SequencesExt, Functions

CONSTANTS
  Jobs  \* [program, scope, limit, root, same, records]: root and the two of same
        \* (or <<>>) are numbers of records, limit is <<>> or <<generations>>, and
        \* a record is [file, tag, name, parents, children, refs]

VARIABLES
  job,
  ptr,      \* ptr[<<file, name>>]: the pointer_map of the file
  keep,     \* keep_people, seen
  fams,     \* keep_families
  gens,     \* generations
  cycles,
  pending,  \* the queue of paths from the root: the last of each is to be visited
  now,      \* [path, left]: the families of the one visited that are left, or <<>>
  aux,      \* retained
  pc
vars == <<job, ptr, keep, fams, gens, cycles, pending, now, aux, pc>>

Records == DOMAIN job.records
Tagged(tag) == {i \in Records : job.records[i].tag = tag}
Names(i) ==
  LET r == job.records[i] IN {r.name} \cup r.parents \cup r.children \cup r.refs

-------------------------------------------------------------------------------
(* load_sources: the records of a file get their pointers first, then what *)
(* is only referred to.                                                    *)
Fresh(used, name, file) ==
  IF name \notin used THEN name
  ELSE LET prefix == IF Len(name) = 2 THEN name[1] ELSE "X"
           k == CHOOSE n \in 1..(Cardinality(used) + 1) :
                  /\ <<prefix, file, n>> \notin used
                  /\ \A m \in 1..(n - 1) : <<prefix, file, m>> \in used
       IN <<prefix, file, k>>

Files == {job.records[i].file : i \in Records}
OfFile(file) == {i \in Records : job.records[i].file = file}
Declared(file) == {job.records[i].name : i \in {j \in OfFile(file) : job.records[j].tag # "HEAD"}}
Referred(file) == UNION {Names(i) : i \in OfFile(file)} \ {<<"HEAD">>}

Listed(S) == FoldSet(LAMBDA x, s : Append(s, x), <<>>, S)
DeclaredOnly(file) == Listed(Declared(file))
ToAllocate(file) == Listed(Declared(file)) \o Listed(Referred(file) \ Declared(file))

Allocate(map, key) == map @@ (key :> Fresh(Range(map), key[2], key[1]))

PointerMaps ==
  FoldLeft(Allocate, <<>>,
           FlattenSeq([file \in 1..Cardinality(Files) |->
                         [n \in DOMAIN ToAllocate(file) |-> <<file, ToAllocate(file)[n]>>]]))

(* A reference that no allocation knows is left as it is.                  *)
Of(file, name) == IF <<file, name>> \in DOMAIN ptr THEN ptr[<<file, name>>] ELSE name

-------------------------------------------------------------------------------
(* merge_records may have made two people one: pointer_map.                *)
Pointer(i) == Of(job.records[i].file, job.records[i].name)
Canonical(p) == IF job.same # <<>> /\ p = Pointer(job.same[2]) THEN Pointer(job.same[1]) ELSE p
All(i, names) == {Canonical(Of(job.records[i].file, n)) : n \in names}
Parents(f) == All(f, job.records[f].parents)
Children(f) == All(f, job.records[f].children)
Members(f) == Parents(f) \cup Children(f)
Known == {Canonical(Pointer(i)) : i \in Tagged("INDI")}
Families == Tagged("FAM")
Root == Canonical(Pointer(job.root))

-------------------------------------------------------------------------------
(* What one person leads to.                                               *)
AsChild(p) == {f \in Families : p \in Children(f)}
AsParent(p) == {f \in Families : p \in Parents(f)}
AsMember(p) == AsChild(p) \cup AsParent(p)
Ways(p) == IF job.scope = "ancestors" THEN AsChild(p) ELSE AsParent(p)

(* The parents of a family are kept with their children, unvisited.        *)
Beside(f) == IF job.scope = "ancestors" THEN {} ELSE Parents(f)
Following(f) == IF job.scope = "ancestors" THEN Parents(f) ELSE Children(f)
Led(f, kept) == Following(f) \ (kept \cup Beside(f))

Adjacent(p) ==
  CASE job.scope = "ancestors" -> UNION {Parents(f) : f \in AsChild(p)}
    [] job.scope = "descendants" -> UNION {Children(f) : f \in AsParent(p)}
    [] job.scope = "connected" -> UNION {Members(f) : f \in AsMember(p)}

Within(path) == \A n \in Range(job.limit) : Len(path) <= n
Onward(path, S) == {[k \in DOMAIN order |-> Append(path, order[k])] : order \in SetToSeqs(S)}

Init ==
  /\ job \in Jobs
  /\ ptr = <<>> /\ keep = {} /\ fams = {} /\ gens = <<>> /\ cycles = {}
  /\ pending = <<>> /\ now = <<>> /\ aux = {} /\ pc = "load"

Load ==
  /\ pc = "load" /\ pc' = "begin"
  /\ ptr' = PointerMaps
  /\ UNCHANGED <<job, keep, fams, gens, cycles, pending, now, aux>>

Component == job.program = "gedcom" /\ job.scope = "connected"

Begin ==
  /\ pc = "begin" /\ pc' = "walk"
  /\ pending' = <<(<<Root>>)>>
  /\ keep' = IF Component THEN {} ELSE {Root}
  /\ gens' = Root :> 0
  /\ UNCHANGED <<job, ptr, fams, cycles, now, aux>>

(* connected_tree_pointers: what a stack of unordered sets gives next is   *)
(* any of it, and the families of a person come at once.                   *)
Connect(n) ==
  /\ pc = "walk" /\ Component
  /\ LET p == Last(pending[n])
         new == AsMember(p) \ fams
     IN IF p \in keep \/ p \notin Known
          THEN pending' = RemoveAt(pending, n) /\ UNCHANGED <<keep, fams>>
          ELSE /\ keep' = keep \cup {p}
               /\ fams' = fams \cup new
               /\ pending' = RemoveAt(pending, n)
                               \o Listed({<<q>> : q \in UNION {Members(f) : f \in new}})
  /\ UNCHANGED <<job, ptr, gens, cycles, now, aux, pc>>

(* scoped_tree_pointers.                                                   *)
Visit ==
  /\ pc = "walk" /\ job.program = "gedcom" /\ ~Component
  /\ pending # <<>> /\ now = <<>>
  /\ LET path == Head(pending)
     IN now' = IF Within(path) /\ Ways(Last(path)) # {}
                 THEN <<[path |-> path, left |-> Ways(Last(path))]>> ELSE <<>>
  /\ pending' = Tail(pending)
  /\ UNCHANGED <<job, ptr, keep, fams, gens, cycles, aux, pc>>

Family(f) ==
  /\ now # <<>> /\ f \in now[1].left
  /\ fams' = fams \cup {f}
  /\ keep' = keep \cup Beside(f) \cup Following(f)
  /\ \E paths \in Onward(now[1].path, Led(f, keep)) : pending' = pending \o paths
  /\ now' = IF now[1].left = {f} THEN <<>> ELSE <<[now[1] EXCEPT !.left = @ \ {f}]>>
  /\ UNCHANGED <<job, ptr, gens, cycles, aux, pc>>

(* RootsMagicMapper._scope_people.                                         *)
Relate ==
  /\ pc = "walk" /\ job.program = "rootsmagic" /\ pending # <<>>
  /\ LET path == Head(pending)
         new == IF Within(path) THEN Adjacent(Last(path)) \ keep ELSE {}
     IN /\ keep' = keep \cup new
        /\ \E paths \in Onward(path, new) : pending' = Tail(pending) \o paths
  /\ UNCHANGED <<job, ptr, fams, gens, cycles, now, aux, pc>>

(* ancestor_generations.                                                   *)
Ascend ==
  /\ pc = "walk" /\ job.program = "quality" /\ pending # <<>>
  /\ LET path == Head(pending)
         p == Last(path)
         parents == Adjacent(p)
         new == {q \in parents \ Range(path) : q \in DOMAIN gens => gens[p] + 1 < gens[q]}
     IN /\ cycles' = cycles \cup UNION {{path[k] : k \in SelectInSeq(path, LAMBDA v : v = q)..Len(path)} :
                                        q \in parents \cap Range(path)}
        /\ gens' = [q \in new |-> gens[p] + 1] @@ gens
        /\ \E paths \in Onward(path, new) : pending' = Tail(pending) \o paths
  /\ UNCHANGED <<job, ptr, keep, fams, now, aux, pc>>

Walked ==
  /\ pc = "walk" /\ pending = <<>> /\ now = <<>>
  /\ pc' = IF job.program = "gedcom" THEN "retain" ELSE "done"
  /\ UNCHANGED <<job, ptr, keep, fams, gens, cycles, pending, now, aux>>

-------------------------------------------------------------------------------
(* render_gedcom: the notes, sources, media, repositories and submitters   *)
(* that the header, the people and the families kept refer to, and those   *)
(* that these refer to.                                                    *)
Written(i) ==
  CASE job.records[i].tag = "HEAD" -> TRUE
    [] job.records[i].tag = "INDI" -> Canonical(Pointer(i)) \in keep
    [] job.records[i].tag = "FAM" -> i \in fams
    [] OTHER -> Pointer(i) \in aux
References == UNION {All(i, job.records[i].refs) : i \in {j \in Records : Written(j)}}

Retain(i) ==
  /\ pc = "retain"
  /\ job.records[i].tag = "NOTE" /\ Pointer(i) \in References \ aux
  /\ aux' = aux \cup {Pointer(i)}
  /\ UNCHANGED <<job, ptr, keep, fams, gens, cycles, pending, now, pc>>

Finish ==
  /\ pc = "retain" /\ {Pointer(i) : i \in Tagged("NOTE")} \cap References \subseteq aux
  /\ pc' = "done"
  /\ UNCHANGED <<job, ptr, keep, fams, gens, cycles, pending, now, aux>>

Over == pc = "done" /\ UNCHANGED vars

Next ==
  \/ Load \/ Begin \/ Visit \/ Relate \/ Ascend \/ Walked \/ Finish \/ Over
  \/ \E n \in DOMAIN pending : Connect(n)
  \/ \E f \in Families : Family(f)
  \/ \E i \in Records : Retain(i)

Spec == Init /\ [][Next]_vars

-------------------------------------------------------------------------------
(* Every record and every reference of every file has a pointer of its     *)
(* own: "a dangling pointer in one source cannot bind to a record in       *)
(* another" (parser.py, load_sources).                                     *)
ReferencesStay ==
  pc = "begin" =>
    /\ DOMAIN ptr = UNION {{<<file, n>> : n \in Declared(file) \cup Referred(file)} : file \in Files}
    /\ IsInjective(ptr)

(* The people at most n steps of Step away from the root.                  *)
Reach(Step(_), n) ==
  LET R[k \in 0..n] == IF k = 0 THEN {Root} ELSE R[k - 1] \cup UNION {Step(p) : p \in R[k - 1]}
  IN R[n]
Parenthood(p) == UNION {Parents(f) : f \in AsChild(p)}
Offspring(p) == UNION {Children(f) : f \in AsParent(p)}
Kin(p) == IF p \in Known THEN UNION {Members(f) : f \in AsMember(p)} ELSE {}
Everyone == Cardinality(Records)
Bound(n) == IF job.limit = <<>> THEN n ELSE job.limit[1]

(* A rooted selection has the people and the families of its scope and no  *)
(* others, whatever the order that the sets came in: all that are          *)
(* connected; the ancestors of so many generations with the families they  *)
(* were parents in; the descendants, with the other parents of the         *)
(* families they had, all found where no descendant is such a parent; and  *)
(* in a RootsMagic database those within so many steps.                    *)
SelectionsHold ==
  pc = "done" =>
    LET Upto(Step(_), less) ==
          IF job.limit # <<>> /\ job.limit[1] < less THEN {}
          ELSE Reach(Step, Bound(Everyone) - less)
        Had(S, Role(_)) == {f \in Families : Role(f) \cap S # {}}
        Line == Reach(Offspring, Bound(Everyone))
        Mixed == \E f \in Families : Cardinality(Parents(f) \cap Line) > 1
    IN CASE job.program = "rootsmagic" -> keep = Reach(Adjacent, Bound(Everyone))
         [] job.program = "quality" -> DOMAIN gens = Reach(Parenthood, Everyone)
         [] Component ->
              /\ keep = Reach(Kin, Everyone) \cap Known
              /\ fams = Had(keep, Members)
         [] job.program = "gedcom" /\ job.scope = "ancestors" ->
              /\ keep = Reach(Parenthood, Bound(Everyone))
              /\ fams = Had(Upto(Parenthood, 1), Children)
         [] job.program = "gedcom" /\ job.scope = "descendants" ->
              /\ keep \subseteq Line \cup UNION {Parents(f) : f \in Had(Upto(Offspring, 1), Parents)}
              /\ fams \subseteq Had(Upto(Offspring, 1), Parents)
              /\ \A f \in fams : Parents(f) \cup Children(f) \subseteq keep
              /\ ~Mixed => Line \subseteq keep /\ fams = Had(Upto(Offspring, 1), Parents)

(* The generation of an ancestor is the least number of steps to it, who   *)
(* is reported to be in a cycle descends from themselves, and a root that  *)
(* does is reported.                                                       *)
GenerationsHold ==
  job.program = "quality" /\ pc = "done" =>
    /\ \A p \in DOMAIN gens, n \in 0..Everyone : p \in Reach(Parenthood, n) <=> gens[p] <= n
    /\ LET Above(p) ==
             LET R[k \in 0..Everyone] == IF k = 0 THEN Parenthood(p)
                                     ELSE R[k - 1] \cup UNION {Parenthood(q) : q \in R[k - 1]}
             IN R[Everyone]
       IN /\ \A p \in cycles : p \in Above(p)
          /\ Root \in Above(Root) => Root \in cycles

(* A rooted export refers to no record it left out of the input, and has   *)
(* none that nothing in it refers to.                                      *)
NothingDangles ==
  job.program = "gedcom" /\ pc = "done" =>
    LET notes == {Pointer(i) : i \in Tagged("NOTE")}
    IN /\ References \cap notes = aux
       /\ \A lost \in SUBSET aux :
            lost # {} =>
              \E i \in Records :
                /\ Written(i) /\ (job.records[i].tag = "NOTE" => Pointer(i) \notin lost)
                /\ All(i, job.records[i].refs) \cap lost # {}

ScopesHold == ReferencesStay /\ SelectionsHold /\ GenerationsHold /\ NothingDangles

(* "Select connected, ancestor, or descendant records": every descendant   *)
(* is found (gedcom/graph.py:202).                                         *)
DescendantsAreFound ==
  job.program = "gedcom" /\ job.scope = "descendants" /\ pc = "done" =>
    Reach(Offspring, Bound(Everyone)) \subseteq keep
================================================================================
