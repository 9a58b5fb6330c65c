-------------------------------- MODULE MCFiles --------------------------------
(***************************************************************************)
(* How files are read, staged, replaced and indexed, what is made of the   *)
(* people in them, and mutations of files that become hard links to each   *)
(* other, checked in one run.  part says which module a behaviour is       *)
(* about.  AtomicFile has its own variables, which stay as they are in the *)
(* other parts; these have w1 and the next ones, and what a part does not  *)
(* need is "none".                                                         *)
(***************************************************************************)
EXTENDS AtomicFile, Sequences, TLC

CONSTANTS p1, p2

Symmetry == Permutations(Inv) \cup Permutations({p1, p2})

-------------------------------------------------------------------------------
(* FileIngress: characters and line ends.                                  *)
MCContents ==
  {<<>>, <<"x">>, <<"x", "n">>, <<"x", "n", "x">>, <<"x", "x", "n">>, <<"n", "n", "n">>,
   <<"x", "n", "x", "n">>}

(* RootIndex: candidates, and the fields they are searched by.             *)
Nowhere == [all |-> FALSE, pattern |-> FALSE, ref |-> {}, source |-> {}, text |-> {}]
MCSearches ==
  {[Nowhere EXCEPT !.all = TRUE],
   [Nowhere EXCEPT !.pattern = TRUE, !.ref = {2}, !.text = {2, 3}],
   [Nowhere EXCEPT !.source = {2, 3}, !.text = {1, 2, 3}],
   [Nowhere EXCEPT !.text = {1, 3, 5}],
   [Nowhere EXCEPT !.pattern = TRUE, !.ref = {6}]}
MCInputs == {<<2, 1, 3, 5, 4>>, <<1, 4, 1>>, <<3, 4>>}

(* IdentityMerge: five people of three files.                              *)
Merge(provider, auto, keys, conflict, safe, score) ==
  [kind |-> "merge", provider |-> provider, auto |-> auto, report |-> provider, file |-> <<1, 1, 2, 2, 3>>,
   keys |-> keys, score |-> score, conflict |-> conflict, safe |-> safe]
Keys1 == <<{1, 2}, {1}, {1, 2}, {2}, {2, 3}>>
Keys2 == <<{1, 4}, {2, 4}, {1, 2, 3}, {2}, {3, 4}>>
Scores == {[p \in 1..5 |-> [q \in 1..5 |-> IF {p, q} = {1, 5} THEN 1 ELSE 3]],
           [p \in 1..5 |-> [q \in 1..5 |-> (p + q) % 5]]}
Conflicts == {[p \in 1..5 |-> [q \in 1..5 |-> IF {p, q} \in {{1, 3}} THEN "soft" ELSE IF {p, q} \in {{3, 5}, {2,4}} THEN "hard" ELSE "none"]],
              [p \in 1..5 |-> [q \in 1..5 |-> IF {p, q} = {1, 5} THEN "soft" ELSE "none"]]}
Safes == {[p \in 1..5 |-> [q \in 1..5 |-> FALSE]], [p \in 1..5 |-> [q \in 1..5 |-> {p, q} \in {{2, 3}, {4, 5}}]]}
MCMergers ==
  {Merge(provider, auto, keys, conflict, safe, score) :
     provider, auto \in BOOLEAN, keys \in {Keys1, Keys2}, conflict \in Conflicts, safe \in Safes, score \in Scores}
  \cup {[kind |-> kind, provider |-> provider, auto |-> TRUE, report |-> FALSE, file |-> <<1>>, keys |-> <<{}>>,
         score |-> <<<<0>>>>, conflict |-> <<<<"none">>>>, safe |-> <<<<FALSE>>>>] :
         kind \in {"subtree", "quality"}, provider \in BOOLEAN}
MCSearchLimits == [bucket |-> 4, pairs |-> 3, scored |-> 6, candidates |-> 4, each |-> 2, adjudications |-> 3]

(* FamilyScope: a plain tree, one where an uncle marries his niece, two    *)
(* that go in circles, and two files with the same pointers.               *)
P(file, n, refs) == [file |-> file, tag |-> "INDI", name |-> <<"I", n>>, parents |-> {}, children |-> {}, refs |-> refs]
F(file, n, ps, cs, refs) ==
  [file |-> file, tag |-> "FAM", name |-> <<"F", n>>, parents |-> {<<"I", k>> : k \in ps},
   children |-> {<<"I", k>> : k \in cs}, refs |-> refs]
N(file, name, refs) == [file |-> file, tag |-> "NOTE", name |-> name, parents |-> {}, children |-> {}, refs |-> refs]
H(refs) == [file |-> 1, tag |-> "HEAD", name |-> <<"HEAD">>, parents |-> {}, children |-> {}, refs |-> refs]
People(k) == [n \in 1..k |-> P(1, n, {})]
Plain == People(8) \o <<F(1, 1, {1, 2}, {3, 4}, {}), F(1, 2, {3, 5}, {6}, {}), F(1, 3, {5, 7}, {8}, {})>>
Niece == People(9) \o <<F(1, 1, {1, 2}, {3, 4}, {}), F(1, 2, {3, 5}, {6}, {}), F(1, 3, {4, 6}, {7}, {}),
                        F(1, 4, {6, 8}, {9}, {})>>
Circle == People(4) \o <<F(1, 1, {1, 4}, {2}, {}), F(1, 2, {2}, {3}, {}), F(1, 3, {3}, {1}, {})>>
Equal == People(4) \o <<F(1, 1, {1, 2}, {3}, {}), F(1, 2, {1}, {2}, {}), F(1, 3, {2}, {1}, {}), F(1, 4, {4}, {1}, {})>>
Notes ==
  <<P(1, 1, {<<"N", 1>>}), P(1, 2, {}), P(1, 3, {<<"N", 3>>}), F(1, 1, {1, 2}, {9}, {<<"S">>}),
    N(1, <<"N", 1>>, {<<"N", 2>>}), N(1, <<"N", 2>>, {<<"N", 1>>}), N(1, <<"N", 3>>, {<<"T">>}),
    N(1, <<"S">>, {}), N(1, <<"T">>, {}), H({<<"N", 7>>}),
    P(2, 1, {<<"N", 2>>, <<"S">>}), P(2, 2, {<<"T">>}), F(2, 1, {1}, {2}, {<<"N", 7>>}),
    N(2, <<"N", 7>>, {<<"S">>}), N(2, <<"X", 2, 1>>, {})>>
J(program, scope, limit, root, same, records) ==
  [program |-> program, scope |-> scope, limit |-> limit, root |-> root, same |-> same, records |-> records]
MCSelections ==
  {J("gedcom", scope, limit, 1, <<>>, t) : scope \in {"ancestors", "descendants"}, limit \in {<<>>, <<2>>}, t \in {Niece, Circle}} \cup
  {J("gedcom", "ancestors", limit, 7, <<>>, Niece) : limit \in {<<>>, <<0>>, <<1>>}} \cup
  {J("gedcom", "connected", <<>>, 3, same, t) : same \in {<<>>, <<2, 7>>}, t \in {Plain}} \cup
  {J("gedcom", "connected", <<>>, 3, <<>>, Circle)} \cup
  {J("rootsmagic", scope, limit, 4, <<>>, Niece) : scope \in {"connected", "ancestors", "descendants"}, limit \in {<<>>, <<1>>}} \cup
  {J("quality", "ancestors", <<>>, root, <<>>, t) : root \in {1, 3}, t \in {Circle, Equal}} \cup
  {J("quality", "ancestors", <<>>, 7, <<>>, Niece)} \cup
  {J("gedcom", "connected", <<>>, root, same, Notes) : root \in {3, 11}, same \in {<<>>, <<1, 11>>}}

(* MutationCoordinator: two mutations, of names that are not the same file *)
(* until a program outside the protocol makes them so.                     *)
MCBound == "k1" :> {"alias"} @@ "k2" :> {"b"}
MCDest == "k1" :> "alias" @@ "k2" :> "b"
MCCanon == "a" :> "a" @@ "alias" :> "a" @@ "b" :> "b"

-------------------------------------------------------------------------------
VARIABLES part, w1, w2, w3, w4, w5, w6, w7, w8, w9, w10, w11, w12, w13, w14, w15, w16, w17, w18

others == <<w1, w2, w3, w4, w5, w6, w7, w8, w9, w10, w11, w12, w13, w14, w15, w16, w17, w18>>
after10 == <<w11, w12, w13, w14, w15, w16, w17, w18>>
after11 == <<w12, w13, w14, w15, w16, w17, w18>>
after12 == <<w13, w14, w15, w16, w17, w18>>
after13 == <<w14, w15, w16, w17, w18>>
all == <<part, vars, others>>

Snapshot == INSTANCE SourceSnapshot WITH
  Kinds <- {"operation", "table"}, MaxChanges <- 2,
  main <- w1, wal <- w2, shm <- w3, journal <- w4, root <- w5, changes <- w6, moments <- w7,
  todo <- w8, print <- w9, copy <- w10, connection <- w11, read <- w12, late <- w13,
  wanted <- w14, reason <- w15, closing <- w16, error <- w17, outcome <- w18
Ingress == INSTANCE FileIngress WITH
  Kinds <- {"text", "copy"}, Contents <- MCContents, MaxBytes <- 3, MaxLine <- 2,
  MaxRecords <- 2, Chunk <- 2, MaxChanges <- 2,
  files <- w1, was <- w2, source <- w3, target <- w4, foreign <- w5, kind <- w6, passes <- w7,
  step <- w8, preflight <- w9, expected <- w10, open <- w11, taken <- w12, eof <- w13,
  lines <- w14, print <- w15, made <- w16, outcome <- w17, changes <- w18
Staged == INSTANCE StagedFile WITH
  Kinds <- {"bytes", "library"}, MaxChanges <- 4,
  kind <- w1, files <- w2, path <- w3, registry <- w4, quarantine <- w5, pc <- w6, my <- w7,
  claimed <- w8, theirs <- w9, clock <- w10, changes <- w11
Roots == INSTANCE RootIndex WITH
  Builders <- {"p", "q"}, Inputs <- MCInputs, Batch <- 2, MaxRows <- 5, Searches <- MCSearches,
  Limits <- {1, 2}, ScanLimit <- 2, MaxUpsets <- 1,
  input <- w1, work <- w2, staged <- w3, path <- w4, stamp <- w5, damaged <- w6, cache <- w7,
  result <- w8, reader <- w9, cursor <- w10, page <- w11, upsets <- w12
Merger == INSTANCE IdentityMerge WITH
  Jobs <- MCMergers, Limits <- MCSearchLimits, Threshold <- 2, MaxChanges <- 1,
  job <- w1, found <- w2, next <- w3, root <- w4, raw <- w5, spent <- w6, count <- w7,
  asked <- w8, together <- w9, source <- w10, staged <- w11, published <- w12, pc <- w13
Scopes == INSTANCE FamilyScope WITH
  Jobs <- MCSelections,
  job <- w1, ptr <- w2, keep <- w3, fams <- w4, gens <- w5, cycles <- w6, pending <- w7,
  now <- w8, aux <- w9, pc <- w10
Coordinator == INSTANCE MutationCoordinator WITH
  Proc <- {p1, p2}, Key <- {"k1", "k2"}, Path <- {"a", "b", "alias"}, Canon <- MCCanon,
  Bound <- MCBound, Dest <- MCDest, Object <- Inv, Retained <- {"k1", "k2"}, Foreign <- {"a"},
  LockLoss <- {"b"}, MaxGen <- 1, MaxFence <- 2,
  at <- w1, gen <- w2, moved <- w3, row <- w4, scopes <- w5, lockOf <- w6, pc <- w7, req <- w8,
  expect <- w9, held <- w10, fence <- w11, live <- w12, done <- w13
Absent13 == /\ w14 = "none" /\ w15 = "none" /\ w16 = "none" /\ w17 = "none" /\ w18 = "none"
Absent12 == w13 = "none" /\ Absent13
Absent11 == w12 = "none" /\ Absent12
Absent10 == w11 = "none" /\ Absent11
Absent ==
  /\ w1 = "none" /\ w2 = "none" /\ w3 = "none" /\ w4 = "none" /\ w5 = "none"
  /\ w6 = "none" /\ w7 = "none" /\ w8 = "none" /\ w9 = "none" /\ w10 = "none" /\ Absent10
NoReplacement == Init /\ target = None
TwoFiles == None \notin {w1["a"], w1["b"]} /\ w1["a"] # w1["b"]

MCInit ==
  \/ part = "replace" /\ Init /\ Absent
  \/ part = "snapshot" /\ NoReplacement /\ Snapshot!Init
  \/ part = "ingress" /\ NoReplacement /\ Ingress!Init
  \/ part = "staged" /\ NoReplacement /\ Staged!Init /\ Absent11
  \/ part = "roots" /\ NoReplacement /\ Roots!Init /\ Absent12
  \/ part = "people" /\ NoReplacement /\ Merger!Init /\ Absent13
  \/ part = "aliases" /\ NoReplacement /\ Coordinator!Init /\ TwoFiles /\ Absent13
  \/ part = "scopes" /\ NoReplacement /\ Scopes!Init /\ Absent10

MCNext ==
  \/ part = "replace" /\ Next /\ UNCHANGED <<part, others>>
  \/ part = "snapshot" /\ Snapshot!Next /\ UNCHANGED <<part, vars>>
  \/ part = "ingress" /\ Ingress!Next /\ UNCHANGED <<part, vars>>
  \/ part = "staged" /\ Staged!Next /\ UNCHANGED <<part, vars, after11>>
  \/ part = "roots" /\ Roots!Next /\ UNCHANGED <<part, vars, after12>>
  \/ part = "people" /\ Merger!Next /\ UNCHANGED <<part, vars, after13>>
  \/ part = "aliases" /\ Coordinator!Next /\ UNCHANGED <<part, vars, after13>>
  \/ part = "scopes" /\ Scopes!Next /\ UNCHANGED <<part, vars, after10>>

MCSpec == MCInit /\ [][MCNext]_all

-------------------------------------------------------------------------------
(* What is read of a file that others may be changing is one version of    *)
(* it, and within its limits (rootsmagic/source.py, core/ingress.py).      *)
ReadsAreWhole ==
  /\ part = "snapshot" => Snapshot!TypeOK /\ Snapshot!OneGeneration /\ Snapshot!EndsTruly
  /\ part = "ingress" =>
       /\ Ingress!TypeOK /\ Ingress!WholeOrNothing
       /\ Ingress!WithinBudget /\ Ingress!TargetsStay

(* Cleaning up spares the files of others, a publication takes over what   *)
(* was sealed, and nothing stays of what failed (core/publication.py).     *)
StagesHold ==
  part = "staged" =>
    Staged!TypeOK /\ Staged!OthersKeep /\ Staged!ClaimsTheSealed /\ Staged!NothingStays

(* The index of an inspection has its candidates, and what is shown of it  *)
(* page by page is what it has (gedcom/root_index.py).                     *)
RootsHold == part = "roots" => Roots!IndexHolds /\ Roots!PagesAreTrue

(* Two people become one only as the limits, the conflicts and the         *)
(* decisions allow, only verified inputs are published, and a rooted       *)
(* export has the people, families and records of its scope                *)
(* (gedcom/identity.py, gedcom/service.py, gedcom/graph.py,                *)
(* gedcom/serialization.py, rootsmagic/mapping.py).                        *)
PeopleHold ==
  /\ part = "people" => Merger!SearchHolds /\ Merger!ClustersHold /\ Merger!OutputHolds
  /\ part = "scopes" => Scopes!ScopesHold

(* Two owners never work on one inode, also when a name has become a hard  *)
(* link to the other's file since its mutation was interrupted             *)
(* (core/mutation.py recover, _validate_owner).                            *)
AliasesExclude == part = "aliases" => Coordinator!AliasesExclude
===============================================================================
