----------------------------- MODULE IdentityMerge -----------------------------
(***************************************************************************)
(* gedcom merge, and with it subtree and quality (gedcom/service.py): the  *)
(* inputs are fingerprinted and read, the people of different files that   *)
(* may be the same are searched for within limits and merged one candidate *)
(* after the other (gedcom/identity.py), and what comes out is staged and  *)
(* published when the inputs are still the ones that were read.            *)
(*                                                                         *)
(* People are numbered in source order.  What two records tell of each     *)
(* other is part of the input: their score, whether they conflict ("hard"  *)
(* for DETERMINISTIC_HARD_CONFLICTS) and whether automatic_merge_safe.     *)
(***************************************************************************)
EXTENDS Naturals, FiniteSets, FiniteSetsExt, SequencesExt

CONSTANTS
  Jobs,       \* [kind, provider, auto, report, file, keys, score, conflict, safe]
  Limits,     \* DuplicateSearchLimits: [bucket, pairs, scored, candidates, each, adjudications]
  Threshold,
  MaxChanges  \* bound: changes of the inputs

VARIABLES
  job,
  found,      \* what the search yields: [pairs, candidates]
  next,       \* the candidate to be considered
  root,       \* root[p]: find(p)
  raw,        \* raw[p]: the people whose blocks the survivor p has
  spent,      \* adjudications_by_root
  count,      \* adjudication_count
  asked,      \* people whose cluster an adjudicator was asked about, each time
  together,   \* pairs that were merged as two single records, on an adjudicator's word
  source,     \* changes of the inputs since they were fingerprinted
  staged,     \* artifacts that are staged
  published,  \* artifacts under their names
  pc
vars == <<job, found, next, root, raw, spent, count, asked, together, source, staged, published, pc>>
clusters == <<root, raw, spent, count, asked, together>>

People == DOMAIN job.file

-------------------------------------------------------------------------------
(* bounded_candidate_pairs.                                                *)
Frequency(k) == Cardinality({p \in People : k \in job.keys[p]})
Buckets == {k \in UNION {job.keys[p] : p \in People} : Frequency(k) <= Limits.bucket}
Rarer(k, l) == Frequency(k) < Frequency(l) \/ (Frequency(k) = Frequency(l) /\ k < l)
Shared(l, r) == job.keys[l] \cap job.keys[r] \cap Buckets
Rarest(l, r) == CHOOSE k \in Shared(l, r) : \A m \in Shared(l, r) \ {k} : Rarer(k, m)

(* Each pair of a bucket belongs to the rarest key that the two share.     *)
AnyKey(visit) == TRUE
Owner(visit) == Rarest(visit.l, visit.r) = visit.key

Before(a, b) == a.l < b.l \/ (a.l = b.l /\ a.r < b.r)

Visits ==
  LET pairs(k) == {[key |-> k, l |-> l, r |-> r] : l, r \in {p \in People : k \in job.keys[p]}}
      ordered(k) == SetToSortSeq({v \in pairs(k) : v.l < v.r}, Before)
      keys == SetToSortSeq(Buckets, Rarer)
  IN FlattenSeq([i \in DOMAIN keys |-> ordered(keys[i])])

Count(yielded, p) == Cardinality({i \in DOMAIN yielded : p \in {yielded[i].l, yielded[i].r}})

Visit(yielded, v) ==
  IF /\ Len(yielded) < Limits.scored
     /\ Count(yielded, v.l) < Limits.pairs /\ Count(yielded, v.r) < Limits.pairs
     /\ job.file[v.l] # job.file[v.r] /\ Owner(v)
    THEN Append(yielded, v) ELSE yielded

Pairs == FoldLeft(Visit, <<>>, Visits)

(* find_duplicate_candidates keeps the best of them in a bounded heap.     *)
Better(a, b) ==
  job.score[a.l][a.r] > job.score[b.l][b.r] \/ (job.score[a.l][a.r] = job.score[b.l][b.r] /\ Before(a, b))

Worst(heap) == CHOOSE a \in heap : \A b \in heap \ {a} : Better(b, a)

Push(heap, v) ==
  IF job.score[v.l][v.r] < Threshold THEN heap
  ELSE IF Cardinality(heap) < Limits.candidates THEN heap \cup {v}
  ELSE IF Better(v, Worst(heap)) THEN (heap \ {Worst(heap)}) \cup {v}
  ELSE heap

Candidates(pairs) == SetToSortSeq(FoldLeft(Push, {}, pairs), Better)

(* estimate_duplicate_search.                                              *)
SharedRaw(k) == {<<l, r>> \in People \X People : l < r /\ k \in job.keys[l] \cap job.keys[r] /\ job.file[l] # job.file[r]}
RawPairs == MapThenSumSet(LAMBDA k : Cardinality(SharedRaw(k)), UNION {job.keys[p] : p \in People})
Estimate == Min({RawPairs, Limits.scored, (Cardinality(People) * Limits.pairs) \div 2})

-------------------------------------------------------------------------------
Init ==
  /\ job \in Jobs
  /\ found = [pairs |-> <<>>, candidates |-> <<>>] /\ next = 1
  /\ root = [p \in People |-> p] /\ raw = [p \in People |-> <<p>>]
  /\ spent = [p \in People |-> 0] /\ count = 0 /\ asked = [p \in People |-> 0] /\ together = {}
  /\ source = 0 /\ staged = {} /\ published = {} /\ pc = "read"

Go(there) == pc' = there
Left == found.candidates[next].l
Right == found.candidates[next].r
Members(r) == {p \in People : root[p] = r}
Conflict(l, r) == job.conflict[l][r]

(* _people_and_sources; the inputs are verified after they were read.      *)
Read ==
  /\ pc = "read"
  /\ IF source # 0 THEN Go("failed") /\ UNCHANGED found
     ELSE IF job.kind = "merge"
       THEN LET pairs == Pairs IN found' = [pairs |-> pairs, candidates |-> Candidates(pairs)] /\ Go("merging")
       ELSE UNCHANGED found /\ Go(IF job.kind = "quality" /\ job.provider THEN "asking" ELSE "merged")
  /\ UNCHANGED <<job, next, clusters, source, staged, published>>

(* merge_records, for one candidate: it is left alone when a member of the *)
(* one cluster conflicts with one of the other, or when the two survivors  *)
(* conflict hard.  Two single records tell what the input says of them;    *)
(* what the records of larger clusters tell is left open.                  *)
Considered == pc = "merging" /\ next <= Len(found.candidates)
Single(l, r) == Cardinality(Members(l)) = 1 /\ Cardinality(Members(r)) = 1

Assessments(l, r) ==
  IF Single(l, r)
    THEN IF Conflict(l, r) = "hard" THEN {"retain"} ELSE IF job.safe[l][r] THEN {"merge"} ELSE {"ask"}
  ELSE IF \E x \in Members(l), y \in Members(r) : Conflict(x, y) # "none" THEN {"retain"}
  ELSE {"retain", "merge", "ask"}

MayAsk(l, r) ==
  /\ count < Limits.adjudications
  /\ spent[l] < Limits.each /\ spent[r] < Limits.each

Keep == next' = next + 1 /\ UNCHANGED clusters

(* merge_two_records, and the union of the clusters.                       *)
SpentByLeft(l, r) == [spent EXCEPT ![r] = 0]
Spent(l, r) == [spent EXCEPT ![l] = @ + spent[r], ![r] = 0]

Union(l, r) ==
  /\ root' = [p \in People |-> IF root[p] = r THEN l ELSE root[p]]
  /\ raw' = [raw EXCEPT ![l] = @ \o raw[r], ![r] = <<>>]
  /\ spent' = Spent(l, r)
  /\ next' = next + 1

Consider ==
  /\ Considered
  /\ LET l == root[Left]
         r == root[Right]
     IN IF l = r THEN Keep /\ UNCHANGED pc
        ELSE \E what \in Assessments(l, r) :
          CASE what = "merge" -> Union(l, r) /\ UNCHANGED <<count, asked, together, pc>>
            [] what = "ask" /\ MayAsk(l, r) ->
                 /\ spent' = [spent EXCEPT ![l] = @ + 1, ![r] = @ + 1] /\ count' = count + 1
                 /\ asked' = [p \in People |-> IF root[p] \in {l, r} THEN asked[p] + 1 ELSE asked[p]]
                 /\ Go("asking") /\ UNCHANGED <<next, root, raw, together>>
            [] OTHER -> Keep /\ UNCHANGED pc
  /\ UNCHANGED <<job, found, source, staged, published>>

(* _identity_resolver and _quality_resolver verify the inputs before and   *)
(* after the provider is asked; a model may ask an operator instead, when  *)
(* it is not sure, unless the merge is automatic.                          *)
Ask ==
  /\ pc = "asking"
  /\ Go(IF job.provider /\ source # 0 THEN "cleanup" ELSE "asked")
  /\ UNCHANGED <<job, found, next, clusters, source, staged, published>>

Accepts(sure, duplicate, operator) == IF sure THEN duplicate ELSE ~ job.auto /\ operator

Answer ==
  /\ pc = "asked"
  /\ IF job.provider /\ source # 0 THEN Go("cleanup") /\ UNCHANGED <<next, clusters>>
     ELSE IF job.kind = "quality" THEN Go("merged") /\ UNCHANGED <<next, clusters>>
     ELSE
       /\ Go("merging")
       /\ \E sure \in BOOLEAN \cap {job.provider, FALSE}, duplicate, operator \in BOOLEAN :
            IF Accepts(sure, duplicate, operator)
              THEN /\ Union(root[Left], root[Right])
                   /\ together' = together \cup (IF Single(root[Left], root[Right]) THEN {{Left, Right}} ELSE {})
                   /\ UNCHANGED <<count, asked>>
              ELSE Keep
  /\ UNCHANGED <<job, found, source, staged, published>>

Merged ==
  /\ pc = "merging" /\ next > Len(found.candidates) /\ Go("merged")
  /\ UNCHANGED <<job, found, next, clusters, source, staged, published>>

(* _merge, _subtree and _quality: what is written is staged and claimed,   *)
(* one artifact after the other, and published together.                   *)
Artifacts == IF job.report THEN {"output", "report"} ELSE {"output"}

Stage ==
  /\ pc = "merged"
  /\ IF staged = Artifacts THEN Go("staged") /\ UNCHANGED staged
     ELSE staged' = staged \cup {IF "output" \in staged THEN "report" ELSE "output"} /\ UNCHANGED pc
  /\ UNCHANGED <<job, found, next, clusters, source, published>>

Publish ==
  /\ pc = "staged" /\ Go("validate")
  /\ published' = staged /\ staged' = {}
  /\ UNCHANGED <<job, found, next, clusters, source>>

(* validate_after: what was published is taken back.                       *)
AnyInputs == TRUE
SameInputs == source = 0

Validate ==
  /\ pc = "validate"
  /\ IF SameInputs THEN Go("done") /\ UNCHANGED published ELSE Go("cleanup") /\ published' = {}
  /\ UNCHANGED <<job, found, next, clusters, source, staged>>

(* A cancellation, or an error; the staged files are cleaned up.           *)
Fail ==
  /\ pc \in {"merging", "asking", "asked", "merged", "staged"} /\ Go("cleanup")
  /\ UNCHANGED <<job, found, next, clusters, source, staged, published>>

Cleanup ==
  /\ pc = "cleanup" /\ Go("failed") /\ staged' = {}
  /\ UNCHANGED <<job, found, next, clusters, source, published>>

Change ==
  /\ source < MaxChanges /\ pc \notin {"done", "failed"}
  /\ source' = source + 1
  /\ UNCHANGED <<job, found, next, clusters, staged, published, pc>>

Next == Read \/ Consider \/ Ask \/ Answer \/ Merged \/ Stage \/ Publish \/ Validate \/ Fail \/ Cleanup \/ Change

Spec == Init /\ [][Next]_vars

-------------------------------------------------------------------------------
(* The search for duplicates gives no pair twice and none of one file,     *)
(* keeps to its limits and to its estimate, and misses no pair that shares *)
(* a key of a bucket that is not oversized unless a limit was reached; the *)
(* candidates are the best of the pairs (bounded_candidate_pairs,          *)
(* find_duplicate_candidates, estimate_duplicate_search).                  *)
SearchHolds ==
  LET pairs == {<<v.l, v.r>> : v \in ToSet(found.pairs)}
      good == {v \in ToSet(found.pairs) : job.score[v.l][v.r] >= Threshold}
      limited(p) == Count(found.pairs, p) >= Limits.pairs
  IN (pc = "merging" /\ next = 1) =>
       /\ Cardinality(pairs) = Len(found.pairs) /\ Len(found.pairs) <= Estimate
       /\ \A p \in People : Count(found.pairs, p) <= Limits.pairs
       /\ \A l, r \in People :
            (l < r /\ job.file[l] # job.file[r] /\ Shared(l, r) # {}) =>
              <<l, r>> \in pairs \/ limited(l) \/ limited(r) \/ Len(found.pairs) = Limits.scored
       /\ \A v \in ToSet(found.pairs) : job.file[v.l] # job.file[v.r] /\ Shared(v.l, v.r) # {}
       /\ Len(found.candidates) = Min({Cardinality(good), Limits.candidates})
       /\ ToSet(found.candidates) \subseteq good
       /\ \A v \in ToSet(found.candidates), w \in good \ ToSet(found.candidates) : Better(v, w)

(* People whose records conflict hard never become one, nor do others that *)
(* conflict, unless an adjudicator said so of just the two; nobody is asked*)
(* about more often than the limit; and the survivors have the blocks of   *)
(* everybody, each once (merge_records, merge_two_records).                *)
ClustersHold ==
  /\ \A p, q \in People : p # q /\ root[p] = root[q] =>
       /\ Conflict(p, q) # "hard"
       /\ Conflict(p, q) = "soft" => {p, q} \in together
  /\ \A p \in People : asked[p] <= Limits.each
  /\ count <= Limits.adjudications
  /\ \A p \in People : root[root[p]] = root[p]
  /\ \A p \in People : ToSet(raw[p]) = Members(p) /\ Len(raw[p]) = Cardinality(Members(p))

(* What is published, and stays, was read from inputs that had not changed *)
(* when it was in place, and is all there; a failure leaves neither what   *)
(* was published nor what was staged (_merge, _subtree, _quality).         *)
OutputHolds ==
  /\ pc = "done" => published = Artifacts /\ source = 0 /\ staged = {}
  /\ pc = "failed" => published = {} /\ staged = {}
================================================================================
