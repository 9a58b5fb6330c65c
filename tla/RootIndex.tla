------------------------------- MODULE RootIndex -------------------------------
(***************************************************************************)
(* The private index of root candidates: gedcom/root_index.py builds it in *)
(* a staged database that is linked to its name once it is complete, the   *)
(* service verifies and leases it (gedcom/service.py), and searches go     *)
(* through it page by page with cursors (application/gedcom_jobs.py).      *)
(* Without an index the candidates are in memory and are searched there.   *)
(*                                                                         *)
(* A candidate is its place in the display order.  A search is the record  *)
(* of what its text finds: [all, pattern, ref, source, text].              *)
(***************************************************************************)
EXTENDS Naturals, FiniteSets, SequencesExt, Functions

CONSTANTS
  Builders,   \* processes that build an index under the same name
  Inputs,     \* sequences of candidates that they may be given
  Batch,      \* _INSERT_BATCH_SIZE
  MaxRows,    \* max_bytes, in rows
  Searches, Limits,
  ScanLimit,  \* _SUBSTRING_SCAN_LIMIT and MAX_ROOT_SCAN_CANDIDATES
  MaxUpsets   \* bound on errors, crashes and what other programs do

VARIABLES
  input,    \* input[b]
  work,     \* work[b]: [pc, left, rows, count, complete]
  staged,   \* builders whose staged files exist
  path,     \* the builder whose file has the name, "none", or "gone" with the directory
  stamp,    \* stamp[b]: how often the file changed (st_ctime_ns)
  damaged,  \* files that another program wrote into
  cache,    \* _VALIDATED_INDEXES of the path: an identity, or <<>>
  result,   \* of the inspection: "none", "indexed" (and leased), "in memory", or "gone"
  reader,   \* a call that reads the index: [pc, id, ask, page]
  cursor,   \* the cursor given out last, with what the pages up to it showed
  page,     \* the page given out last
  upsets
building == <<input, work, staged, path, stamp, damaged>>
reading == <<cache, reader, cursor, page>>
vars == <<building, reading, result, upsets>>

Idle == [pc |-> "idle", id |-> <<>>, ask |-> <<>>, page |-> <<>>]

Init ==
  /\ input \in [Builders -> Inputs]
  /\ work = [b \in Builders |-> [pc |-> "new", left |-> input[b], rows |-> {}, count |-> 0,
                                 complete |-> FALSE]]
  /\ staged = {} /\ path = "none" /\ stamp = [b \in Builders |-> 0] /\ damaged = {}
  /\ cache = <<>> /\ result \in {"none", "in memory"} /\ reader = Idle
  /\ cursor = {} /\ page = <<>> /\ upsets = 0

-------------------------------------------------------------------------------
(* build_root_index.                                                       *)
Over == {"built", "failed", "crashed"}
At(b, here) == work[b].pc = here
Work(b, new) == work' = [work EXCEPT ![b] = new @@ @]
BuildsOnly == UNCHANGED <<input, damaged, reading, result>>
Upset == upsets < MaxUpsets /\ upsets' = upsets + 1

Begin(b) ==
  /\ At(b, "new") /\ result # "in memory"
  /\ IF path = "none"
       THEN staged' = staged \cup {b} /\ Work(b, [pc |-> "fill"])
       ELSE UNCHANGED staged /\ Work(b, [pc |-> "failed"])
  /\ BuildsOnly /\ UNCHANGED <<path, stamp, upsets>>

(* One batch: a person reference that is there twice is an IntegrityError. *)
Insert(b) ==
  LET size == Min({Batch, Len(work[b].left)})
      batch == SubSeq(work[b].left, 1, size)
      rows == work[b].rows \cup ToSet(batch)
  IN
  /\ At(b, "fill") /\ work[b].left # <<>>
  /\ IF Cardinality(rows) = work[b].count + size /\ Cardinality(rows) <= MaxRows
       THEN Work(b, [left |-> SubSeq(work[b].left, size + 1, Len(work[b].left)), rows |-> rows,
                     count |-> work[b].count + size])
       ELSE Work(b, [pc |-> "cleanup"])
  /\ BuildsOnly /\ UNCHANGED <<staged, path, stamp, upsets>>

MarkComplete(b) ==
  /\ At(b, "fill") /\ work[b].left = <<>>
  /\ Work(b, [pc |-> "publish", complete |-> TRUE])
  /\ BuildsOnly /\ UNCHANGED <<staged, path, stamp, upsets>>

(* os.link does not replace a file; os.rename would.                       *)
LinksAnyway(b) == TRUE
Links(b) == path = "none"

Publish(b) ==
  /\ At(b, "publish")
  /\ IF Links(b)
       THEN path' = b /\ stamp' = [stamp EXCEPT ![b] = @ + 1] /\ Work(b, [pc |-> "sync"])
       ELSE UNCHANGED <<path, stamp>> /\ Work(b, [pc |-> "cleanup"])
  /\ BuildsOnly /\ UNCHANGED <<staged, upsets>>

(* The finally clause; a link that goes changes the file's times.          *)
RemoveStaged(b) ==
  /\ work[b].pc \in {"sync", "cleanup"}
  /\ staged' = staged \ {b}
  /\ stamp' = [stamp EXCEPT ![b] = @ + 1]
  /\ Work(b, [pc |-> IF At(b, "sync") THEN "built" ELSE "failed"])
  /\ BuildsOnly /\ UNCHANGED <<path, upsets>>

(* An I/O error or a cancellation; published or not.                       *)
Fails(b) ==
  /\ work[b].pc \in {"fill", "publish", "sync"} /\ Upset
  /\ Work(b, [pc |-> "cleanup"])
  /\ BuildsOnly /\ UNCHANGED <<staged, path, stamp>>

(* The worker is killed.                                                   *)
Crash(b) ==
  /\ work[b].pc \notin Over \cup {"new"} /\ Upset
  /\ Work(b, [pc |-> "crashed"])
  /\ BuildsOnly /\ UNCHANGED <<staged, path, stamp>>

Build(b) == Begin(b) \/ Insert(b) \/ MarkComplete(b) \/ Publish(b) \/ RemoveStaged(b) \/ Fails(b) \/ Crash(b)

-------------------------------------------------------------------------------
(* What a search finds, and its pages.                                     *)
Ordered(S) == SetToSortSeq(S, <)
Window(found, offset, limit) == SubSeq(found, offset + 1, Min({offset + limit, Len(found)}))
Beyond(next, total) == IF next < total THEN {next} ELSE {}

(* The whole of an exact search is counted, and one page read.             *)
Counted(found, offset, limit) ==
  LET shown == Window(found, offset, limit)
  IN [found |-> shown, total |-> {Len(found)}, next |-> Beyond(offset + Len(shown), Len(found))]

(* A scan looks at ScanLimit candidates from the offset, up to the match   *)
(* that has no place on the page any more: the next page begins with it.   *)
(* (hits are places of candidates, counted from 1, and offsets from 0.)    *)
LookaheadAfter(hits, limit) == IF Len(hits) > limit THEN {hits[limit + 1]} ELSE {}
Lookahead(hits, limit) == IF Len(hits) > limit THEN {hits[limit + 1] - 1} ELSE {}

Scan(rows, match, offset, limit) ==
  LET end == Min({offset + ScanLimit, Len(rows)})
      hits == Ordered({i \in (offset + 1)..end : rows[i] \in match})
      shown == [i \in 1..Min({limit, Len(hits)}) |-> rows[hits[i]]]
      lookahead == Lookahead(hits, limit)
      resume == IF Len(hits) > limit THEN hits[limit + 1] ELSE end
  IN [found |-> shown,
      total |-> IF offset = 0 /\ resume = Len(rows) THEN {Len(shown) + Cardinality(lookahead)} ELSE {},
      next |-> IF lookahead # {} THEN lookahead ELSE Beyond(end, Len(rows))]

(* read_root_page.                                                         *)
IndexPage(table, s, offset, limit) ==
  LET rows == Ordered(table) IN
  IF s.all THEN Counted(rows, offset, limit)
  ELSE IF s.ref \cap table # {} THEN Counted(Ordered(s.ref \cap table), offset, limit)
  ELSE IF s.source \cap table # {} THEN Counted(Ordered(s.source \cap table), offset, limit)
  ELSE IF s.pattern THEN [found |-> <<>>, total |-> {0}, next |-> {}]
  ELSE Scan(rows, s.text, offset, limit)

(* root_candidates, without an index.                                      *)
MemoryPage(table, s, offset, limit) ==
  LET rows == Ordered(table)
      scan == Scan(rows, IF s.pattern THEN s.ref ELSE s.text, offset, limit)
  IN
  IF s.all THEN Counted(rows, offset, limit)
  ELSE IF s.pattern /\ scan.found # <<>> THEN [found |-> scan.found, total |-> {1}, next |-> {}]
  ELSE [scan EXCEPT !.total = IF offset = 0 /\ scan.next = {} THEN {Len(scan.found)} ELSE {}]

-------------------------------------------------------------------------------
(* _open_valid_index, for the service that counts the candidates before it *)
(* leases the index, and for each page.                                    *)
ReadsOnly == UNCHANGED <<building, result, upsets>>
Identity == IF path \notin Builders THEN <<>> ELSE <<path, stamp[path]>>
Read(new) == reader' = new @@ reader

(* A file that another program wrote into does not pass quick_check.       *)
Valid(id) == work[id[1]].complete /\ id[1] \notin damaged

Count ==
  /\ result = "none" /\ reader = Idle /\ \E b \in Builders : At(b, "built") /\ path = b
  /\ Read([pc |-> "open", id |-> Identity, ask |-> <<>>])
  /\ UNCHANGED <<cache, cursor, page>> /\ ReadsOnly

(* The lease has gone, or the identity is taken.                           *)
First(s) == [search |-> s, offset |-> 0, shown |-> <<>>]

Ask(s, limit) ==
  /\ result \in {"indexed", "gone"} /\ reader = Idle
  /\ \E c \in {First(s)} \cup cursor :
       LET accepted == c.search = s /\ result = "indexed" IN
       IF accepted THEN Read([pc |-> "open", id |-> Identity, ask |-> <<[cursor |-> c, limit |-> limit]>>])
       ELSE UNCHANGED reader
  /\ UNCHANGED <<cache, cursor, page>> /\ ReadsOnly

(* One quick_check for each identity of the file.                          *)
Validate ==
  /\ reader.pc = "open"
  /\ IF cache = reader.id
       THEN Read([pc |-> "validated"]) /\ UNCHANGED cache
       ELSE cache' = <<>> /\ (IF Valid(reader.id) THEN Read([pc |-> "validated"]) ELSE reader' = Idle)
  /\ UNCHANGED <<cursor, page>> /\ ReadsOnly

AnyFile(id) == TRUE
SameFile(id) == id = Identity

Remember ==
  /\ reader.pc = "validated"
  /\ IF SameFile(reader.id) THEN cache' = reader.id /\ Read([pc |-> "remembered"])
     ELSE UNCHANGED cache /\ reader' = Idle
  /\ UNCHANGED <<cursor, page>> /\ ReadsOnly

(* A damaged file may say anything.                                        *)
Table(id) == IF id[1] \in damaged THEN {} ELSE work[id[1]].rows

Rows ==
  /\ reader.pc = "remembered"
  /\ Read([pc |-> "read",
           page |-> IF reader.ask = <<>> THEN <<Cardinality(Table(reader.id))>>
                    ELSE <<IndexPage(Table(reader.id), reader.ask[1].cursor.search,
                                     reader.ask[1].cursor.offset, reader.ask[1].limit)>>])
  /\ UNCHANGED <<cache, cursor, page>> /\ ReadsOnly

(* The page, and the cursor of the next.                                   *)
Give(c, p) ==
  LET shown == c.shown \o p.found IN
  /\ page' = <<[search |-> c.search, shown |-> shown, total |-> p.total,
                last |-> p.next = {}, onward |-> \A n \in p.next : n > c.offset]>>
  /\ cursor' = {[search |-> c.search, offset |-> n, shown |-> shown] : n \in p.next}

Answer ==
  /\ reader.pc = "read" /\ reader' = Idle
  /\ IF ~ SameFile(reader.id) THEN UNCHANGED <<cursor, page, result>>
     ELSE IF reader.ask = <<>>
       THEN result' = (IF reader.page[1] = work[reader.id[1]].count THEN "indexed" ELSE result)
            /\ UNCHANGED <<cursor, page>>
     ELSE Give(reader.ask[1].cursor, reader.page[1]) /\ UNCHANGED result
  /\ UNCHANGED <<cache, building, upsets>>

(* An inspection without a worker keeps its candidates.                    *)
Kept == ToSet(input[CHOOSE b \in Builders : TRUE])

AskMemory(s, limit) ==
  /\ result = "in memory"
  /\ \E c \in {First(s)} \cup cursor :
       IF c.search = s THEN Give(c, MemoryPage(Kept, s, c.offset, limit)) ELSE UNCHANGED <<cursor, page>>
  /\ UNCHANGED <<cache, reader>> /\ ReadsOnly

(* The lease is revoked under the lock that readers hold; the file goes.   *)
Revoke ==
  /\ result = "indexed" /\ reader = Idle
  /\ result' = "gone" /\ path' = "gone"
  /\ UNCHANGED <<input, work, staged, stamp, damaged, reading, upsets>>

(* Another program writes into the file.                                   *)
Damage ==
  /\ path \in Builders /\ Upset
  /\ damaged' = damaged \cup {path} /\ stamp' = [stamp EXCEPT ![path] = @ + 1]
  /\ UNCHANGED <<input, work, staged, path, reading, result>>

-------------------------------------------------------------------------------
Next ==
  \/ \E b \in Builders : Build(b)
  \/ Count \/ Validate \/ Remember \/ Rows \/ Answer \/ Revoke \/ Damage
  \/ \E s \in Searches, limit \in Limits : Ask(s, limit) \/ AskMemory(s, limit)

Spec == Init /\ [][Next]_vars

-------------------------------------------------------------------------------
Candidates ==
  IF result = "in memory" THEN Kept
  ELSE UNION {ToSet(input[b]) : b \in {x \in Builders : At(x, "built")}}

(* What the pages of a search have to add up to.                           *)
Matches(s) ==
  IF s.all THEN Candidates
  ELSE IF result = "in memory" THEN (IF s.pattern THEN s.ref ELSE s.text) \cap Candidates
  ELSE IF s.ref \cap Candidates # {} THEN s.ref \cap Candidates
  ELSE IF s.source \cap Candidates # {} THEN s.source \cap Candidates
  ELSE IF s.pattern THEN {} ELSE s.text \cap Candidates

(* The index that has the name is complete: it holds every candidate of its*)
(* builder, each once, within the budget.  It is never replaced by that of *)
(* another builder, only one of which may succeed; a builder that comes to *)
(* its end leaves no staged file.                                          *)
IndexHolds ==
  /\ path \in Builders =>
       /\ work[path].complete /\ work[path].rows = ToSet(input[path])
       /\ IsInjective(input[path]) /\ Len(input[path]) <= MaxRows
  /\ \A b \in Builders : At(b, "built") => path = b \/ result = "gone"
  /\ \A b \in Builders : work[b].pc \in {"built", "failed"} => b \notin staged

(* However a search goes through the candidates, with pages of what sizes, *)
(* with what scans that found nothing, and whatever happened to the file   *)
(* meanwhile: its pages show every match once and in order, the last one is*)
(* not called last before, a total that is given is true, and the cursor   *)
(* moves on (read_root_page, root_candidates).                             *)
PagesAreTrue ==
  \A p \in ToSet(page) :
    LET all == Ordered(Matches(p.search)) IN
    /\ IsPrefix(p.shown, all) /\ (p.last => p.shown = all)
    /\ p.total \subseteq {Len(all)} /\ p.onward
================================================================================
