------------------------------- MODULE MCServices -------------------------------
(***************************************************************************)
(* Services of the Python process that do not meet, checked in one run:    *)
(* the worker that inspects GEDCOM files, the lanes of the providers,      *)
(* their profiles and consents, and three layers of the synchronization:   *)
(* its kernel, the people of a release, and its other records.  part says  *)
(* which one a behaviour is about.  InspectionWorker and the merges have   *)
(* their own variables, the others have w1 and the next ones, and what a   *)
(* part does not need is "none".                                           *)
(***************************************************************************)
EXTENDS InspectionWorker, TLC

CONSTANTS i1, i2, r1, r2, r3, None

MCHomes == {i1 :> "a" @@ i2 :> "b", i1 :> "a" @@ i2 :> "a"}

MCKinds == {r1 :> "cached" @@ r2 :> "cached" @@ r3 :> "cached",
            r1 :> "cached" @@ r2 :> "plain" @@ r3 :> "stream"}
MCKey == r1 :> 1 @@ r2 :> 1 @@ r3 :> 2
MCLane == r1 :> 1 @@ r2 :> 1 @@ r3 :> 1
MCRetries == r1 :> 1 @@ r2 :> 0 @@ r3 :> 0

(* The kernel: no decision or two; none replayed, or one that fits, or one *)
(* of another plan, or one that the plan does not have.                    *)
Replay(d, plan) == [decision |-> d, option |-> "a", plan |-> plan]
MCRequests ==
  [dryRun : BOOLEAN, entries : BOOLEAN, decisions : {0, 2},
   replayed : {{}, {Replay(1, "this")}, {Replay(2, "other")}, {Replay(3, "this")}}]

(* Requests to a provider, with and without a profile and a consent.       *)
MCAsked ==
  [profile : {"", "P"}, consent : {"", "C"}, endpoint : {"home", "cloud"}, model : {"m"}]

(* People: two occupations that only their text tells apart, a name; two   *)
(* sources, one of which has two exports; 1 and 3 look alike.              *)
MCSlot == "o1" :> "o" @@ "o2" :> "o" @@ "n" :> "n"
MCBaseline == 0 :> [who |-> 1, facts |-> {"o1", "n"}, cited |-> {}]
Person(id, who, facts, cited) == [id |-> id, who |-> who, facts |-> facts, cited |-> cited]
MCSnapshots ==
  << {[vendor |-> "a", people |-> p] :
        p \in {<<Person(1, 2, {"o1", "o2"}, {"o2"})>>,
               <<Person(1, 1, {"o2"}, {}), Person(2, 2, {"o1", "n"}, {})>>}},
     {[vendor |-> "b", people |-> <<Person(1, 3, {"o1", "o2"}, {"o1"})>>]} >>

(* Records: families that cite one place of one source in every way, once  *)
(* or twice; a source that names a note, which names a source.             *)
M(tag, n) == <<"m", tag, n>>
S(tag, n) == <<"s", tag, n>>
Record(ptr, body, refs, atts) == [ptr |-> ptr, tag |-> ptr[2], body |-> body, refs |-> refs, atts |-> atts]
Line(tag, value) == [tag |-> tag, value |-> value, kids |-> <<>>]
Cite(ptr, kids) == [tag |-> "SOUR", value |-> ptr, kids |-> kids]
Data(kids) == [tag |-> "DATA", value |-> 0, kids |-> kids]
page == Line("PAGE", 1)
note == Line("NOTE", 1)
MCLegacy ==
  << Record(M("SOUR", 0), 1, <<>>, <<>>),
     Record(M("FAM", 0), 1, <<>>, <<Cite(M("SOUR", 0), <<page>>)>>) >>
MCCitations ==
  {<<kids>> : kids \in {<<page, Line("QUAY", 1)>>, <<page, Line("QUAY", 2), note>>, <<note>>}}
    \cup {<< <<page, Data(<<Line("DATE", 1), note>>)>>, kids>> :
            kids \in {<<page>>, <<page, Line("QUAY", 1), Data(<<Line("DATE", 2)>>)>>,
                      <<page, Data(<<Line("DATE", 1), note>>)>>, <<Data(<<note>>), page>>}}
Family(n, body, ptr, citations) ==
  Record(S("FAM", n), body, <<>>, [k \in DOMAIN citations |-> Cite(ptr, citations[k])])
MCExports ==
  {<<Record(S("SOUR", 1), 1, <<>>, <<>>), Family(1, 1, S("SOUR", 1), c)>> : c \in MCCitations}
    \cup {<<Record(S("SOUR", 1), 1, <<>>, <<>>), Record(S("SOUR", 2), 1, <<S("NOTE", 1)>>, <<>>),
            Record(S("NOTE", 1), 1, <<S("SOUR", 1)>>, <<>>), Family(1, 1, S("SOUR", 2), <<<<page>>>>)>>,
          <<Record(S("SOUR", 2), 1, <<S("NOTE", 1)>>, <<>>), Record(S("NOTE", 1), 1, <<>>, <<>>),
            Family(1, 1, S("SOUR", 2), <<<<page>>>>)>>,
          <<Record(S("SOUR", 1), 2, <<>>, <<>>), Family(2, 2, S("SOUR", 1), <<<<page>>>>),
            Family(1, 1, S("SOUR", 1), <<<<page>>>>)>>}

VARIABLES part, releases, records, next, map, given, updates,
          w1, w2, w3, w4, w5, w6, w7, w8, w9, w10, w11, w12, w13, w14, w15, w16, w17

others == <<w1, w2, w3, w4, w5, w6, w7, w8, w9, w10, w11, w12, w13, w14, w15, w16, w17>>
after8 == <<w9, w10, w11, w12, w13, w14, w15, w16, w17>>
after15 == <<w16, w17>>
united == <<records, next, map, given, updates>>
all == <<part, vars, releases, united, others>>

Provider == INSTANCE ProviderExecution WITH
  Req <- {r1, r2, r3}, Kinds <- MCKinds, Key <- MCKey, Lane <- MCLane, Retries <- MCRetries,
  Cancellable <- {r1}, MaxConcurrency <- 1, MaxPending <- 2, MaxEntries <- 1,
  kind <- w1, at <- w2, cancelled <- w3, tries <- w4, joined <- w5, outcome <- w6, answer <- w7,
  lanes <- w8, closed <- w9, toClose <- w10, flights <- w11, flight <- w12, entries <- w13,
  shut <- w14, audit <- w15, receipt <- w16, called <- w17
Kernel == INSTANCE SyncKernel WITH
  Options <- {"a", "b"}, Requests <- MCRequests,
  request <- w1, stage <- w2, turn <- w3, wanted <- w4, planned <- w5, selected <- w6,
  staged <- w7, attempted <- w8, there <- w9, published <- w10, events <- w11, error <- w12,
  byUser <- w13, recovery <- w14, result <- w15
People == INSTANCE SyncMerge WITH
  Facts <- {"o1", "o2", "n"}, Slot <- MCSlot, Removable <- {"o1", "o2"}, Similar <- {{1, 3}},
  Baseline <- MCBaseline, Exports <- MCSnapshots, MaxReleases <- 4
Others == INSTANCE RecordMerge WITH Legacy <- MCLegacy, Exports <- MCExports, MaxUpdates <- 3
Writers == INSTANCE ProviderSetup WITH
  Callers <- {"a", "b"}, Profiles <- {"P"}, Consents <- {"C", "D"}, Models <- {"m"}, Requests <- {},
  MaxCalls <- 2, MaxWrites <- 0, MaxMoves <- 0,
  profiles <- w1, consents <- w2, dns <- w3, lock <- w4, call <- w5, request <- w6, writes <- w7, moves <- w8
Setup == INSTANCE ProviderSetup WITH
  Callers <- {"a"}, Profiles <- {"P", "Q"}, Consents <- {"C"}, Models <- {"m"}, Requests <- {},
  MaxCalls <- 3, MaxWrites <- 1, MaxMoves <- 0,
  profiles <- w1, consents <- w2, dns <- w3, lock <- w4, call <- w5, request <- w6, writes <- w7, moves <- w8
Consented == INSTANCE ProviderSetup WITH
  Callers <- {"a"}, Profiles <- {"P"}, Consents <- {"C"}, Models <- {"m"}, Requests <- MCAsked,
  MaxCalls <- 2, MaxWrites <- 1, MaxMoves <- 1,
  profiles <- w1, consents <- w2, dns <- w3, lock <- w4, call <- w5, request <- w6, writes <- w7, moves <- w8

NoInspection ==
  /\ app = "none" /\ source = "none" /\ alive = "none" /\ service = "none" /\ free = "none"
  /\ step = "none" /\ fprint = "none" /\ worker = "none" /\ seen = "none" /\ files = "none"
  /\ removal = "none" /\ begun = "none" /\ sweep = "none" /\ over = "none" /\ leases = "none" /\ erasing = "none"
Absent15 == w16 = "none" /\ w17 = "none"
Absent8 ==
  /\ w9 = "none" /\ w10 = "none" /\ w11 = "none" /\ w12 = "none" /\ w13 = "none"
  /\ w14 = "none" /\ w15 = "none" /\ Absent15
Absent ==
  /\ w1 = "none" /\ w2 = "none" /\ w3 = "none" /\ w4 = "none" /\ w5 = "none" /\ w6 = "none"
  /\ w7 = "none" /\ w8 = "none" /\ Absent8
NoPeople == releases = "none"
NoRecords == records = "none" /\ next = "none" /\ map = "none" /\ given = "none" /\ updates = "none"

MCInit ==
  \/ part = "inspection" /\ Init /\ NoPeople /\ NoRecords /\ Absent
  \/ part = "provider" /\ NoInspection /\ NoPeople /\ NoRecords /\ Provider!Init
  \/ part = "kernel" /\ NoInspection /\ NoPeople /\ NoRecords /\ Kernel!Init /\ Absent15
  \/ part = "people" /\ NoInspection /\ People!Init /\ NoRecords /\ Absent
  \/ part = "records" /\ NoInspection /\ Others!Init /\ NoPeople /\ Absent
  \/ part = "writers" /\ NoInspection /\ NoPeople /\ NoRecords /\ Writers!Init /\ Absent8
  \/ part = "setup" /\ NoInspection /\ NoPeople /\ NoRecords /\ Setup!Init /\ Absent8
  \/ part = "consented" /\ NoInspection /\ NoPeople /\ NoRecords /\ Consented!Init /\ Absent8

MCNext ==
  \/ part = "inspection" /\ Next /\ UNCHANGED <<part, releases, united, others>>
  \/ part = "provider" /\ Provider!Next /\ UNCHANGED <<part, vars, releases, united>>
  \/ part = "kernel" /\ Kernel!Next /\ UNCHANGED <<part, vars, releases, united, after15>>
  \/ part = "people" /\ People!Next /\ UNCHANGED <<part, vars, united, others>>
  \/ part = "records" /\ Others!Next /\ UNCHANGED <<part, vars, releases, others>>
  \/ part = "writers" /\ Writers!Next /\ UNCHANGED <<part, vars, releases, united, after8>>
  \/ part = "setup" /\ Setup!Next /\ UNCHANGED <<part, vars, releases, united, after8>>
  \/ part = "consented" /\ Consented!Next /\ UNCHANGED <<part, vars, releases, united, after8>>

MCFairness ==
  /\ \A i \in Insp :
       /\ WF_all(part = "inspection" /\ ParentStep(i) /\ UNCHANGED <<part, releases, united, others>>)
       /\ WF_all(part = "inspection" /\ Interrupt(i) /\ UNCHANGED <<part, releases, united, others>>)
  /\ \A r \in {r1, r2, r3} :
       WF_all(part = "provider" /\ Provider!Step(r) /\ UNCHANGED <<part, vars, releases, united>>)
  /\ WF_all(part = "kernel" /\ Kernel!Work /\ UNCHANGED <<part, vars, releases, united, after15>>)

MCSpec == MCInit /\ [][MCNext]_all /\ MCFairness

-------------------------------------------------------------------------------
(* Leases are whole and of a living service, what has ended leaves nothing *)
(* and what a crash leaves is reclaimed (gedcom/inspection_worker.py,      *)
(* gedcom/service.py).                                                     *)
InspectionsHold ==
  part = "inspection" => TypeOK /\ LeasesAreWhole /\ EndedLeavesNothing /\ CrashIsReclaimable

(* The counters of the lanes are exact, identical work is executed once at *)
(* a time, and the cache is honest (llm/execution.py, llm/service.py).     *)
(* Profiles and consents are changed as they were reviewed, and what goes  *)
(* to a remote provider was consented to (llm/provider_configuration.py,   *)
(* llm/policy.py).                                                         *)
RequestsExact ==
  /\ part = "provider" =>
       /\ Provider!TypeOK
       /\ Provider!LanesExact /\ Provider!SingleFlight /\ Provider!CacheHonest
  /\ part = "writers" => Writers!NothingUnreviewed
  /\ part = "setup" => Setup!NothingUnreviewed /\ Setup!SavedAsReviewed
  /\ part = "consented" => Consented!SavedAsReviewed /\ Consented!SentAsConsented

(* The kernel returns what became of the execution, and its events tell    *)
(* all of it (gedcom/sync_kernel.py).                                      *)
KernelIsTrue == part = "kernel" => Kernel!ResultIsTrue /\ Kernel!EventsTellAll

(* What was deleted by hand stays away, every fact is accounted for, no    *)
(* binding leads to somebody else; and no record or citation is lost or    *)
(* taken for one that says something else (gedcom/sync_algorithms.py).     *)
MergesHold ==
  /\ part = "people" => People!DeletedStays /\ People!AccountIsTrue /\ People!BindingsMatch
  /\ part = "records" => Others!RecordsAreKept

(* An update takes away nothing that somebody still says or protects, and  *)
(* a pointer means one person for ever; it loses no record of the master,  *)
(* and the same snapshot again adds none (gedcom/sync_algorithms.py).      *)
MergesLoseNothing ==
  /\ People!UpdatesLoseNothing /\ People!PointersMeanOne
  /\ Others!MasterIsKept /\ Others!RepeatsAddNothing

(* Whatever was begun comes to its end and stays there: inspections        *)
(* (InspectionsEnd), requests (RequestsSettle) and executions of the       *)
(* kernel (KernelReturns).  Each of them is begun once, so that this is    *)
(* the same as one leads-to for each.                                      *)
WorkEnds ==
  <>[] /\ part = "inspection" => \A i \in Insp : step[i] = "new" \/ ~ Runs(i) \/ step[i] \in Ended
       /\ part = "provider" => \A r \in {r1, r2, r3} :
            w2[r] = "new" \/ (w2[r] = "done" /\ w16[r] \notin {"none", "pending"})
       /\ part = "kernel" => w15.outcome # "none"
===============================================================================
