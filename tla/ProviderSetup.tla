----------------------------- MODULE ProviderSetup -----------------------------
(***************************************************************************)
(* Provider profiles and consents, and the requests that need them.  The   *)
(* desktop changes them through one service that holds a lock, compares    *)
(* the revision the user has reviewed, and tests the endpoint again        *)
(* (llm/provider_configuration.py, llm/endpoint_validation.py); the        *)
(* command line writes to the same tables without (llm/profiles.py).  A    *)
(* request reads its consent, then its profile, tests the endpoint that is *)
(* bound to it, and is authorized (llm/chat.py, llm/service.py,            *)
(* llm/policy.py).                                                         *)
(*                                                                         *)
(* A revision is a digest of what a snapshot shows: here, what it shows.   *)
(* An endpoint stands for its provider: "home" and "lan" are Ollama's, the *)
(* second one not on this computer, and "cloud" is a remote provider's.    *)
(***************************************************************************)
EXTENDS Naturals, Sequences, FiniteSets, TLC

CONSTANTS
  Callers,             \* requests of the desktop that are served concurrently
  Profiles, Consents,  \* names that may be given
  Models,
  Requests,            \* what may be asked of a provider: [profile, consent, endpoint, model]
  MaxCalls,            \* bound on the calls of each caller
  MaxWrites,           \* bound on what the command line writes
  MaxMoves             \* bound on the changes of what a host name resolves to

VARIABLES
  profiles,  \* provider_profiles: name -> [endpoint, model, identity]
  consents,  \* consent_profiles: name -> [profile, models, active]
  dns,       \* dns[e]: the addresses that the host of e resolves to
  lock,      \* who holds _mutation_lock, or "none"
  call,      \* call[c]: the call that c is in, and what c knows
  request,   \* a request to a provider
  writes,    \* what has been written, in order
  moves
tables == <<profiles, consents>>
vars == <<tables, dns, lock, call, request, writes, moves>>

Endpoints == {"home", "lan", "cloud"}
Loopback(e) == e = "home"
Testable(e) == e # "lan"
Places == [home |-> {"loopback", "private"}, cloud |-> {"public", "other", "private"}]
Approved(e, place) == place \in IF Loopback(e) THEN {"loopback"} ELSE {"public", "other"}

(* What a caller knows: the snapshot reviewed last (from: the number of    *)
(* writes as it was begun), the digest of the endpoint tested last, and    *)
(* the preview of a consent.                                               *)
Nothing == [profiles |-> <<>>, consents |-> <<>>, from |-> 0]
Idle == [pc |-> "idle", op |-> "", name |-> "", endpoint |-> "", read |-> Nothing, left |-> {}, first |-> ""]
Starts(seen) == [seen |-> seen, tested |-> <<>>, preview |-> <<>>, count |-> 0] @@ Idle
NoRequest == [pc |-> "new", consent |-> "", profile |-> "", endpoint |-> "", model |-> "", identity |-> <<>>,
              grant |-> <<>>, first |-> "", revoked |-> {}]

Seen == [profiles |-> [p \in DOMAIN profiles |-> [endpoint |-> profiles[p].endpoint, model |-> profiles[p].model]],
         consents |-> consents, from |-> Len(writes)]

Bound(e) == <<e, IF e = "home" THEN "loopback" ELSE "public">>
Init ==
  /\ \/ profiles = <<>> /\ consents = <<>>
     \/ \E p \in Profiles, c \in Consents, e \in Endpoints, m \in Models, bound \in BOOLEAN :
          /\ e = "lan" => ~ bound
          /\ profiles = p :> [endpoint |-> e, model |-> m, identity |-> IF bound THEN Bound(e) ELSE <<>>]
          /\ consents = c :> [profile |-> p, models |-> {m}, active |-> TRUE]
  /\ dns = [home |-> "loopback", cloud |-> "public"] /\ writes = <<>>
  /\ lock = "none" /\ call = [c \in Callers |-> Starts(Seen)]
  /\ request = NoRequest
  /\ moves = 0

At(c, here) == call[c].pc = here
Set(c, new) == call' = [call EXCEPT ![c] = new @@ @]
Release(c) == lock' = IF lock = c THEN "none" ELSE lock
Return(c, new) == Set(c, Idle @@ new) /\ Release(c)
Fail(c) == Return(c, <<>>)
Proceed(c, there) == Set(c, [pc |-> there]) /\ UNCHANGED lock

-------------------------------------------------------------------------------
(* The calls.  A preview is made of what the user entered, which may be    *)
(* changed before it is saved.                                             *)
Begin(c, op, new) ==
  /\ At(c, "idle") /\ call[c].count < MaxCalls
  /\ Set(c, new @@ [pc |-> "locks", op |-> op, count |-> call[c].count + 1])
  /\ UNCHANGED <<tables, dns, lock, request, writes, moves>>

Look(c) == Begin(c, "look", <<>>)
Test(c) ==
  \E e \in Endpoints :
    IF Testable(e) THEN Begin(c, "test", [endpoint |-> e, pc |-> "resolve"]) ELSE Begin(c, "test", [pc |-> "idle"])
Preview(c) == \E p \in Profiles, m \in Models : Begin(c, "preview", [preview |-> [profile |-> p, models |-> {m}, warned |-> FALSE]])
Create(c) ==
  /\ call[c].tested # <<>>
  /\ \E p \in Profiles, e \in Endpoints : Begin(c, "create", [name |-> p, endpoint |-> e])
Consent(c) ==
  /\ call[c].preview # <<>>
  /\ \E n \in Consents, p \in Profiles : Begin(c, "consent", [name |-> n, preview |-> [call[c].preview EXCEPT !.profile = p]])
Revoke(c) == \E n \in Consents : Begin(c, "revoke", [name |-> n])

(* with self._mutation_lock                                                *)
Lock(c) ==
  /\ At(c, "locks") /\ lock = "none" /\ lock' = c /\ Set(c, [pc |-> "profiles"])
  /\ UNCHANGED <<tables, dns, request, writes, moves>>

(* _snapshot_unlocked: the profiles, the consents, and the grant of each   *)
(* consent are read in transactions of their own.                          *)
ReadProfiles(c) ==
  /\ At(c, "profiles")
  /\ Set(c, [pc |-> "consents",
             read |-> [Seen EXCEPT !.consents = <<>>]])
  /\ UNCHANGED <<tables, dns, lock, request, writes, moves>>
ReadConsents(c) ==
  /\ At(c, "consents") /\ Set(c, [pc |-> "grants", left |-> DOMAIN consents])
  /\ UNCHANGED <<tables, dns, lock, request, writes, moves>>
ReadGrant(c) ==
  /\ At(c, "grants")
  /\ \E n \in call[c].left :
       Set(c, [left |-> call[c].left \ {n}, read |-> [call[c].read EXCEPT !.consents = @ @@ (n :> consents[n])]])
  /\ UNCHANGED <<tables, dns, lock, request, writes, moves>>

Shown(snapshot) == <<snapshot.profiles, snapshot.consents>>
Current(c) == Shown(call[c].seen) = Shown(call[c].read)
Warns(c, p) == ~ Loopback(call[c].read.profiles[p].endpoint)

(* What is done with a snapshot: it is returned; a preview is made from    *)
(* it; or the revision the user has reviewed is compared with it           *)
(* (_check_revision) before a change.                                      *)
Returned(c) == call[c].op = "look" /\ Return(c, [seen |-> call[c].read])
Previewed(c) ==
  /\ call[c].op = "preview"
  /\ LET p == call[c].preview.profile
     IN IF p \in DOMAIN call[c].read.profiles
        THEN Return(c, [preview |-> [call[c].preview EXCEPT !.warned = Warns(c, p)]])
        ELSE Return(c, [preview |-> <<>>])
Checked(c) ==
  /\ call[c].op \in {"create", "consent", "revoke"}
  /\ LET shown == call[c].preview
     IN CASE ~ Current(c) -> Fail(c)
          [] call[c].op = "create" -> IF Testable(call[c].endpoint) THEN Proceed(c, "resolve") ELSE Fail(c)
          [] call[c].op = "consent" ->
               IF /\ shown.profile \in DOMAIN call[c].read.profiles
                  /\ shown.warned = Warns(c, shown.profile) /\ profiles[shown.profile].identity # <<>>
               THEN Set(c, [pc |-> "resolve", endpoint |-> profiles[shown.profile].endpoint]) /\ UNCHANGED lock
               ELSE Fail(c)
          [] OTHER -> Proceed(c, "write")
Use(c) ==
  /\ At(c, "grants") /\ call[c].left = {}
  /\ Returned(c) \/ Previewed(c) \/ Checked(c)
  /\ UNCHANGED <<tables, dns, request, writes, moves>>

-------------------------------------------------------------------------------
(* EndpointValidationService.validate: resolve, connect to the address,    *)
(* resolve again.  create_profile compares the digest with that of the     *)
(* test, create_consent with the one the profile is bound to.              *)
Resolve(c) ==
  /\ At(c, "resolve")
  /\ LET e == call[c].endpoint
     IN IF Approved(e, dns[e]) THEN Set(c, [pc |-> "confirm", first |-> dns[e]]) /\ UNCHANGED lock ELSE Fail(c)
  /\ UNCHANGED <<tables, dns, request, writes, moves>>

Wanted(c) == IF call[c].op = "create" THEN call[c].tested ELSE profiles[call[c].preview.profile].identity
Confirm(c) ==
  /\ At(c, "confirm")
  /\ LET e == call[c].endpoint
         observed == <<e, call[c].first>>
     IN \/ Fail(c)
        \/ /\ dns[e] = call[c].first
           /\ IF call[c].op = "test" THEN Return(c, [tested |-> observed])
              ELSE IF observed = Wanted(c) THEN Proceed(c, "write") ELSE Fail(c)
  /\ UNCHANGED <<tables, dns, request, writes, moves>>

-------------------------------------------------------------------------------
(* ProviderProfileService: one transaction for each change.  writes keeps  *)
(* who wrote, the names, and for the desktop what the user had not seen    *)
(* and when the revision was compared.                                     *)
Insert(table, name, row) == name \notin DOMAIN table /\ table' = table @@ (name :> row)
NewProfile(p, e, m, identity) ==
  Insert(profiles, p, [endpoint |-> e, model |-> m, identity |-> identity]) /\ UNCHANGED consents
NewConsent(n, p, ms) ==
  /\ p \in DOMAIN profiles /\ Insert(consents, n, [profile |-> p, models |-> ms, active |-> TRUE])
  /\ UNCHANGED profiles
Withdraw(n) ==
  /\ n \in DOMAIN consents /\ consents[n].active /\ consents' = [consents EXCEPT ![n].active = FALSE]
  /\ UNCHANGED profiles

Visible(w, seen) ==
  CASE w.what = "profile" -> w.name \in DOMAIN seen.profiles
    [] w.what = "consent" -> w.name \in DOMAIN seen.consents
    [] OTHER -> w.name \in DOMAIN seen.consents /\ ~ seen.consents[w.name].active
Unreviewed(c) == {i \in DOMAIN writes : ~ Visible(writes[i], call[c].seen)}
Wrote(what, name, by, blind, since, shown) ==
  writes' = Append(writes, [what |-> what, name |-> name, by |-> by, blind |-> blind, since |-> since, shown |-> shown])
ByDesktop(c, what) ==
  Wrote(what, call[c].name, "desktop", Unreviewed(c), call[c].read.from,
        [tested |-> call[c].tested, warned |-> what = "consent" /\ call[c].preview.warned])
ByCommand(what, name) == Wrote(what, name, "command line", {}, 0, <<>>)

(* The result of a change is a snapshot that is taken after it.            *)
Write(c) ==
  /\ At(c, "write")
  /\ \/ /\ call[c].op = "create" /\ ByDesktop(c, "profile")
        /\ \E m \in Models : NewProfile(call[c].name, call[c].endpoint, m, <<call[c].endpoint, call[c].first>>)
     \/ /\ call[c].op = "consent" /\ ByDesktop(c, "consent")
        /\ NewConsent(call[c].name, call[c].preview.profile, call[c].preview.models)
     \/ call[c].op = "revoke" /\ Withdraw(call[c].name) /\ ByDesktop(c, "revoke")
  /\ Set(c, [pc |-> "profiles", op |-> "look"])
  /\ UNCHANGED <<dns, lock, request, moves>>

(* The name is taken or unknown, or the database refuses.                  *)
Refuse(c) == At(c, "write") /\ Fail(c) /\ UNCHANGED <<tables, dns, request, writes, moves>>

Command ==
  /\ Len(SelectSeq(writes, LAMBDA w : w.by = "command line")) < MaxWrites
  /\ \/ \E p \in Profiles, e \in Endpoints, m \in Models :
          NewProfile(p, e, m, <<>>) /\ ByCommand("profile", p)
     \/ \E n \in Consents, p \in Profiles, m \in Models :
          NewConsent(n, p, {m}) /\ ByCommand("consent", n)
     \/ \E n \in Consents : Withdraw(n) /\ ByCommand("revoke", n)
  /\ UNCHANGED <<dns, lock, call, request, moves>>

-------------------------------------------------------------------------------
(* A request: its consent is read (consent_grant), its profile             *)
(* (resolve_request), the endpoint tested if the profile is bound to it,   *)
(* and what it asks for compared with the consent (authorize).             *)
RequestAt(here) == request.pc = here
Req(new) == request' = new @@ request
Denied == request' = [NoRequest EXCEPT !.pc = "refused"]
Else == UNCHANGED <<tables, dns, lock, call, writes, moves>>
Revoked == {n \in DOMAIN consents : ~ consents[n].active}

Ask ==
  /\ RequestAt("new")
  /\ \E ask \in Requests :
       Req([pc |-> IF ask.consent = "" THEN "resolve request" ELSE "grant", revoked |-> Revoked] @@ ask)
  /\ Else

Grant ==
  /\ RequestAt("grant")
  /\ IF request.consent \in DOMAIN consents
     THEN Req([pc |-> "resolve request", grant |-> consents[request.consent]])
     ELSE Denied
  /\ Else

(* A provider named directly is resolved by the profile of the consent.    *)
Selection == IF request.profile = "" /\ request.consent # "" THEN request.grant.profile ELSE request.profile
SameProvider(e, f) == e = f \/ {e, f} = {"home", "lan"}
Plan ==
  /\ RequestAt("resolve request")
  /\ LET p == Selection
         row == profiles[p]
     IN IF p = "" THEN Req([pc |-> "authorize"])
        ELSE IF /\ p \in DOMAIN profiles /\ request.model \in {"", row.model}
                /\ request.consent # "" => request.grant.profile = p
                /\ request.profile = "" => SameProvider(request.endpoint, row.endpoint)
             THEN Req([pc |-> IF row.identity = <<>> THEN "authorize" ELSE "verify", profile |-> p,
                       endpoint |-> row.endpoint, model |-> row.model, identity |-> row.identity])
             ELSE Denied
  /\ Else

Verify ==
  /\ RequestAt("verify")
  /\ LET place == dns[request.endpoint]
     IN IF Approved(request.endpoint, place)
        THEN Req([pc |-> "verify again", first |-> place])
        ELSE Denied
  /\ Else
VerifyAgain ==
  /\ RequestAt("verify again")
  /\ \/ Denied
     \/ /\ dns[request.endpoint] = request.first /\ request.identity = <<request.endpoint, request.first>>
        /\ Req([pc |-> "authorize"])
  /\ Else

Allowed ==
  \/ request.consent = "" /\ Loopback(request.endpoint)
  \/ /\ request.consent # "" /\ request.grant.active
     /\ request.grant.profile = request.profile /\ request.model \in request.grant.models
Authorize ==
  /\ RequestAt("authorize")
  /\ IF Allowed THEN Req([pc |-> "sent"]) ELSE Denied
  /\ Else

(* What a name resolves to changes.                                        *)
Move ==
  /\ moves < MaxMoves /\ moves' = moves + 1
  /\ \E e \in {"home", "cloud"} : \E place \in Places[e] \ {dns[e]} : dns' = [dns EXCEPT ![e] = place]
  /\ UNCHANGED <<tables, lock, call, request, writes>>

Calls(c) ==
  \/ Look(c) \/ Test(c) \/ Preview(c) \/ Create(c) \/ Consent(c) \/ Revoke(c)
  \/ Lock(c) \/ ReadProfiles(c) \/ ReadConsents(c) \/ ReadGrant(c) \/ Use(c)
  \/ Resolve(c) \/ Confirm(c) \/ Write(c) \/ Refuse(c)
Next ==
  \/ \E c \in Callers : Calls(c)
  \/ Command \/ Ask \/ Grant \/ Plan \/ Verify \/ VerifyAgain \/ Authorize \/ Move

Spec == Init /\ [][Next]_vars

-------------------------------------------------------------------------------
(* Every change the desktop makes was decided knowing all the others, but  *)
(* for those that the command line made after the revision was compared.   *)
NothingUnreviewed ==
  \A i \in DOMAIN writes : \A j \in writes[i].blind : writes[j].by = "command line" /\ j > writes[i].since

(* What the desktop saved was tested and shown: a profile is bound to the  *)
(* destination that the test showed and that is approved for its endpoint, *)
(* and a consent for a provider elsewhere was previewed with the warning.  *)
SavedAsReviewed ==
  \A w \in {writes[i] : i \in {k \in DOMAIN writes : writes[k].by = "desktop"}} :
    /\ w.what = "profile" =>
         LET row == profiles[w.name]
         IN row.identity = w.shown.tested /\ row.identity[1] = row.endpoint /\ Approved(row.endpoint, row.identity[2])
    /\ w.what = "consent" => w.shown.warned = ~ Loopback(profiles[consents[w.name].profile].endpoint)

(* What is sent elsewhere has a consent for its profile and model that was *)
(* not revoked as the request came, and goes to the destination that its   *)
(* profile is bound to.                                                    *)
SentAsConsented ==
  RequestAt("sent") =>
    /\ ~ Loopback(request.endpoint) =>
         /\ request.consent \in DOMAIN consents \ request.revoked
         /\ consents[request.consent].profile = request.profile
         /\ request.model \in consents[request.consent].models \cap {profiles[request.profile].model}
    /\ request.profile # "" => profiles[request.profile].endpoint = request.endpoint
    /\ request.profile # "" /\ profiles[request.profile].identity # <<>> =>
         profiles[request.profile].identity[2] = request.first
================================================================================
