--------------------------- MODULE ContainerSupervisor ---------------------------
(***************************************************************************)
(* Control of the containers of one Compose project through the docker CLI *)
(* (desktop/src/main/container-supervisor.ts, container-process.ts).  An   *)
(* operation is confirmed beforehand by a token; it verifies the socket,   *)
(* the engine and every resource, lets compose do its work, and verifies   *)
(* them again.  Others use the same engine at any moment.                  *)
(*                                                                         *)
(* A resource is ours (with our labels and hardened as planned), drifted   *)
(* (our labels, but not as planned), foreign (its name, not our labels) or *)
(* absent; Stray has our labels and a name that is not in the plan.  The   *)
(* parsing of the policy, the plan and the answers is left out: an answer  *)
(* that does not parse is one of the failures.                             *)
(***************************************************************************)
EXTENDS Naturals, Sequences, FiniteSets

CONSTANTS
  Containers, Networks, Volumes,  \* of the plan
  Stray,                          \* a resource that is not in it
  Callers,                        \* those who may ask at the same time
  MaxTokens, MaxCalls,            \* bounds: tokens that are issued, operations that are asked for
  MaxUpsets,                      \* bound: outside steps and failures
  None

Planned == Containers \cup Networks \cup Volumes
Resources == Planned \cup {Stray}
Confirmed == {"start", "repair", "uninstall-preserve", "uninstall-delete"}
Operations == Confirmed \cup {"stop"}
Steps == {"endpoint", "engine", "inventory", "inspect", "again", "apply"}

VARIABLES
  world,    \* [Resources -> state]
  socket,   \* the inode under the path of the socket
  trusted,  \* it is that of our engine
  tokens,   \* those issued: for which operation, whether known, expired, how often used
  call,     \* [Callers -> the operation a caller asked for last]
  latest,  \* the caller whose operation runs, or ran last
  asked,
  orphan,   \* operations whose compose process outlived its termination
  upset,    \* since the operation began, others or an orphan have interfered
  upsets

engine == <<socket, trusted>>
vars == <<world, engine, tokens, call, latest, asked, orphan, upset, upsets>>

NoCall == [kind |-> "none", at |-> "none", round |-> 1, first |-> 0, before |-> 0, seen |-> {}]

Init ==
  /\ world = [r \in Resources |-> "absent"]
  /\ socket = 1 /\ trusted = TRUE
  /\ tokens = <<>>
  /\ call = [c \in Callers |-> NoCall] /\ latest = None /\ asked = 0
  /\ orphan = {} /\ upset = FALSE /\ upsets = 0

Busy == \E c \in Callers : call[c].at \in Steps
Present == {r \in Resources : world[r] # "absent"}
Move(c, s) == call' = [call EXCEPT ![c].at = s]
Ends(c, s) == call' = [call EXCEPT ![c] = [NoCall EXCEPT !.kind = call[c].kind, !.at = s]]
Refuse(c) == Ends(c, "failed")

-------------------------------------------------------------------------------
(* authorize: the phrase of this operation was typed.                      *)
Authorize(kind) ==
  /\ Len(tokens) < MaxTokens
  /\ tokens' = Append(tokens, [kind |-> kind, known |-> TRUE, expired |-> FALSE, used |-> 0])
  /\ UNCHANGED <<world, engine, call, latest, asked, orphan, upset, upsets>>

(* start, repair, uninstall: the token that is offered is forgotten,       *)
(* whatever becomes of the operation; it has to be one of this operation.  *)
Consumed(t) == [tokens EXCEPT ![t].known = FALSE]
Authorized(kind, t) == tokens[t].known /\ tokens[t].kind = kind /\ ~ tokens[t].expired
Used(t) == [Consumed(t) EXCEPT ![t].used = @ + 1]

Run(c, kind) ==
  /\ call' = [call EXCEPT ![c] = [NoCall EXCEPT !.kind = kind, !.at = "endpoint"]]
  /\ latest' = c /\ upset' = FALSE

Refused == UNCHANGED <<call, latest, upset>>

Begin(c, kind) ==
  /\ call[c].at \notin Steps
  /\ asked < MaxCalls /\ asked' = asked + 1
  /\ \/ /\ kind \in Confirmed
        /\ \E t \in DOMAIN tokens :
             IF Authorized(kind, t)
               THEN tokens' = Used(t) /\ IF Busy THEN Refused ELSE Run(c, kind)
               ELSE tokens' = Consumed(t) /\ Refused
     \/ kind = "stop" /\ ~ Busy /\ Run(c, kind) /\ UNCHANGED tokens
  /\ UNCHANGED <<world, engine, orphan, upsets>>

-------------------------------------------------------------------------------
(* preflight: the socket, the engine, the inventory, how the resources are *)
(* made, and the socket again.                                             *)
InspectEndpoint(c) ==
  /\ call[c].at = "endpoint"
  /\ call' = [call EXCEPT ![c].at = "engine", ![c].first = socket]

Observe(c) ==
  /\ call[c].at = "engine"
  /\ IF trusted THEN Move(c, "inventory") ELSE Refuse(c)

OwnInventory == \A r \in Present : r # Stray /\ world[r] # "foreign"

Inventory(c) ==
  /\ call[c].at = "inventory"
  /\ IF OwnInventory
       THEN call' = [call EXCEPT ![c].at = "inspect", ![c].seen = Present]
       ELSE Refuse(c)

(* Containers and networks are inspected one by one; a volume has nothing  *)
(* to inspect.                                                             *)
Hardened(c) == \A r \in call[c].seen \ Volumes : world[r] \in {"ours", "foreign"}

InspectResources(c) ==
  /\ call[c].at = "inspect"
  /\ IF Hardened(c) THEN Move(c, "again") ELSE Refuse(c)

(* What has to be there after an operation.                                *)
Expected(kind) ==
  CASE kind = "uninstall-delete" -> {}
    [] kind = "uninstall-preserve" -> Volumes
    [] OTHER -> Planned

(* Mutant: what is there after the operation is not compared.              *)
AsExpectedSocket(c) == call[c].before = socket

AsExpected(c) == call[c].before = socket /\ call[c].seen = Expected(call[c].kind)

InspectAgain(c) ==
  /\ call[c].at = "again"
  /\ IF call[c].first # socket THEN Refuse(c)
     ELSE IF call[c].round = 1
            THEN call' = [call EXCEPT ![c].at = "apply", ![c].before = socket]
     ELSE IF AsExpected(c) THEN Ends(c, "verified") ELSE Refuse(c)

Preflight(c) ==
  /\ \/ InspectEndpoint(c) \/ Observe(c) \/ Inventory(c) \/ InspectResources(c)
     \/ InspectAgain(c)
  /\ UNCHANGED <<world, engine, tokens, latest, asked, orphan, upset, upsets>>

-------------------------------------------------------------------------------
(* compose up makes what is missing and, when it recreates, the containers *)
(* anew; down removes what has our labels; neither touches what has not.   *)
Wrought(kind) ==
  [r \in Resources |->
     IF r = Stray \/ world[r] = "foreign" THEN world[r]
     ELSE CASE kind = "stop" -> world[r]
            [] kind = "start" -> IF world[r] = "absent" THEN "ours" ELSE world[r]
            [] kind = "repair" -> IF world[r] = "absent" \/ r \in Containers THEN "ours" ELSE world[r]
            [] OTHER -> IF r \in Expected(kind) THEN world[r] ELSE "absent"]

(* Some of it, when it fails or is terminated.                             *)
Partly(kind) ==
  {[r \in Resources |-> IF r \in done THEN Wrought(kind)[r] ELSE world[r]] : done \in SUBSET Planned}

Apply(c) ==
  /\ call[c].at = "apply"
  /\ world' = Wrought(call[c].kind)
  /\ IF \E r \in Planned : world[r] = "foreign" /\ call[c].kind \in {"start", "repair"}
       THEN Refuse(c)
       ELSE call' = [call EXCEPT ![c].at = "endpoint", ![c].round = 2]
  /\ UNCHANGED <<engine, tokens, latest, asked, orphan, upset, upsets>>

(* compose fails or exceeds its deadline and is terminated; a termination  *)
(* that fails is passed over, and the process works on.                    *)
ApplyFails(c) ==
  /\ call[c].at = "apply" /\ upsets < MaxUpsets /\ upsets' = upsets + 1
  /\ world' \in Partly(call[c].kind)
  /\ orphan' \in {orphan, orphan \cup {call[c].kind}}
  /\ Refuse(c)
  /\ UNCHANGED <<engine, tokens, latest, asked, upset>>

OrphanWorks(k) ==
  /\ k \in orphan /\ orphan' = orphan \ {k}
  /\ world' = Wrought(k) /\ upset' = TRUE
  /\ UNCHANGED <<engine, tokens, call, latest, asked, upsets>>

(* An inspection cannot be executed.                                       *)
InspectionFails(c) ==
  /\ call[c].at \in Steps \ {"apply"} /\ upsets < MaxUpsets /\ upsets' = upsets + 1
  /\ Refuse(c)
  /\ UNCHANGED <<world, engine, tokens, latest, asked, orphan, upset>>

-------------------------------------------------------------------------------
(* Others make, change or remove a resource, or put another engine behind  *)
(* the socket.                                                             *)
Others ==
  /\ upsets < MaxUpsets /\ upsets' = upsets + 1 /\ upset' = TRUE
  /\ \/ /\ \E r \in Resources, s \in {"absent", "drifted", "foreign"} :
             /\ s = "drifted" => world[r] = "ours" /\ r \notin Volumes
             /\ s = "foreign" => world[r] = "absent"
             /\ world' = [world EXCEPT ![r] = s]
        /\ UNCHANGED engine
     \/ socket' = 3 - socket /\ trusted' \in BOOLEAN /\ UNCHANGED world
  /\ UNCHANGED <<tokens, call, latest, asked, orphan>>

(* Five minutes have passed; a token that is gone need not expire.          *)
Expire(t) ==
  /\ tokens[t].known /\ ~ tokens[t].expired
  /\ tokens' = [tokens EXCEPT ![t].expired = TRUE]
  /\ UNCHANGED <<world, engine, call, latest, asked, orphan, upset, upsets>>

Next ==
  \/ Others \/ (\E t \in DOMAIN tokens : Expire(t)) \/ \E kind \in Confirmed : Authorize(kind)
  \/ \E c \in Callers :
       \/ \E kind \in Operations : Begin(c, kind)
       \/ Preflight(c) \/ Apply(c) \/ ApplyFails(c) \/ InspectionFails(c)
  \/ \E k \in orphan : OrphanWorks(k)

-------------------------------------------------------------------------------
(* Types of the variables.                                                 *)
TypeOK ==
  /\ world \in [Resources -> {"absent", "ours", "drifted", "foreign"}]
  /\ socket \in {1, 2} /\ trusted \in BOOLEAN
  /\ tokens \in Seq([kind : Confirmed, known : BOOLEAN, expired : BOOLEAN, used : Nat])
  /\ \A c \in Callers : call[c].at \in Steps \cup {"none", "failed", "verified"}
  /\ orphan \subseteq Operations

(* A token serves once, and one operation runs at a time.                  *)
OneEach ==
  /\ Cardinality({c \in Callers : call[c].at \in Steps}) <= 1
  /\ \A t \in DOMAIN tokens : tokens[t].used <= 1

(* "Conflicting resources are reported and never adopted" (DEPLOYMENT.md): *)
(* compose works on a project that is all ours, and what is reported as    *)
(* verified is so, unless others got in between.                           *)
AllOurs == \A r \in Present : r \in Planned /\ world[r] = "ours"

VerifiedIsExact ==
  ~ upset /\ latest # None =>
    /\ call[latest].at = "apply" => trusted /\ AllOurs
    /\ call[latest].at = "verified" =>
         trusted /\ AllOurs /\ Present = Expected(call[latest].kind)
===============================================================================
