-------------------------------- MODULE Gateway --------------------------------
(***************************************************************************)
(* Requests behind the middleware, composed with the defences they set     *)
(* off: proxyRequest (gateway.service.ts) with handleBreachEvent           *)
(* (breach-response.service.ts) and captureAttackerTelemetry               *)
(* (attacker-recon.service.ts) inside it, the decoy routes                 *)
(* (deception.service.ts), the drill, and what operators do meanwhile.     *)
(*                                                                         *)
(* A request is one handler; pc says at which await it is suspended.  What *)
(* is awaited but settles without I/O (shareThreatSignature) is not a      *)
(* point of suspension.  Audit entries, logs and answers are left out.     *)
(* Fault: incident.create rejects.                                         *)
(***************************************************************************)
EXTENDS BreachResponse, PayloadInspection

CONSTANTS
  Requests,
  Apps,          \* application ids: entities, their legacy aliases, any other
  Limit,         \* rateLimitPerMin of the ids the constructor registers
  DefaultLimit,  \* rateLimitPerMin of what the route registers
  WINDOW,     \* the 60 seconds of the rate limit, in ticks
  MaxClock,   \* bound: the last tick
  MaxOperatorActs  \* bound: operations of operators

ASSUME AppsAssumption == Entities \subseteq DOMAIN Limit /\ DOMAIN Limit \subseteq Apps
ASSUME LimitAssumption == /\ Limit \in [DOMAIN Limit -> Nat] /\ DefaultLimit \in Nat
                          /\ WINDOW \in Nat /\ MaxClock \in Nat /\ MaxOperatorActs \in Nat

Limits == {Limit[id] : id \in DOMAIN Limit} \cup {DefaultLimit}

\* A drill's enclaveAppId is what its caller sends.
Unknown == "unknown"

\* A request to the gateway keeps the object it found its application in, and
\* of it the limit; the url it is forwarded to is left out.
RequestKinds ==
  [route : {"gateway"}, ip : IPs, app : Apps, body : Payloads, limit : Limits]
    \cup [route : {"decoy"}, ip : IPs]
    \cup [route : {"drill"}, ip : IPs, app : Entities \cup {Unknown}]

VARIABLES
  clock,
  pc,         \* per request: where it is suspended
  req,        \* per request: what it asks for
  outcome,    \* per request: how it ended
  level,      \* per request: the level in its evidenceRaw
  apps,       \* rateLimitPerMin of each id that is registered
  rateLimitBuckets,  \* per application id and address: who arrived, and when
  dossiers,   \* per request: its dossier in the map, if any
  \* history
  resets, restores, operatorActs,
  resetsSeen,    \* per request: resets before its response began
  restoresSeen,  \* per request: restores before its entity was isolated
  passedAt       \* per request: when it passed the rate limit

requestVars == <<pc, req, outcome, level, resetsSeen, restoresSeen, passedAt>>
operatorVars == <<apps, resets, restores, operatorActs>>
vars == <<fleetVars, federatedBlocklist, listVars, incidents, clock, requestVars,
          rateLimitBuckets, dossiers, operatorVars>>

None == [route |-> "none"]
Never == -1

TypeOK ==
  /\ FleetTypeOK
  /\ currentDefcon \in {Normal, Lockdown}
  /\ blacklistedIps \subseteq IPs /\ tarpittedIps \subseteq IPs
  /\ incidents \subseteq [by : Requests, defcon : {Normal, Lockdown, "none"}]
  /\ clock \in 0..MaxClock
  /\ pc \in [Requests -> {"idle", "held", "isolating", "revoking", "incident",
                          "lookup", "recon", "over"}]
  /\ req \in [Requests -> RequestKinds \cup {None}]
  /\ outcome \in [Requests -> {"none", "forwarded", "rejected", "limited",
                               "intercepted", "answered", "failed"}]
  /\ level \in [Requests -> {Normal, Lockdown, "none"}]
  /\ DOMAIN apps \subseteq Apps /\ apps \in [DOMAIN apps -> Limits]
  /\ rateLimitBuckets \in [Apps \X IPs -> SUBSET [by : Requests, at : 0..clock]]
  /\ dossiers \in [Requests -> {"none", "ACTIVE_RECON", "EXFILTRATION_BEACON_TRIPPED"}]
  /\ resets \in 0..operatorActs /\ restores \in 0..operatorActs
  /\ operatorActs \in 0..MaxOperatorActs
  /\ resetsSeen \in [Requests -> 0..resets]
  /\ restoresSeen \in [Requests -> 0..restores]
  /\ passedAt \in [Requests -> {Never} \cup 0..clock]

Init ==
  /\ FleetInit /\ ListsInit
  /\ clock = 0
  /\ pc = [r \in Requests |-> "idle"]
  /\ req = [r \in Requests |-> None]
  /\ outcome = [r \in Requests |-> "none"]
  /\ level = [r \in Requests |-> "none"]
  /\ apps = Limit
  /\ rateLimitBuckets = [key \in Apps \X IPs |-> {}]
  /\ dossiers = [r \in Requests |-> "none"]
  /\ resets = 0 /\ restores = 0 /\ operatorActs = 0
  /\ resetsSeen = [r \in Requests |-> 0]
  /\ restoresSeen = [r \in Requests |-> 0]
  /\ passedAt = [r \in Requests |-> Never]
-------------------------------------------------------------------------------
Goto(r, there) == pc' = [pc EXCEPT ![r] = there]
End(r, how) == Goto(r, "over") /\ outcome' = [outcome EXCEPT ![r] = how]

\* Where a request goes on when its response is over or has failed: the gateway
\* catches the failure and captures the telemetry, a drill answers its caller.
AfterResponse(r, route, how) ==
  IF route = "gateway" THEN Goto(r, "recon") /\ UNCHANGED outcome
                       ELSE End(r, how)

\* handleBreachEvent up to its first await, with the indicators the caller shared.
BeginResponse(r, route, id, shared) ==
  /\ RaiseDefcon
  /\ resetsSeen' = [resetsSeen EXCEPT ![r] = resets]
  /\ IF id \in Entities
       THEN /\ QuarantineEntity(id)
            /\ ShareThreatSignature(shared \cup {id})
            /\ restoresSeen' = [restoresSeen EXCEPT ![r] = restores]
            /\ Goto(r, "isolating")
            /\ UNCHANGED outcome
       ELSE /\ ShareThreatSignature(shared)
            /\ AfterResponse(r, route, "failed")
            /\ UNCHANGED <<status, postureScore, restoresSeen>>
  /\ UNCHANGED <<isolationLevel, blacklistedIps, tarpittedIps>>

\* Mutant: the window starts a tick late.
Recent_OffByOne(arrivals) == {a \in arrivals : a.at > clock - WINDOW + 1}

\* checkRateLimit: the sliding window.  What is turned away counts too.
Recent(arrivals) == {a \in arrivals : a.at > clock - WINDOW}

ArrivalsOf(r, app, ip) == Recent(rateLimitBuckets[app, ip]) \cup {[by |-> r, at |-> clock]}

\* Mutant: only the response, when it succeeds, would tell the peers.
Intercept_NotShared(r, app, ip) == BeginResponse(r, "gateway", app, {})

\* A pattern is found: the origin is shared, then the response begins.
Intercept(r, app, ip) == BeginResponse(r, "gateway", app, {ip})

\* The lookup of the country is not repeated here: the middleware has refused
\* the addresses it would refuse.
Inspect(r, body, app, ip) ==
  \/ /\ Verdict[body] = "clean"
     /\ End(r, "forwarded")
     /\ UNCHANGED <<fleetVars, federatedBlocklist, listVars, resetsSeen, restoresSeen>>
  \/ /\ Verdict[body] = "vector"
     /\ ShareThreatSignature({ip})
     /\ End(r, "rejected")
     /\ UNCHANGED <<fleetVars, listVars, resetsSeen, restoresSeen>>
  \/ /\ Verdict[body] = "pattern"
     /\ Intercept(r, app, ip)

\* proxyRequest from tier 1 on, in one go up to the await of the response or of
\* the upstream.
Screen(r, app, ip, body, limit) ==
  \/ /\ IsThreatBlocked(ip)
     /\ End(r, "rejected")
     /\ UNCHANGED <<fleetVars, federatedBlocklist, listVars, rateLimitBuckets,
                    resetsSeen, restoresSeen, passedAt>>
  \/ /\ ~IsThreatBlocked(ip)
     /\ rateLimitBuckets' = [rateLimitBuckets EXCEPT ![<<app, ip>>] = ArrivalsOf(r, app, ip)]
     /\ \/ /\ Cardinality(ArrivalsOf(r, app, ip)) > limit
           /\ End(r, "limited")
           /\ UNCHANGED <<fleetVars, federatedBlocklist, listVars, resetsSeen,
                          restoresSeen, passedAt>>
        \/ /\ Cardinality(ArrivalsOf(r, app, ip)) <= limit
           /\ passedAt' = [passedAt EXCEPT ![r] = clock]
           /\ Inspect(r, body, app, ip)

\* proxyRequest, tier 0.
Refused(app, ip) == IsQuarantined(app) \/ ip \in blacklistedIps

\* getApp, then tier 0; who names an id that is not registered is told so and
\* changes nothing.
Proxy(r) ==
  /\ pc[r] = "idle"
  /\ \E k \in {k \in RequestKinds : k.route = "gateway"} :
       /\ k.app \in DOMAIN apps /\ k.limit = apps[k.app]
       /\ req' = [req EXCEPT ![r] = k]
       /\ \/ /\ Refused(k.app, k.ip)
             /\ End(r, "rejected")
             /\ UNCHANGED <<fleetVars, federatedBlocklist, listVars, rateLimitBuckets,
                            resetsSeen, restoresSeen, passedAt>>
          \/ /\ ~Refused(k.app, k.ip) /\ k.ip \in tarpittedIps
             /\ Goto(r, "held")
             /\ UNCHANGED <<fleetVars, federatedBlocklist, listVars, rateLimitBuckets,
                            resetsSeen, restoresSeen, passedAt, outcome>>
          \/ /\ ~Refused(k.app, k.ip) /\ k.ip \notin tarpittedIps
             /\ Screen(r, k.app, k.ip, k.body, k.limit)
  /\ UNCHANGED <<incidents, clock, level, dossiers, operatorVars>>

\* The two seconds in the tarpit are over; tier 0 is not asked again, nor the
\* application looked up.
LeaveTarpit(r) ==
  /\ pc[r] = "held"
  /\ UNCHANGED <<incidents, clock, req, level, dossiers, operatorVars>>
  /\ Screen(r, req[r].app, req[r].ip, req[r].body, req[r].limit)

Drill(r) ==
  /\ pc[r] = "idle"
  /\ \E k \in {k \in RequestKinds : k.route = "drill"} :
       /\ req' = [req EXCEPT ![r] = k]
       /\ BeginResponse(r, "drill", k.app, {})
  /\ UNCHANGED <<incidents, clock, level, rateLimitBuckets, dossiers, operatorVars, passedAt>>

\* Mutant: the evidence is frozen before the origin is contained.
Isolate_EvidenceFirst(r) ==
  /\ pc[r] = "isolating"
  /\ EnforceIsolation(req[r].app)
  /\ Goto(r, "incident")
  /\ UNCHANGED <<status, postureScore, federatedBlocklist, listVars, incidents, clock,
                 req, outcome, level, resetsSeen, restoresSeen, passedAt,
                 rateLimitBuckets, dossiers, operatorVars>>

\* The audit entry of the quarantine is written.
Isolate(r) ==
  /\ pc[r] = "isolating"
  /\ EnforceIsolation(req[r].app)
  /\ Goto(r, "revoking")
  /\ UNCHANGED <<status, postureScore, federatedBlocklist, listVars, incidents, clock,
                 req, outcome, level, resetsSeen, restoresSeen, passedAt,
                 rateLimitBuckets, dossiers, operatorVars>>

\* revokeToken settles: phase 3, and the level goes into the evidence.
Contain(r) ==
  /\ pc[r] = "revoking"
  /\ Blacklist(req[r].ip)
  /\ EngageTarpit(req[r].ip)
  /\ level' = [level EXCEPT ![r] = currentDefcon]
  /\ Goto(r, "incident")
  /\ UNCHANGED <<fleetVars, federatedBlocklist, currentDefcon, incidents, clock, req,
                 outcome, resetsSeen, restoresSeen, passedAt, rateLimitBuckets,
                 dossiers, operatorVars>>

\* freezeForensicEvidence stores the incident, or fails and with it the response.
FreezeEvidence(r) ==
  /\ pc[r] = "incident" /\ req[r].route # "decoy"
  /\ \/ OpenIncident(r, level[r]) /\ AfterResponse(r, req[r].route, "answered")
     \/ UNCHANGED incidents /\ AfterResponse(r, req[r].route, "failed")
  /\ UNCHANGED <<fleetVars, federatedBlocklist, listVars, clock, req, level, resetsSeen,
                 restoresSeen, passedAt, rateLimitBuckets, dossiers, operatorVars>>

\* captureAttackerTelemetry, up to its reverse lookup and after it; a gateway
\* request is then refused, a decoy's origin goes into the tarpit.
Capture(r) ==
  /\ pc[r] = "recon"
  /\ dossiers' = [dossiers EXCEPT ![r] = "ACTIVE_RECON"]
  /\ \/ /\ req[r].route = "gateway"
        /\ End(r, "intercepted")
        /\ UNCHANGED tarpittedIps
     \/ /\ req[r].route = "decoy"
        /\ EngageTarpit(req[r].ip)
        /\ resetsSeen' = [resetsSeen EXCEPT ![r] = resets]
        /\ End(r, "answered")
  /\ req[r].route = "gateway" => UNCHANGED resetsSeen
  /\ UNCHANGED <<fleetVars, federatedBlocklist, currentDefcon, blacklistedIps, incidents,
                 clock, req, level, restoresSeen, passedAt, rateLimitBuckets, operatorVars>>

\* A decoy route: handleDeceptionHit up to its first queries.  They look for a
\* honeytoken whose value is the route's, which no generated honeytoken has: its
\* accessCount is never touched.
Decoy(r) ==
  /\ pc[r] = "idle"
  /\ \E k \in {k \in RequestKinds : k.route = "decoy"} : req' = [req EXCEPT ![r] = k]
  /\ Goto(r, "lookup")
  /\ UNCHANGED <<fleetVars, federatedBlocklist, listVars, incidents, clock, outcome, level,
                 resetsSeen, restoresSeen, passedAt, rateLimitBuckets, dossiers, operatorVars>>

\* The incident of a decoy hit; without it the handler fails there and then.
HitIncident(r) ==
  /\ pc[r] = "lookup"
  /\ \/ OpenIncident(r, "none") /\ Goto(r, "recon") /\ UNCHANGED outcome
     \/ UNCHANGED incidents /\ End(r, "failed")
  /\ UNCHANGED <<fleetVars, federatedBlocklist, listVars, clock, req, level, resetsSeen,
                 restoresSeen, passedAt, rateLimitBuckets, dossiers, operatorVars>>

\* recordBeaconPing: the middleware lets it through whoever asks.
BeaconPing(r) ==
  /\ dossiers[r] = "ACTIVE_RECON"
  /\ dossiers' = [dossiers EXCEPT ![r] = "EXFILTRATION_BEACON_TRIPPED"]
  /\ UNCHANGED <<fleetVars, federatedBlocklist, listVars, incidents, clock, requestVars,
                 rateLimitBuckets, operatorVars>>
-------------------------------------------------------------------------------
(* Operators, and time *)

OperatorAct ==
  /\ operatorActs < MaxOperatorActs
  /\ operatorActs' = operatorActs + 1
  /\ UNCHANGED <<incidents, clock, requestVars, rateLimitBuckets, dossiers>>

Reset ==
  /\ OperatorAct
  /\ ResetDefcon
  /\ resets' = resets + 1
  /\ UNCHANGED <<fleetVars, federatedBlocklist, apps, restores>>

Restore(e) ==
  /\ OperatorAct
  /\ RestoreEntity(e)
  /\ restores' = restores + 1
  /\ UNCHANGED <<isolationLevel, federatedBlocklist, listVars, apps, resets>>

\* FleetController's quarantine: the isolation level is not touched.
Quarantine(e) ==
  /\ OperatorAct
  /\ QuarantineEntity(e)
  /\ ShareThreatSignature({e})
  /\ UNCHANGED <<isolationLevel, listVars, apps, resets, restores>>

Tarpit(ip) ==
  /\ OperatorAct
  /\ EngageTarpit(ip)
  /\ UNCHANGED <<fleetVars, federatedBlocklist, currentDefcon, blacklistedIps, apps, resets,
                 restores>>

\* registerApp by its route, of a new id or over an entity or an alias: who is
\* in the tarpit keeps the object that is replaced.
Register(id) ==
  /\ OperatorAct
  /\ apps' = [a \in DOMAIN apps \cup {id} |-> IF a = id THEN DefaultLimit ELSE apps[a]]
  /\ UNCHANGED <<fleetVars, federatedBlocklist, listVars, resets, restores>>

Tick ==
  /\ clock < MaxClock
  /\ clock' = clock + 1
  /\ UNCHANGED <<fleetVars, federatedBlocklist, listVars, incidents, requestVars,
                 rateLimitBuckets, dossiers, operatorVars>>

Handle(r) ==
  \/ Proxy(r) \/ LeaveTarpit(r) \/ Drill(r) \/ Decoy(r) \/ HitIncident(r)
  \/ Isolate(r) \/ Contain(r) \/ FreezeEvidence(r) \/ Capture(r) \/ BeaconPing(r)

Operate ==
  \/ Reset
  \/ \E e \in Entities : Restore(e) \/ Quarantine(e)
  \/ \E ip \in IPs : Tarpit(ip)
  \/ \E id \in Apps : Register(id)

Next == (\E r \in Requests : Handle(r)) \/ Operate \/ Tick

Spec == Init /\ [][Next]_vars
-------------------------------------------------------------------------------
(* Properties *)

Forwarded(r) == outcome[r] # "forwarded" /\ outcome'[r] = "forwarded"

Evidence(r) == \E i \in incidents : i.by = r

(* From the moment a request of an address has been intercepted, no request   *)
(* of that address reaches an application -- not the ones that were in the    *)
(* tarpit, not after a response that failed half-way, not after a reset.      *)
InterceptedOriginStaysOut ==
  [][\A r, s \in Requests :
       Forwarded(r) /\ req[s].route = "gateway" /\ Verdict[req[s].body] # "clean"
         /\ passedAt[s] # Never => req'[r].ip # req[s].ip]_vars

Contained(r) == pc[r] \in {"incident", "recon", "over"} /\ level[r] # "none"

(* The level and the lists tell one story: a response that contained its      *)
(* origin with no reset since it began leaves the level at lockdown, in its   *)
(* evidence too, and the origin blacklisted and in the tarpit; an address is  *)
(* blacklisted under a normal level only by a response a reset ran into.      *)
LevelAndListsAgree ==
  /\ \A r \in Requests : Contained(r) /\ resetsSeen[r] = resets =>
       /\ currentDefcon = Lockdown /\ level[r] = Lockdown
       /\ req[r].ip \in blacklistedIps \cap tarpittedIps
  /\ currentDefcon = Normal => \A ip \in blacklistedIps :
       \E r \in Requests : Contained(r) /\ req[r].ip = ip /\ level[r] = Normal

(* An entity a response has isolated stays quarantined and airgapped until it *)
(* is restored, and an entity is online with its airgap on only if somebody   *)
(* restored it.                                                               *)
AirgapUntilRestored ==
  /\ \A r \in Requests :
       req[r] # None /\ pc[r] # "isolating" /\ Contained(r) /\ restoresSeen[r] = restores
         /\ req[r].app \in Entities
       => status[req[r].app] = "QUARANTINED" /\ isolationLevel[req[r].app] = "FULL_AIRGAP"
  /\ \A e \in Entities :
       status[e] = "ONLINE" /\ isolationLevel[e] = "FULL_AIRGAP" => restores > 0

(* In no window do more requests of an address pass the rate limit of an      *)
(* application than one of them was allowed, whatever was turned away in      *)
(* between, however often the application was registered anew with another    *)
(* limit, and for those that came from the tarpit with the old one.           *)
RateBounded ==
  \A a \in Apps, ip \in IPs, t \in 0..clock :
    LET passed == {r \in Requests :
          /\ req[r].route = "gateway" /\ passedAt[r] # Never
          /\ req[r].app = a /\ req[r].ip = ip
          /\ passedAt[r] \in (t - WINDOW + 1)..t}
    IN passed # {} => \E r \in passed : Cardinality(passed) <= req[r].limit

(* Whatever fails on the way, an intercepted request leaves its origin with   *)
(* the peers and a dossier on file, and an incident is stored as CONTAINED    *)
(* only for a response that has contained its origin.                         *)
InterceptLeavesTraces ==
  \A r \in Requests :
    /\ outcome[r] = "intercepted" =>
         req[r].ip \in federatedBlocklist /\ dossiers[r] # "none"
    /\ Evidence(r) /\ req[r].route # "decoy" => Contained(r)
===============================================================================
