---------------------------- MODULE GatewayProofs -----------------------------
(***************************************************************************)
(* Theorems about Gateway, for any entities, aliases, addresses, requests, *)
(* payloads and signatures, and for every limit.                           *)
(***************************************************************************)
EXTENDS Gateway, FiniteSetTheorems, TLAPS

Suspicious(s) == req[s].route = "gateway" /\ Verdict[req[s].body] # "clean"

Places == {"idle", "held", "isolating", "revoking", "incident", "lookup", "recon", "over"}

Outcomes == {"none", "forwarded", "rejected", "limited", "intercepted", "answered", "failed"}

\* The functions of requests are functions of requests.
RequestFunctions ==
  /\ pc \in [Requests -> Places]
  /\ outcome \in [Requests -> Outcomes]
  /\ req \in [Requests -> RequestKinds \cup {None}]
  /\ passedAt \in [Requests -> Int]

\* A request that has not begun has not passed the rate limit.
IdleNotPassed == \A r \in Requests : pc[r] = "idle" => passedAt[r] = Never

\* Whoever was found out after the rate limit has been shared with the peers.
FoundOutIsShared ==
  \A s \in Requests :
    Suspicious(s) /\ passedAt[s] # Never => req[s].ip \in federatedBlocklist

OriginInv == RequestFunctions /\ IdleNotPassed /\ FoundOutIsShared /\ clock \in Nat

\* A step that neither begins a request nor lets one pass, and that forwards none.
Quiet ==
  /\ RequestFunctions'
  /\ \A q \in Requests : pc'[q] = "idle" => pc[q] = "idle"
  /\ UNCHANGED <<req, passedAt>>
  /\ federatedBlocklist \subseteq federatedBlocklist'
  /\ \A q \in Requests : outcome'[q] = "forwarded" => outcome[q] = "forwarded"
  /\ clock' \in Nat

NoneForwarded == \A q \in Requests : outcome'[q] = "forwarded" => outcome[q] = "forwarded"

\* What the property says of one step.
KeptOut ==
  \A r, s \in Requests :
    Forwarded(r) /\ Suspicious(s) /\ passedAt[s] # Never => req'[r].ip # req[s].ip

(* Whoever shares, the list of the peers only grows.                          *)
LEMMA ResponseShares ==
  ASSUME RequestFunctions, NEW r \in Requests, NEW route, NEW id, NEW shared,
         route \in {"gateway", "drill"},
         BeginResponse(r, route, id, shared)
  PROVE  /\ federatedBlocklist \cup shared \subseteq federatedBlocklist'
         /\ outcome' \in [Requests -> Outcomes] /\ NoneForwarded
         /\ pc' \in [Requests -> Places]
         /\ \A q \in Requests : pc'[q] = "idle" => pc[q] = "idle" /\ q # r
<1>1. CASE id \in Entities
  <2>1. /\ federatedBlocklist' = federatedBlocklist \cup (shared \cup {id})
        /\ pc' = [pc EXCEPT ![r] = "isolating"] /\ outcome' = outcome
    BY <1>1 DEF BeginResponse, ShareThreatSignature, Goto
  <2> QED
    BY <2>1 DEF RequestFunctions, Places, Outcomes, NoneForwarded
<1>2. CASE id \notin Entities
  <2>1. /\ federatedBlocklist' = federatedBlocklist \cup shared
        /\ \/ pc' = [pc EXCEPT ![r] = "recon"] /\ outcome' = outcome
           \/ /\ pc' = [pc EXCEPT ![r] = "over"]
              /\ outcome' = [outcome EXCEPT ![r] = "failed"]
    BY <1>2 DEF BeginResponse, ShareThreatSignature, AfterResponse, Goto, End
  <2> QED
    BY <2>1 DEF RequestFunctions, Places, Outcomes, NoneForwarded
<1> QED
  BY <1>1, <1>2

(* What the screening of a request does to the list, the rate limit's record  *)
(* and the outcomes.                                                          *)
LEMMA ScreenShares ==
  ASSUME RequestFunctions, clock \in Nat, NEW r \in Requests, NEW app, NEW ip, NEW body,
         NEW limit, Screen(r, app, ip, body, limit)
  PROVE  /\ federatedBlocklist \subseteq federatedBlocklist'
         /\ \/ passedAt' = passedAt
            \/ /\ passedAt' = [passedAt EXCEPT ![r] = clock]
               /\ Verdict[body] # "clean" => ip \in federatedBlocklist'
         /\ outcome' \in [Requests -> Outcomes]
         /\ \A q \in Requests : outcome'[q] = "forwarded" /\ outcome[q] # "forwarded"
                                  => q = r /\ ip \notin federatedBlocklist
         /\ pc' \in [Requests -> Places]
         /\ \A q \in Requests : pc'[q] = "idle" => pc[q] = "idle" /\ q # r
<1>1. CASE IsThreatBlocked(ip)
  <2>1. /\ pc' = [pc EXCEPT ![r] = "over"]
        /\ outcome' = [outcome EXCEPT ![r] = "rejected"]
        /\ UNCHANGED <<federatedBlocklist, passedAt>>
    BY <1>1 DEF Screen, End, Goto
  <2> QED
    BY <2>1 DEF RequestFunctions, Places, Outcomes
<1>2. CASE /\ End(r, "limited")
            /\ UNCHANGED <<federatedBlocklist, passedAt>>
  BY <1>2 DEF RequestFunctions, Places, Outcomes, End, Goto
<1>3. CASE /\ ~IsThreatBlocked(ip)
            /\ passedAt' = [passedAt EXCEPT ![r] = clock]
            /\ Inspect(r, body, app, ip)
  <2>1. CASE Verdict[body] = "clean" /\ End(r, "forwarded") /\ UNCHANGED federatedBlocklist
    <3>1. /\ pc' = [pc EXCEPT ![r] = "over"]
          /\ outcome' = [outcome EXCEPT ![r] = "forwarded"]
      BY <2>1 DEF End, Goto
    <3> QED
      BY <1>3, <2>1, <3>1 DEF RequestFunctions, Places, Outcomes, IsThreatBlocked
  <2>2. CASE ShareThreatSignature({ip}) /\ End(r, "rejected")
    <3>1. /\ pc' = [pc EXCEPT ![r] = "over"]
          /\ outcome' = [outcome EXCEPT ![r] = "rejected"]
          /\ federatedBlocklist' = federatedBlocklist \cup {ip}
      BY <2>2 DEF End, Goto, ShareThreatSignature
    <3> QED
      BY <1>3, <3>1 DEF RequestFunctions, Places, Outcomes
  <2>3. CASE Intercept(r, app, ip)
    <3>1. BeginResponse(r, "gateway", app, {ip})
      BY <2>3 DEF Intercept
    <3> QED
      BY <1>3, <3>1, ResponseShares DEF NoneForwarded
  <2> QED
    BY <1>3, <2>1, <2>2, <2>3 DEF Inspect
<1> QED
  BY <1>1, <1>2, <1>3 DEF Screen
-------------------------------------------------------------------------------
(* A quiet step preserves the invariant and keeps everybody out.              *)
LEMMA QuietStep ==
  ASSUME OriginInv, Quiet
  PROVE  OriginInv' /\ KeptOut
<1>1. IdleNotPassed'
  BY DEF OriginInv, Quiet, IdleNotPassed
<1>2. FoundOutIsShared'
  BY DEF OriginInv, Quiet, FoundOutIsShared, Suspicious
<1>3. KeptOut
  BY DEF Quiet, KeptOut, Forwarded
<1> QED
  BY <1>1, <1>2, <1>3 DEF OriginInv, Quiet

(* So does a request that is screened, at the door or after the tarpit.       *)
LEMMA ScreenStep ==
  ASSUME OriginInv, NEW r \in Requests,
         passedAt[r] = Never \/ req' = req,
         \A q \in Requests \ {r} : req'[q] = req[q],
         req' \in [Requests -> RequestKinds \cup {None}],
         Screen(r, req'[r].app, req'[r].ip, req'[r].body, req'[r].limit),
         UNCHANGED clock
  PROVE  OriginInv' /\ KeptOut
<1> DEFINE ip == req'[r].ip  body == req'[r].body
<1>1. /\ federatedBlocklist \subseteq federatedBlocklist'
      /\ \/ passedAt' = passedAt
         \/ /\ passedAt' = [passedAt EXCEPT ![r] = clock]
            /\ Verdict[body] # "clean" => ip \in federatedBlocklist'
      /\ outcome' \in [Requests -> Outcomes]
      /\ \A q \in Requests : outcome'[q] = "forwarded" /\ outcome[q] # "forwarded"
                               => q = r /\ ip \notin federatedBlocklist
      /\ pc' \in [Requests -> Places]
      /\ \A q \in Requests : pc'[q] = "idle" => pc[q] = "idle" /\ q # r
  BY ScreenShares DEF OriginInv
<1>2. RequestFunctions' /\ clock' \in Nat
  BY <1>1 DEF OriginInv, RequestFunctions, Places, Outcomes
<1>3. IdleNotPassed'
  BY <1>1 DEF OriginInv, IdleNotPassed, RequestFunctions, Places, Outcomes
<1>4. FoundOutIsShared'
  <2> SUFFICES ASSUME NEW s \in Requests, Suspicious(s)', passedAt'[s] # Never
               PROVE  req'[s].ip \in federatedBlocklist'
    BY DEF FoundOutIsShared
  <2>1. CASE s # r
    BY <1>1, <2>1 DEF OriginInv, FoundOutIsShared, Suspicious, RequestFunctions, Places, Outcomes
  <2>2. CASE s = r /\ passedAt' = passedAt
    BY <1>1, <2>2 DEF OriginInv, FoundOutIsShared, Suspicious
  <2>3. CASE s = r /\ passedAt' # passedAt
    BY <1>1, <2>3 DEF Suspicious
  <2> QED
    BY <2>1, <2>2, <2>3
<1>5. KeptOut
  <2> SUFFICES ASSUME NEW q \in Requests, NEW s \in Requests, Forwarded(q), Suspicious(s),
                      passedAt[s] # Never
               PROVE  req'[q].ip # req[s].ip
    BY DEF KeptOut
  <2>1. q = r /\ ip \notin federatedBlocklist
    BY <1>1 DEF Forwarded
  <2>2. req[s].ip \in federatedBlocklist
    BY DEF OriginInv, FoundOutIsShared
  <2> QED
    BY <2>1, <2>2
<1> QED
  BY <1>2, <1>3, <1>4, <1>5 DEF OriginInv
-------------------------------------------------------------------------------
(* A request that begins and is not screened: refused, held, a decoy, a drill.*)
LEMMA BeginStep ==
  ASSUME OriginInv, NEW r \in Requests, pc[r] = "idle",
         RequestFunctions',
         \A q \in Requests \ {r} : req'[q] = req[q],
         \A q \in Requests : pc'[q] = "idle" => pc[q] = "idle",
         NoneForwarded, UNCHANGED <<clock, passedAt>>,
         federatedBlocklist \subseteq federatedBlocklist'
  PROVE  OriginInv' /\ KeptOut
<1>1. IdleNotPassed' /\ passedAt'[r] = Never
  BY DEF OriginInv, IdleNotPassed
<1>2. FoundOutIsShared'
  BY <1>1 DEF OriginInv, FoundOutIsShared, Suspicious
<1>3. KeptOut
  BY DEF KeptOut, Forwarded, NoneForwarded
<1> QED
  BY <1>1, <1>2, <1>3 DEF OriginInv

LEMMA ProxyStep ==
  ASSUME OriginInv, NEW r \in Requests, Proxy(r)
  PROVE  OriginInv' /\ KeptOut
<1>1. PICK k \in RequestKinds :
        /\ pc[r] = "idle" /\ UNCHANGED clock
        /\ req' = [req EXCEPT ![r] = k]
        /\ \/ /\ End(r, "rejected") /\ UNCHANGED <<federatedBlocklist, passedAt>>
           \/ /\ Goto(r, "held") /\ UNCHANGED <<federatedBlocklist, passedAt, outcome>>
           \/ Screen(r, k.app, k.ip, k.body, k.limit)
  BY DEF Proxy
<1>2. /\ req' \in [Requests -> RequestKinds \cup {None}]
      /\ req'[r] = k /\ \A q \in Requests \ {r} : req'[q] = req[q]
  BY <1>1 DEF OriginInv, RequestFunctions, Places, Outcomes
<1>3. CASE End(r, "rejected") /\ UNCHANGED <<federatedBlocklist, passedAt>>
  <2>1. /\ pc' = [pc EXCEPT ![r] = "over"]
        /\ outcome' = [outcome EXCEPT ![r] = "rejected"]
    BY <1>3 DEF End, Goto
  <2>2. RequestFunctions'
    BY <1>2, <1>3, <2>1 DEF OriginInv, RequestFunctions, Places, Outcomes
  <2>3. NoneForwarded /\ \A q \in Requests : pc'[q] = "idle" => pc[q] = "idle"
    BY <2>1 DEF OriginInv, RequestFunctions, Places, Outcomes, NoneForwarded
  <2> QED
    BY <1>1, <1>2, <1>3, <2>2, <2>3, BeginStep
<1>4. CASE Goto(r, "held") /\ UNCHANGED <<federatedBlocklist, passedAt, outcome>>
  <2>1. RequestFunctions'
    BY <1>2, <1>4 DEF OriginInv, RequestFunctions, Places, Outcomes, Goto
  <2>2. NoneForwarded /\ \A q \in Requests : pc'[q] = "idle" => pc[q] = "idle"
    BY <1>4 DEF OriginInv, RequestFunctions, Places, Outcomes, NoneForwarded, Goto
  <2> QED
    BY <1>1, <1>2, <1>4, <2>1, <2>2, BeginStep
<1>5. CASE Screen(r, k.app, k.ip, k.body, k.limit)
  <2>1. passedAt[r] = Never
    BY <1>1 DEF OriginInv, IdleNotPassed
  <2>2. Screen(r, req'[r].app, req'[r].ip, req'[r].body, req'[r].limit)
    BY <1>2, <1>5
  <2> QED
    BY <1>1, <1>2, <2>1, <2>2, ScreenStep
<1> QED
  BY <1>1, <1>3, <1>4, <1>5

LEMMA TarpitStep ==
  ASSUME OriginInv, NEW r \in Requests, LeaveTarpit(r)
  PROVE  OriginInv' /\ KeptOut
<1>1. /\ req' = req /\ UNCHANGED clock
      /\ Screen(r, req[r].app, req[r].ip, req[r].body, req[r].limit)
  BY DEF LeaveTarpit
<1>2. Screen(r, req'[r].app, req'[r].ip, req'[r].body, req'[r].limit)
  BY <1>1
<1>3. req' \in [Requests -> RequestKinds \cup {None}] /\ \A q \in Requests \ {r} : req'[q] = req[q]
  BY <1>1 DEF OriginInv, RequestFunctions, Places, Outcomes
<1> QED
  BY <1>1, <1>2, <1>3, ScreenStep

LEMMA DrillStep ==
  ASSUME OriginInv, NEW r \in Requests, Drill(r)
  PROVE  OriginInv' /\ KeptOut
<1>1. PICK k \in RequestKinds :
        /\ pc[r] = "idle" /\ UNCHANGED <<clock, passedAt>>
        /\ req' = [req EXCEPT ![r] = k]
        /\ BeginResponse(r, "drill", k.app, {})
  BY DEF Drill
<1>2. /\ federatedBlocklist \subseteq federatedBlocklist'
      /\ outcome' \in [Requests -> Outcomes] /\ NoneForwarded
      /\ pc' \in [Requests -> Places]
      /\ \A q \in Requests : pc'[q] = "idle" => pc[q] = "idle"
  BY <1>1, ResponseShares DEF OriginInv
<1>3. RequestFunctions' /\ \A q \in Requests \ {r} : req'[q] = req[q]
  BY <1>1, <1>2 DEF OriginInv, RequestFunctions, Places, Outcomes
<1> QED
  BY <1>1, <1>2, <1>3, BeginStep

LEMMA DecoyStep ==
  ASSUME OriginInv, NEW r \in Requests, Decoy(r)
  PROVE  OriginInv' /\ KeptOut
<1>1. PICK k \in RequestKinds :
        /\ pc[r] = "idle" /\ pc' = [pc EXCEPT ![r] = "lookup"]
        /\ req' = [req EXCEPT ![r] = k]
        /\ UNCHANGED <<clock, passedAt, outcome, federatedBlocklist>>
  BY DEF Decoy, Goto
<1>2. RequestFunctions' /\ \A q \in Requests \ {r} : req'[q] = req[q]
  BY <1>1 DEF OriginInv, RequestFunctions, Places, Outcomes
<1>3. NoneForwarded /\ \A q \in Requests : pc'[q] = "idle" => pc[q] = "idle"
  BY <1>1 DEF OriginInv, RequestFunctions, Places, Outcomes, NoneForwarded
<1> QED
  BY <1>1, <1>2, <1>3, BeginStep

(* The rest of a response, and the rest of a decoy hit.                       *)
LEMMA LaterSteps ==
  ASSUME OriginInv, NEW r \in Requests,
         Isolate(r) \/ Contain(r) \/ FreezeEvidence(r) \/ HitIncident(r) \/ Capture(r)
           \/ BeaconPing(r)
  PROVE  Quiet
<1>1. /\ UNCHANGED <<req, passedAt, clock, federatedBlocklist>>
      /\ \/ UNCHANGED <<pc, outcome>>
         \/ \E there \in {"revoking", "incident", "recon"} :
              pc' = [pc EXCEPT ![r] = there] /\ UNCHANGED outcome
         \/ \E how \in {"answered", "failed", "intercepted"} :
              pc' = [pc EXCEPT ![r] = "over"] /\ outcome' = [outcome EXCEPT ![r] = how]
  <2>1. CASE Isolate(r) \/ Contain(r)
    BY <2>1 DEF Isolate, Contain, Goto, requestVars
  <2>2. CASE FreezeEvidence(r)
    BY <2>2 DEF FreezeEvidence, AfterResponse, Goto, End
  <2>3. CASE HitIncident(r)
    BY <2>3 DEF HitIncident, Goto, End
  <2>4. CASE Capture(r)
    BY <2>4 DEF Capture, Goto, End
  <2>5. CASE BeaconPing(r)
    BY <2>5 DEF BeaconPing, requestVars
  <2> QED
    BY <2>1, <2>2, <2>3, <2>4, <2>5
<1>2. RequestFunctions'
  BY <1>1 DEF OriginInv, RequestFunctions, Places, Outcomes
<1>3. \A q \in Requests : /\ pc'[q] = "idle" => pc[q] = "idle"
                          /\ outcome'[q] = "forwarded" => outcome[q] = "forwarded"
  BY <1>1 DEF OriginInv, RequestFunctions, Places, Outcomes
<1> QED
  BY <1>1, <1>2, <1>3 DEF Quiet, OriginInv

LEMMA OtherSteps ==
  ASSUME OriginInv, Operate \/ Tick \/ UNCHANGED vars
  PROVE  Quiet
<1>1. UNCHANGED requestVars /\ clock' \in Nat /\ federatedBlocklist \subseteq federatedBlocklist'
  <2>1. CASE Operate
    BY <2>1 DEF Operate, Reset, Restore, Quarantine, Tarpit, Register, OperatorAct,
              ShareThreatSignature, OriginInv
  <2>2. CASE Tick
    BY <2>2 DEF Tick, OriginInv
  <2>3. CASE UNCHANGED vars
    BY <2>3 DEF vars, OriginInv
  <2> QED
    BY <2>1, <2>2, <2>3
<1> QED
  BY <1>1 DEF Quiet, requestVars, OriginInv, RequestFunctions, Places, Outcomes

LEMMA NextStep ==
  ASSUME OriginInv, [Next]_vars
  PROVE  OriginInv' /\ KeptOut
<1>1. CASE \E r \in Requests : Handle(r)
  <2> PICK r \in Requests : Handle(r)
    BY <1>1
  <2> QED
    BY ProxyStep, TarpitStep, DrillStep, DecoyStep, LaterSteps, QuietStep DEF Handle
<1>2. CASE Operate \/ Tick \/ UNCHANGED vars
  BY <1>2, OtherSteps, QuietStep
<1> QED
  BY <1>1, <1>2 DEF Next

LEMMA OriginStart == Init => OriginInv
BY DEF Init, OriginInv, RequestFunctions, Places, Outcomes, IdleNotPassed, FoundOutIsShared, Never

(* From the moment a request of an address has been intercepted, no request   *)
(* of that address reaches an application, whatever fails and whatever        *)
(* operators do: the origin is shared with the peers before the response can  *)
(* fail, and nothing takes it off that list.                                  *)
THEOREM OriginsStayOut == Spec => InterceptedOriginStaysOut
<1>1. OriginInv /\ [Next]_vars => OriginInv'
  BY NextStep
<1>2. OriginInv /\ [Next]_vars =>
        [\A r, s \in Requests :
           Forwarded(r) /\ req[s].route = "gateway" /\ Verdict[req[s].body] # "clean"
             /\ passedAt[s] # Never => req'[r].ip # req[s].ip]_vars
  BY NextStep DEF KeptOut, Suspicious
<1> QED
  BY <1>1, <1>2, OriginStart, PTL DEF Spec, InterceptedOriginStaysOut
-------------------------------------------------------------------------------
(* Responses: what they set, and what they leave.                             *)

DefenceTypes ==
  /\ pc \in [Requests -> Places] /\ outcome \in [Requests -> Outcomes]
  /\ req \in [Requests -> RequestKinds \cup {None}]
  /\ currentDefcon \in {Normal, Lockdown}
  /\ level \in [Requests -> {Normal, Lockdown, "none"}]
  /\ status \in [Entities -> {"ONLINE", "QUARANTINED"}]
  /\ isolationLevel \in [Entities -> {Initial, "FULL_AIRGAP"}]
  /\ dossiers \in [Requests -> {"none", "ACTIVE_RECON", "EXFILTRATION_BEACON_TRIPPED"}]
  /\ resets \in Nat /\ restores \in Nat
  /\ resetsSeen \in [Requests -> Nat] /\ restoresSeen \in [Requests -> Nat]
  /\ \A q \in Requests : resetsSeen[q] <= resets /\ restoresSeen[q] <= restores

Responding(q) == pc[q] \in {"isolating", "revoking"}

\* Where a request is says what it has done.
PlaceTells(q) ==
  /\ pc[q] = "held" => req[q].route = "gateway"
  /\ pc[q] = "lookup" => req[q].route = "decoy"
  /\ Responding(q) => req[q].route # "decoy"
  /\ pc[q] = "isolating" => req[q].app \in Entities
  /\ pc[q] = "incident" \/ level[q] # "none" => Contained(q)
  /\ level[q] # "none" => req[q].route # "decoy"
  /\ pc[q] = "idle" => ~Evidence(q)
  /\ pc[q] # "over" => outcome[q] # "intercepted"

\* A response that no reset ran into has the level, and then the lists, on its side.
ListsKeep(q) ==
  resetsSeen[q] = resets =>
    /\ Responding(q) \/ Contained(q) => currentDefcon = Lockdown
    /\ Contained(q) => level[q] = Lockdown /\ req[q].ip \in blacklistedIps \cap tarpittedIps

\* Its entity stays cut off until a restore, and is airgapped once isolated.
AirgapKeeps(q) ==
  req[q].app \in Entities =>
    /\ (Responding(q) \/ Contained(q)) /\ restoresSeen[q] = restores
         => status[req[q].app] = "QUARANTINED"
    /\ pc[q] = "revoking" \/ Contained(q) => isolationLevel[req[q].app] = "FULL_AIRGAP"

\* Its traces: the origin is shared first, the dossier comes before the answer.
TracesKeep(q) ==
  /\ req[q].route = "gateway" /\ (Responding(q) \/ pc[q] \in {"incident", "recon"})
       => req[q].ip \in federatedBlocklist
  /\ outcome[q] = "intercepted" => req[q].ip \in federatedBlocklist /\ dossiers[q] # "none"
  /\ Evidence(q) /\ req[q].route # "decoy" => Contained(q)

Own(q) == PlaceTells(q) /\ ListsKeep(q) /\ AirgapKeeps(q) /\ TracesKeep(q)

BlacklistedUnderNormal ==
  currentDefcon = Normal => \A ip \in blacklistedIps :
    \E q \in Requests : Contained(q) /\ req[q].ip = ip /\ level[q] = Normal

AirgapMeansCutOff ==
  \A e \in Entities :
    isolationLevel[e] = "FULL_AIRGAP" => status[e] = "QUARANTINED" \/ restores > 0

DefenceInv ==
  /\ DefenceTypes
  /\ \A q \in Requests : Own(q)
  /\ BlacklistedUnderNormal
  /\ AirgapMeansCutOff

\* What no step of request r does to the others, or to the state they share.
OthersKept(r) ==
  /\ \A q \in Requests \ {r} :
       /\ pc'[q] = pc[q] /\ req'[q] = req[q] /\ outcome'[q] = outcome[q]
       /\ level'[q] = level[q] /\ dossiers'[q] = dossiers[q]
       /\ resetsSeen'[q] = resetsSeen[q] /\ restoresSeen'[q] = restoresSeen[q]
  /\ \A i \in incidents' : i \in incidents \/ i.by = r
  /\ resets' = resets /\ restores' = restores

SharedGrows ==
  /\ currentDefcon' \in {currentDefcon, Lockdown}
  /\ blacklistedIps \subseteq blacklistedIps' /\ tarpittedIps \subseteq tarpittedIps'
  /\ federatedBlocklist \subseteq federatedBlocklist'
  /\ incidents \subseteq incidents'
  /\ \A e \in Entities : /\ status[e] = "QUARANTINED" => status'[e] = "QUARANTINED"
                         /\ isolationLevel[e] = "FULL_AIRGAP" => isolationLevel'[e] = "FULL_AIRGAP"

\* A request that has contained its origin is there to tell.
ContainedStays(r) == Contained(r) => Contained(r)' /\ req'[r] = req[r] /\ level'[r] = level[r]

(* A step of one request leaves the others as they were told, if what is      *)
(* shared only grows and what it adds has its reason.                         *)
LEMMA RequestStep ==
  ASSUME DefenceInv, NEW r \in Requests, DefenceTypes', Own(r)',
         OthersKept(r), SharedGrows, ContainedStays(r),
         \A ip \in blacklistedIps' \ blacklistedIps :
           Contained(r)' /\ req'[r].ip = ip /\ level'[r] = currentDefcon',
         \A e \in Entities : isolationLevel'[e] = "FULL_AIRGAP" =>
           isolationLevel[e] = "FULL_AIRGAP" \/ status'[e] = "QUARANTINED" \/ restores > 0
  PROVE  DefenceInv'
<1>1. \A q \in Requests \ {r} : PlaceTells(q)' /\ ListsKeep(q)'
  BY DEF DefenceInv, Own, PlaceTells, ListsKeep, Responding, Contained, Evidence, OthersKept,
         SharedGrows
<1>2. \A q \in Requests \ {r} : AirgapKeeps(q)'
  BY DEF DefenceInv, Own, AirgapKeeps, Responding, Contained, OthersKept, SharedGrows
<1>3. \A q \in Requests \ {r} : TracesKeep(q)'
  BY DEF DefenceInv, Own, TracesKeep, Responding, Contained, Evidence, OthersKept, SharedGrows
<1>4. BlacklistedUnderNormal'
  <2> SUFFICES ASSUME currentDefcon' = Normal, NEW ip \in blacklistedIps'
               PROVE  \E q \in Requests : Contained(q)' /\ req'[q].ip = ip /\ level'[q] = Normal
    BY DEF BlacklistedUnderNormal
  <2>1. CASE ip \notin blacklistedIps
    BY <2>1
  <2>2. CASE ip \in blacklistedIps
    <3>1. currentDefcon = Normal
      BY DEF SharedGrows, Normal, Lockdown
    <3>2. PICK q \in Requests : Contained(q) /\ req[q].ip = ip /\ level[q] = Normal
      BY <2>2, <3>1 DEF DefenceInv, BlacklistedUnderNormal
    <3> QED
      BY <3>2 DEF ContainedStays, OthersKept, Contained
  <2> QED
    BY <2>1, <2>2
<1>5. AirgapMeansCutOff'
  BY DEF DefenceInv, AirgapMeansCutOff, OthersKept, SharedGrows
<1> QED
  BY <1>1, <1>2, <1>3, <1>4, <1>5 DEF DefenceInv, Own

(* A request that is turned away, let pass, held or looks a decoy up: nothing *)
(* but the list of the peers may grow.                                        *)
LEMMA PassiveStep ==
  ASSUME DefenceInv, NEW r \in Requests, pc[r] \in {"idle", "held"},
         DefenceTypes', OthersKept(r),
         pc'[r] \in {"held", "lookup", "over"},
         pc'[r] = "held" => req'[r].route = "gateway",
         pc'[r] = "lookup" => req'[r].route = "decoy",
         pc[r] = "held" => req'[r] = req[r],
         outcome'[r] # "intercepted", level'[r] = level[r],
         UNCHANGED <<fleetVars, listVars, incidents>>,
         federatedBlocklist \subseteq federatedBlocklist'
  PROVE  DefenceInv'
<1>1. level[r] = "none"
  BY DEF DefenceInv, Own, PlaceTells, Contained
<1>2. SharedGrows /\ ContainedStays(r)
  BY <1>1 DEF SharedGrows, ContainedStays, Contained, fleetVars, listVars
<1>3. Own(r)'
  <2>1. ~Contained(r)' /\ ~Responding(r)'
    BY <1>1 DEF Contained, Responding
  <2>2. Evidence(r)' => req'[r].route = "decoy" \/ Contained(r)'
    BY <1>1 DEF DefenceInv, Own, PlaceTells, TracesKeep, Evidence, Contained
  <2> QED
    BY <1>1, <2>1, <2>2 DEF Own, PlaceTells, ListsKeep, AirgapKeeps, TracesKeep
<1> QED
  BY <1>2, <1>3, RequestStep DEF fleetVars, listVars

(* A response begins.                                                         *)
LEMMA ResponseBegins ==
  ASSUME DefenceInv, NEW r \in Requests, NEW route, NEW id, NEW shared,
         pc[r] \in {"idle", "held"}, pc[r] = "held" => req'[r] = req[r],
         req' \in [Requests -> RequestKinds \cup {None}],
         \A q \in Requests \ {r} : req'[q] = req[q],
         route = req'[r].route, route \in {"gateway", "drill"}, id = req'[r].app,
         route = "gateway" => req'[r].ip \in shared,
         BeginResponse(r, route, id, shared),
         UNCHANGED <<incidents, level, dossiers, resets, restores>>
  PROVE  DefenceInv'
<1>1. level[r] = "none" /\ outcome[r] # "intercepted"
  BY DEF DefenceInv, Own, PlaceTells, Contained
<1>2. /\ currentDefcon' = Lockdown /\ resetsSeen' = [resetsSeen EXCEPT ![r] = resets]
      /\ UNCHANGED <<isolationLevel, blacklistedIps, tarpittedIps>>
      /\ federatedBlocklist \cup shared \subseteq federatedBlocklist'
  BY DEF BeginResponse, RaiseDefcon, ShareThreatSignature
<1>3. \/ /\ id \in Entities /\ status' = [status EXCEPT ![id] = "QUARANTINED"]
         /\ restoresSeen' = [restoresSeen EXCEPT ![r] = restores]
         /\ pc' = [pc EXCEPT ![r] = "isolating"] /\ outcome' = outcome
      \/ /\ UNCHANGED <<status, restoresSeen>>
         /\ \/ /\ route = "gateway" /\ pc' = [pc EXCEPT ![r] = "recon"] /\ outcome' = outcome
            \/ /\ pc' = [pc EXCEPT ![r] = "over"]
               /\ outcome' = [outcome EXCEPT ![r] = "failed"]
  BY DEF BeginResponse, QuarantineEntity, AfterResponse, Goto, End
<1>4. DefenceTypes'
  BY <1>2, <1>3 DEF DefenceInv, DefenceTypes, Places, Outcomes
<1>5. OthersKept(r) /\ SharedGrows /\ ContainedStays(r)
  BY <1>1, <1>2, <1>3 DEF DefenceInv, DefenceTypes, OthersKept, SharedGrows, ContainedStays,
                          Contained
<1>6. Own(r)'
  <2>1. /\ level'[r] = "none" /\ ~Contained(r)' /\ outcome'[r] # "intercepted"
        /\ pc'[r] \in {"isolating", "recon", "over"}
        /\ pc'[r] = "isolating" => id \in Entities /\ status'[id] = "QUARANTINED"
    BY <1>1, <1>3 DEF DefenceInv, DefenceTypes, Contained
  <2>2. ~Evidence(r)' \/ req'[r].route = "decoy"
    BY <1>1 DEF DefenceInv, Own, PlaceTells, TracesKeep, Evidence, Contained
  <2>3. PlaceTells(r)'
    BY <2>1 DEF PlaceTells, Responding
  <2>4. ListsKeep(r)' /\ AirgapKeeps(r)'
    BY <1>2, <2>1 DEF ListsKeep, AirgapKeeps, Responding
  <2>5. TracesKeep(r)'
    BY <1>2, <2>1, <2>2 DEF TracesKeep
  <2> QED
    BY <2>3, <2>4, <2>5 DEF Own
<1> QED
  BY <1>2, <1>4, <1>5, <1>6, RequestStep

(* A request that is screened is turned away, let pass or begins a response.  *)
LEMMA ScreenKeeps ==
  ASSUME DefenceInv, NEW r \in Requests, pc[r] \in {"idle", "held"},
         pc[r] = "held" => req'[r] = req[r],
         req' \in [Requests -> RequestKinds \cup {None}],
         \A q \in Requests \ {r} : req'[q] = req[q],
         req'[r].route = "gateway",
         Screen(r, req'[r].app, req'[r].ip, req'[r].body, req'[r].limit),
         UNCHANGED <<incidents, level, dossiers, operatorVars>>
  PROVE  DefenceInv'
<1> DEFINE app == req'[r].app  ip == req'[r].ip  body == req'[r].body  limit == req'[r].limit
<1> HIDE DEF app, ip, body, limit
<1>1. CASE \E how \in {"rejected", "limited", "forwarded"} :
             /\ End(r, how) /\ UNCHANGED <<fleetVars, listVars, resetsSeen, restoresSeen>>
             /\ federatedBlocklist \subseteq federatedBlocklist'
  <2>1. PICK how \in {"rejected", "limited", "forwarded"} :
          /\ pc' = [pc EXCEPT ![r] = "over"] /\ outcome' = [outcome EXCEPT ![r] = how]
          /\ UNCHANGED <<fleetVars, listVars, resetsSeen, restoresSeen>>
          /\ federatedBlocklist \subseteq federatedBlocklist'
    BY <1>1 DEF End, Goto
  <2>2. DefenceTypes'
    BY <2>1 DEF DefenceInv, DefenceTypes, Places, Outcomes, fleetVars, listVars, operatorVars
  <2>3. OthersKept(r)
    BY <2>1 DEF DefenceInv, DefenceTypes, OthersKept, operatorVars
  <2>4. pc'[r] = "over" /\ outcome'[r] # "intercepted"
    BY <2>1 DEF DefenceInv, DefenceTypes
  <2> QED
    BY <2>1, <2>2, <2>3, <2>4, PassiveStep
<1>2. CASE Intercept(r, app, ip)
  <2>1. BeginResponse(r, "gateway", app, {ip})
    BY <1>2 DEF Intercept
  <2> QED
    BY <2>1, ResponseBegins DEF operatorVars, app, ip
<1>3. \/ \E how \in {"rejected", "limited", "forwarded"} :
           /\ End(r, how) /\ UNCHANGED <<fleetVars, listVars, resetsSeen, restoresSeen>>
           /\ federatedBlocklist \subseteq federatedBlocklist'
      \/ Intercept(r, app, ip)
  <2>1. Screen(r, app, ip, body, limit)
    BY DEF app, ip, body, limit
  <2>2. CASE End(r, "rejected") /\ UNCHANGED <<fleetVars, federatedBlocklist, listVars, resetsSeen,
                                               restoresSeen>>
    BY <2>2
  <2>3. CASE End(r, "limited") /\ UNCHANGED <<fleetVars, federatedBlocklist, listVars, resetsSeen,
                                              restoresSeen>>
    BY <2>3
  <2>4. CASE Inspect(r, body, app, ip)
    BY <2>4 DEF Inspect, ShareThreatSignature
  <2> QED
    BY <2>1, <2>2, <2>3, <2>4 DEF Screen
<1> QED
  BY <1>1, <1>2, <1>3

LEMMA ArrivalKeeps ==
  ASSUME DefenceInv, NEW r \in Requests, Proxy(r) \/ LeaveTarpit(r) \/ Drill(r) \/ Decoy(r)
  PROVE  DefenceInv'
<1>1. CASE Proxy(r)
  <2>1. PICK k \in RequestKinds :
          /\ k.route = "gateway" /\ pc[r] = "idle" /\ req' = [req EXCEPT ![r] = k]
          /\ UNCHANGED <<incidents, level, dossiers, operatorVars>>
          /\ \/ /\ End(r, "rejected")
                /\ UNCHANGED <<fleetVars, federatedBlocklist, listVars, resetsSeen, restoresSeen>>
             \/ /\ Goto(r, "held")
                /\ UNCHANGED <<fleetVars, federatedBlocklist, listVars, resetsSeen, restoresSeen,
                               outcome>>
             \/ Screen(r, k.app, k.ip, k.body, k.limit)
    BY <1>1 DEF Proxy
  <2>2. /\ req' \in [Requests -> RequestKinds \cup {None}]
        /\ req'[r] = k /\ \A q \in Requests \ {r} : req'[q] = req[q]
    BY <2>1 DEF DefenceInv, DefenceTypes
  <2>3. CASE Screen(r, k.app, k.ip, k.body, k.limit)
    <3>1. Screen(r, req'[r].app, req'[r].ip, req'[r].body, req'[r].limit)
      BY <2>2, <2>3
    <3> QED
      BY <2>1, <2>2, <3>1, ScreenKeeps
  <2>4. CASE \/ /\ End(r, "rejected")
                /\ UNCHANGED <<fleetVars, federatedBlocklist, listVars, resetsSeen, restoresSeen>>
             \/ /\ Goto(r, "held")
                /\ UNCHANGED <<fleetVars, federatedBlocklist, listVars, resetsSeen, restoresSeen,
                               outcome>>
    <3>1. /\ UNCHANGED <<fleetVars, federatedBlocklist, listVars, resetsSeen, restoresSeen>>
          /\ \/ /\ pc' = [pc EXCEPT ![r] = "over"]
                /\ outcome' = [outcome EXCEPT ![r] = "rejected"]
             \/ pc' = [pc EXCEPT ![r] = "held"] /\ outcome' = outcome
      BY <2>4 DEF End, Goto
    <3>2. DefenceTypes'
      BY <2>1, <2>2, <3>1 DEF DefenceInv, DefenceTypes, Places, Outcomes, fleetVars, listVars,
                              operatorVars
    <3>3. OthersKept(r)
      BY <2>1, <2>2, <3>1 DEF DefenceInv, DefenceTypes, OthersKept, operatorVars
    <3>4. pc'[r] \in {"held", "over"} /\ outcome'[r] # "intercepted" /\ level'[r] = level[r]
      BY <2>1, <3>1 DEF DefenceInv, DefenceTypes, Own, PlaceTells
    <3>5. req'[r].route = "gateway"
      BY <2>1, <2>2
    <3> QED
      BY <2>1, <3>1, <3>2, <3>3, <3>4, <3>5, PassiveStep
  <2> QED
    BY <2>1, <2>3, <2>4
<1>2. CASE LeaveTarpit(r)
  <2>1. /\ pc[r] = "held" /\ req' = req
        /\ UNCHANGED <<incidents, level, dossiers, operatorVars>>
        /\ Screen(r, req[r].app, req[r].ip, req[r].body, req[r].limit)
    BY <1>2 DEF LeaveTarpit
  <2>2. req' \in [Requests -> RequestKinds \cup {None}]
    BY <2>1 DEF DefenceInv, DefenceTypes
  <2>3. Screen(r, req'[r].app, req'[r].ip, req'[r].body, req'[r].limit)
    BY <2>1
  <2>4. req'[r].route = "gateway"
    BY <2>1 DEF DefenceInv, Own, PlaceTells
  <2> QED
    BY <2>1, <2>2, <2>3, <2>4, ScreenKeeps
<1>3. CASE Drill(r)
  <2>1. PICK k \in RequestKinds :
          /\ k.route = "drill" /\ pc[r] = "idle" /\ req' = [req EXCEPT ![r] = k]
          /\ UNCHANGED <<incidents, level, dossiers, operatorVars>>
          /\ BeginResponse(r, "drill", k.app, {})
    BY <1>3 DEF Drill
  <2>2. /\ req' \in [Requests -> RequestKinds \cup {None}]
        /\ req'[r] = k /\ \A q \in Requests \ {r} : req'[q] = req[q]
    BY <2>1 DEF DefenceInv, DefenceTypes
  <2> QED
    BY <2>1, <2>2, ResponseBegins DEF operatorVars
<1>4. CASE Decoy(r)
  <2>1. PICK k \in RequestKinds :
          /\ k.route = "decoy" /\ pc[r] = "idle" /\ req' = [req EXCEPT ![r] = k]
          /\ pc' = [pc EXCEPT ![r] = "lookup"]
          /\ UNCHANGED <<fleetVars, federatedBlocklist, listVars, incidents, outcome, level,
                         resetsSeen, restoresSeen, dossiers, operatorVars>>
    BY <1>4 DEF Decoy, Goto
  <2>2. DefenceTypes'
    BY <2>1 DEF DefenceInv, DefenceTypes, Places, Outcomes, fleetVars, listVars, operatorVars
  <2>3. OthersKept(r)
    BY <2>1 DEF DefenceInv, DefenceTypes, OthersKept, operatorVars
  <2>4. /\ pc'[r] = "lookup" /\ req'[r].route = "decoy" /\ outcome'[r] # "intercepted"
        /\ level'[r] = level[r]
    BY <2>1 DEF DefenceInv, DefenceTypes, Own, PlaceTells
  <2> QED
    BY <2>1, <2>2, <2>3, <2>4, PassiveStep
<1> QED
  BY <1>1, <1>2, <1>3, <1>4

(* The response: the entity is airgapped, the origin contained, the evidence  *)
(* stored.                                                                    *)
LEMMA IsolateKeeps ==
  ASSUME DefenceInv, NEW r \in Requests, Isolate(r)
  PROVE  DefenceInv'
<1>1. /\ pc[r] = "isolating" /\ pc' = [pc EXCEPT ![r] = "revoking"]
      /\ isolationLevel' = [isolationLevel EXCEPT ![req[r].app] = "FULL_AIRGAP"]
      /\ UNCHANGED <<status, federatedBlocklist, listVars, incidents, req, outcome, level,
                     resetsSeen, restoresSeen, dossiers, operatorVars>>
  BY DEF Isolate, EnforceIsolation, Goto
<1>2. /\ req[r].app \in Entities /\ req[r].route # "decoy" /\ level[r] = "none"
      /\ outcome[r] # "intercepted"
  BY <1>1 DEF DefenceInv, Own, PlaceTells, Responding, Contained
<1>3. DefenceTypes'
  BY <1>1 DEF DefenceInv, DefenceTypes, Places, listVars, operatorVars
<1>4. OthersKept(r) /\ SharedGrows /\ ContainedStays(r)
  BY <1>1, <1>2 DEF DefenceInv, DefenceTypes, OthersKept, SharedGrows, ContainedStays, Contained,
                    listVars, operatorVars
<1>5. status[req[r].app] = "QUARANTINED" \/ restores > 0
  BY <1>1, <1>2 DEF DefenceInv, DefenceTypes, Own, AirgapKeeps, Responding
<1>6. pc'[r] = "revoking" /\ isolationLevel'[req[r].app] = "FULL_AIRGAP"
  BY <1>1, <1>2 DEF DefenceInv, DefenceTypes
<1>7. PlaceTells(r)' /\ ListsKeep(r)'
  BY <1>1, <1>2, <1>6 DEF DefenceInv, Own, PlaceTells, ListsKeep, Responding, Contained, listVars,
                          operatorVars
<1>8. AirgapKeeps(r)' /\ TracesKeep(r)'
  BY <1>1, <1>2, <1>6 DEF DefenceInv, Own, AirgapKeeps, TracesKeep, Responding, Contained,
                          Evidence, operatorVars
<1>9. \A e \in Entities : isolationLevel'[e] = "FULL_AIRGAP" =>
        isolationLevel[e] = "FULL_AIRGAP" \/ status'[e] = "QUARANTINED" \/ restores > 0
  BY <1>1, <1>5 DEF DefenceInv, DefenceTypes
<1> QED
  BY <1>1, <1>3, <1>4, <1>7, <1>8, <1>9, RequestStep DEF Own, listVars

LEMMA ContainKeeps ==
  ASSUME DefenceInv, NEW r \in Requests, Contain(r)
  PROVE  DefenceInv'
<1>1. /\ pc[r] = "revoking" /\ pc' = [pc EXCEPT ![r] = "incident"]
      /\ blacklistedIps' = blacklistedIps \cup {req[r].ip}
      /\ tarpittedIps' = tarpittedIps \cup {req[r].ip}
      /\ level' = [level EXCEPT ![r] = currentDefcon]
      /\ UNCHANGED <<fleetVars, federatedBlocklist, currentDefcon, incidents, req, outcome,
                     resetsSeen, restoresSeen, dossiers, operatorVars>>
  BY DEF Contain, Blacklist, EngageTarpit, Goto
<1>2. level[r] = "none" /\ req[r].route # "decoy" /\ outcome[r] # "intercepted"
  BY <1>1 DEF DefenceInv, Own, PlaceTells, Responding, Contained
<1>3. DefenceTypes'
  BY <1>1 DEF DefenceInv, DefenceTypes, Places, fleetVars, operatorVars
<1>4. OthersKept(r) /\ SharedGrows /\ ContainedStays(r)
  BY <1>1, <1>2 DEF DefenceInv, DefenceTypes, OthersKept, SharedGrows, ContainedStays, Contained,
                    fleetVars, operatorVars
<1>5. pc'[r] = "incident" /\ level'[r] = currentDefcon /\ Contained(r)'
  BY <1>1 DEF DefenceInv, DefenceTypes, Contained, Normal, Lockdown
<1>6. PlaceTells(r)' /\ ListsKeep(r)'
  BY <1>1, <1>2, <1>5 DEF DefenceInv, Own, PlaceTells, ListsKeep, Responding, Contained,
                          operatorVars
<1>7. AirgapKeeps(r)' /\ TracesKeep(r)'
  BY <1>1, <1>2, <1>5 DEF DefenceInv, Own, AirgapKeeps, TracesKeep, Responding, fleetVars,
                          operatorVars
<1> QED
  BY <1>1, <1>3, <1>4, <1>5, <1>6, <1>7, RequestStep DEF Own, fleetVars

(* A step of a request whose origin is contained, or that has no response: it *)
(* goes on, tells of an incident, or is over.                                 *)
LEMMA LateStep ==
  ASSUME DefenceInv, NEW r \in Requests, pc[r] \in {"incident", "lookup", "recon", "over"},
         DefenceTypes', OthersKept(r),
         UNCHANGED <<fleetVars, federatedBlocklist, currentDefcon, blacklistedIps, req, level,
                     restoresSeen>>,
         tarpittedIps \subseteq tarpittedIps', incidents \subseteq incidents',
         pc'[r] \in {"recon", "over"} \/ pc'[r] = pc[r],
         pc[r] = "over" => pc'[r] = "over",
         Contained(r) => resetsSeen'[r] = resetsSeen[r],
         Evidence(r)' => Evidence(r) \/ pc[r] \in {"incident", "lookup"},
         dossiers[r] # "none" => dossiers'[r] # "none",
         outcome'[r] = "intercepted" =>
           \/ outcome[r] = "intercepted"
           \/ /\ req[r].route = "gateway" /\ pc[r] = "recon" /\ pc'[r] = "over"
              /\ dossiers'[r] # "none"
  PROVE  DefenceInv'
<1>1. SharedGrows /\ ContainedStays(r)
  BY DEF DefenceInv, Own, PlaceTells, SharedGrows, ContainedStays, Contained, fleetVars
<1>2. Contained(r)' <=> Contained(r)
  BY DEF DefenceInv, Own, PlaceTells, Contained
<1>3. PlaceTells(r)'
  BY <1>2 DEF DefenceInv, Own, PlaceTells, Responding, Contained
<1>4. ListsKeep(r)'
  BY <1>2 DEF DefenceInv, Own, ListsKeep, Responding, OthersKept
<1>5. AirgapKeeps(r)'
  BY <1>2 DEF DefenceInv, Own, AirgapKeeps, Responding, OthersKept, fleetVars
<1>6. TracesKeep(r)'
  BY <1>2 DEF DefenceInv, Own, PlaceTells, TracesKeep, Responding
<1> QED
  BY <1>1, <1>3, <1>4, <1>5, <1>6, RequestStep DEF Own, fleetVars

LEMMA LateKeeps ==
  ASSUME DefenceInv, NEW r \in Requests,
         FreezeEvidence(r) \/ HitIncident(r) \/ Capture(r) \/ BeaconPing(r)
  PROVE  DefenceInv'
<1>1. CASE FreezeEvidence(r) \/ HitIncident(r)
  <2>1. /\ pc[r] \in {"incident", "lookup"}
        /\ UNCHANGED <<fleetVars, federatedBlocklist, listVars, req, level, resetsSeen,
                       restoresSeen, dossiers, operatorVars>>
        /\ incidents' = incidents \/ \E d : incidents' = incidents \cup {[by |-> r, defcon |-> d]}
        /\ \/ pc' = [pc EXCEPT ![r] = "recon"] /\ outcome' = outcome
           \/ /\ pc' = [pc EXCEPT ![r] = "over"]
              /\ \E how \in {"answered", "failed"} : outcome' = [outcome EXCEPT ![r] = how]
    <3>1. CASE FreezeEvidence(r)
      BY <3>1 DEF FreezeEvidence, OpenIncident, AfterResponse, Goto, End
    <3>2. CASE HitIncident(r)
      BY <3>2 DEF HitIncident, OpenIncident, Goto, End
    <3> QED
      BY <1>1, <3>1, <3>2
  <2>2. DefenceTypes'
    BY <2>1 DEF DefenceInv, DefenceTypes, Places, Outcomes, fleetVars, listVars, operatorVars
  <2>3. OthersKept(r)
    BY <2>1 DEF DefenceInv, DefenceTypes, OthersKept, operatorVars
  <2>4. /\ pc'[r] \in {"recon", "over"}
        /\ outcome'[r] = "intercepted" => outcome[r] = "intercepted"
    BY <2>1 DEF DefenceInv, DefenceTypes
  <2> QED
    BY <2>1, <2>2, <2>3, <2>4, LateStep DEF listVars
<1>2. CASE Capture(r)
  <2>1. /\ pc[r] = "recon" /\ pc' = [pc EXCEPT ![r] = "over"]
        /\ dossiers' = [dossiers EXCEPT ![r] = "ACTIVE_RECON"]
        /\ UNCHANGED <<fleetVars, federatedBlocklist, currentDefcon, blacklistedIps, incidents, req,
                       level, restoresSeen, operatorVars>>
        /\ \/ /\ req[r].route = "gateway" /\ UNCHANGED <<tarpittedIps, resetsSeen>>
              /\ outcome' = [outcome EXCEPT ![r] = "intercepted"]
           \/ /\ req[r].route = "decoy"
              /\ tarpittedIps' = tarpittedIps \cup {req[r].ip}
              /\ resetsSeen' = [resetsSeen EXCEPT ![r] = resets]
              /\ outcome' = [outcome EXCEPT ![r] = "answered"]
    BY <1>2 DEF Capture, EngageTarpit, Goto, End
  <2>2. DefenceTypes'
    BY <2>1 DEF DefenceInv, DefenceTypes, Places, Outcomes, fleetVars, operatorVars
  <2>3. OthersKept(r)
    BY <2>1 DEF DefenceInv, DefenceTypes, OthersKept, operatorVars
  <2>4. /\ pc'[r] = "over" /\ dossiers'[r] # "none"
        /\ outcome'[r] = "intercepted" => req[r].route = "gateway"
    BY <2>1 DEF DefenceInv, DefenceTypes
  <2>5. Contained(r) => resetsSeen'[r] = resetsSeen[r]
    BY <2>1 DEF DefenceInv, Own, PlaceTells, Contained
  <2>6. Evidence(r)' => Evidence(r)
    BY <2>1 DEF Evidence
  <2> QED
    BY <2>1, <2>2, <2>3, <2>4, <2>5, <2>6, LateStep
<1>3. CASE BeaconPing(r)
  <2>1. /\ dossiers' = [dossiers EXCEPT ![r] = "EXFILTRATION_BEACON_TRIPPED"]
        /\ UNCHANGED <<fleetVars, federatedBlocklist, listVars, incidents, requestVars,
                       operatorVars>>
    BY <1>3 DEF BeaconPing
  <2>2. DefenceTypes'
    BY <2>1 DEF DefenceInv, DefenceTypes, fleetVars, listVars, requestVars, operatorVars
  <2>3. OthersKept(r)
    BY <2>1 DEF DefenceInv, DefenceTypes, OthersKept, requestVars, operatorVars
  <2>4. Own(r)'
    <3>1. dossiers'[r] # "none"
      BY <2>1 DEF DefenceInv, DefenceTypes
    <3>2. PlaceTells(r)' /\ ListsKeep(r)' /\ AirgapKeeps(r)'
      BY <2>1 DEF DefenceInv, Own, PlaceTells, ListsKeep, AirgapKeeps, Responding, Contained,
                  Evidence, fleetVars, listVars, requestVars, operatorVars
    <3>3. TracesKeep(r)'
      BY <2>1, <3>1 DEF DefenceInv, Own, TracesKeep, Responding, Contained, Evidence, requestVars
    <3> QED
      BY <3>2, <3>3 DEF Own
  <2>5. SharedGrows /\ ContainedStays(r)
    BY <2>1 DEF SharedGrows, ContainedStays, Contained, fleetVars, listVars, requestVars
  <2> QED
    BY <2>1, <2>2, <2>3, <2>4, <2>5, RequestStep DEF fleetVars, listVars
<1> QED
  BY <1>1, <1>2, <1>3

(* Operators: a reset undoes the lists with the level, a restore the          *)
(* quarantine; both are remembered against whatever a response has set.       *)
LEMMA OperatorKeeps ==
  ASSUME DefenceInv, Operate \/ Tick \/ UNCHANGED vars
  PROVE  DefenceInv'
<1>1. UNCHANGED <<incidents, requestVars, dossiers>>
  BY DEF Operate, Reset, Restore, Quarantine, Tarpit, Register, OperatorAct, Tick, vars
<1>2. CASE Reset
  <2>1. /\ currentDefcon' = Normal /\ tarpittedIps' = {} /\ blacklistedIps' = {}
        /\ resets' = resets + 1 /\ UNCHANGED <<fleetVars, federatedBlocklist, restores>>
    BY <1>2 DEF Reset, ResetDefcon
  <2>2. DefenceTypes'
    BY <1>1, <2>1 DEF DefenceInv, DefenceTypes, fleetVars, requestVars
  <2>3. \A q \in Requests : ListsKeep(q)'
    BY <1>1, <2>1 DEF DefenceInv, DefenceTypes, ListsKeep, requestVars
  <2>4. \A q \in Requests : PlaceTells(q)' /\ AirgapKeeps(q)' /\ TracesKeep(q)'
    BY <1>1, <2>1 DEF DefenceInv, Own, PlaceTells, AirgapKeeps, TracesKeep, Responding, Contained,
                      Evidence, fleetVars, requestVars
  <2>5. BlacklistedUnderNormal' /\ AirgapMeansCutOff'
    BY <2>1 DEF DefenceInv, BlacklistedUnderNormal, AirgapMeansCutOff, fleetVars
  <2> QED
    BY <2>2, <2>3, <2>4, <2>5 DEF DefenceInv, Own
<1>3. ASSUME NEW e \in Entities, Restore(e) PROVE DefenceInv'
  <2>1. /\ status' = [status EXCEPT ![e] = "ONLINE"] /\ restores' = restores + 1
        /\ UNCHANGED <<isolationLevel, federatedBlocklist, listVars, resets>>
    BY <1>3 DEF Restore, RestoreEntity
  <2>2. DefenceTypes'
    BY <1>1, <2>1 DEF DefenceInv, DefenceTypes, listVars, requestVars
  <2>3. \A q \in Requests : AirgapKeeps(q)'
    BY <1>1, <2>1 DEF DefenceInv, DefenceTypes, Own, AirgapKeeps, Responding, Contained,
                      requestVars
  <2>4. \A q \in Requests : PlaceTells(q)' /\ ListsKeep(q)' /\ TracesKeep(q)'
    BY <1>1, <2>1 DEF DefenceInv, Own, PlaceTells, ListsKeep, TracesKeep, Responding, Contained,
                      Evidence, listVars, requestVars
  <2>5. BlacklistedUnderNormal' /\ AirgapMeansCutOff'
    BY <1>1, <2>1 DEF DefenceInv, DefenceTypes, BlacklistedUnderNormal, AirgapMeansCutOff,
                      Contained, listVars, requestVars
  <2> QED
    BY <2>2, <2>3, <2>4, <2>5 DEF DefenceInv, Own
<1>4. CASE \/ \E e \in Entities : Quarantine(e)
           \/ \E ip \in IPs : Tarpit(ip)
           \/ \E id \in Apps : Register(id)
           \/ Tick \/ UNCHANGED vars
  <2>1. /\ UNCHANGED <<isolationLevel, currentDefcon, blacklistedIps, resets, restores>>
        /\ tarpittedIps \subseteq tarpittedIps' /\ federatedBlocklist \subseteq federatedBlocklist'
        /\ status' = status \/ \E e \in Entities : status' = [status EXCEPT ![e] = "QUARANTINED"]
    <3>1. ASSUME NEW e \in Entities, Quarantine(e)
          PROVE  /\ UNCHANGED <<isolationLevel, listVars, resets, restores>>
                 /\ federatedBlocklist \subseteq federatedBlocklist'
                 /\ status' = [status EXCEPT ![e] = "QUARANTINED"]
      BY <3>1 DEF Quarantine, QuarantineEntity, ShareThreatSignature
    <3>2. ASSUME NEW ip \in IPs, Tarpit(ip)
          PROVE  /\ UNCHANGED <<fleetVars, federatedBlocklist, currentDefcon, blacklistedIps, resets,
                                restores>>
                 /\ tarpittedIps \subseteq tarpittedIps'
      BY <3>2 DEF Tarpit, EngageTarpit
    <3>3. CASE Tick \/ (\E id \in Apps : Register(id)) \/ UNCHANGED vars
      BY <3>3 DEF Tick, Register, vars, fleetVars, listVars, operatorVars
    <3> QED
      BY <1>4, <3>1, <3>2, <3>3 DEF fleetVars, listVars
  <2>2. DefenceTypes'
    BY <1>1, <2>1 DEF DefenceInv, DefenceTypes, requestVars
  <2>3. \A e \in Entities : status[e] = "QUARANTINED" => status'[e] = "QUARANTINED"
    BY <2>1 DEF DefenceInv, DefenceTypes
  <2>4. \A q \in Requests : PlaceTells(q)' /\ ListsKeep(q)'
    BY <1>1, <2>1 DEF DefenceInv, Own, PlaceTells, ListsKeep, Responding, Contained, Evidence,
                      requestVars
  <2>5. \A q \in Requests : AirgapKeeps(q)' /\ TracesKeep(q)'
    BY <1>1, <2>1, <2>3 DEF DefenceInv, Own, AirgapKeeps, TracesKeep, Responding, Contained,
                            Evidence, requestVars
  <2>6. BlacklistedUnderNormal' /\ AirgapMeansCutOff'
    BY <1>1, <2>1, <2>3 DEF DefenceInv, BlacklistedUnderNormal, AirgapMeansCutOff, Contained,
                            requestVars
  <2> QED
    BY <2>2, <2>4, <2>5, <2>6 DEF DefenceInv, Own
<1> QED
  BY <1>2, <1>3, <1>4 DEF Operate

LEMMA DefenceStep ==
  ASSUME DefenceInv, [Next]_vars
  PROVE  DefenceInv'
<1>1. ASSUME NEW r \in Requests, Handle(r) PROVE DefenceInv'
  BY <1>1, ArrivalKeeps, IsolateKeeps, ContainKeeps, LateKeeps DEF Handle
<1> QED
  BY <1>1, OperatorKeeps DEF Next

LEMMA DefenceStart == Init => DefenceInv
<1> SUFFICES ASSUME Init PROVE DefenceInv
  OBVIOUS
<1>1. DefenceTypes
  BY DEF Init, FleetInit, ListsInit, DefenceTypes, Places, Outcomes
<1>2. ASSUME NEW q \in Requests PROVE Own(q)
  BY DEF Init, ListsInit, Own, PlaceTells, ListsKeep, AirgapKeeps, TracesKeep, Responding,
         Contained, Evidence, None
<1>3. BlacklistedUnderNormal /\ AirgapMeansCutOff
  BY DEF Init, FleetInit, ListsInit, BlacklistedUnderNormal, AirgapMeansCutOff, Initial
<1> QED
  BY <1>1, <1>2, <1>3 DEF DefenceInv

(* The level and the lists tell one story, however many responses, resets and *)
(* drills overlap.                                                            *)
THEOREM LevelAndListsAlwaysAgree == Spec => []LevelAndListsAgree
<1>1. DefenceInv => LevelAndListsAgree
  BY DEF DefenceInv, Own, ListsKeep, BlacklistedUnderNormal, LevelAndListsAgree
<1> QED
  BY <1>1, DefenceStart, DefenceStep, PTL DEF Spec

(* What a response has isolated stays so until somebody restores it.          *)
THEOREM AirgapLasts == Spec => []AirgapUntilRestored
<1>1. DefenceInv => AirgapUntilRestored
  BY DEF DefenceInv, DefenceTypes, Own, AirgapKeeps, AirgapMeansCutOff, AirgapUntilRestored
<1> QED
  BY <1>1, DefenceStart, DefenceStep, PTL DEF Spec

(* Whatever fails, an intercepted request leaves its origin with the peers    *)
(* and a dossier, and no incident says CONTAINED that is not.                 *)
THEOREM TracesAreLeft == Spec => []InterceptLeavesTraces
<1>1. DefenceInv => InterceptLeavesTraces
  <2> SUFFICES ASSUME DefenceInv, NEW r \in Requests
               PROVE  /\ outcome[r] = "intercepted" =>
                           req[r].ip \in federatedBlocklist /\ dossiers[r] # "none"
                      /\ Evidence(r) /\ req[r].route # "decoy" => Contained(r)
    BY DEF InterceptLeavesTraces
  <2> QED
    BY DEF DefenceInv, Own, TracesKeep
<1> QED
  BY <1>1, DefenceStart, DefenceStep, PTL DEF Spec
-------------------------------------------------------------------------------
(* The rate limit: what passed in the last window is still in its bucket      *)

\* The requests of an address that passed the limit of an application in the
\* window that ends at t.
Passing(a, ip, t) ==
  {q \in Requests :
    /\ req[q].route = "gateway" /\ passedAt[q] # Never
    /\ req[q].app = a /\ req[q].ip = ip
    /\ passedAt[q] \in (t - WINDOW + 1)..t}

Buckets ==
  /\ rateLimitBuckets \in [Apps \X IPs -> SUBSET [by : Requests, at : Int]]
  /\ \A key \in Apps \X IPs : IsFiniteSet(rateLimitBuckets[key])

\* A pass is on record for as long as it is in the window.
PassesRecorded ==
  \A q \in Requests :
    /\ passedAt[q] <= clock
    /\ passedAt[q] # Never /\ req[q].route = "gateway" /\ passedAt[q] > clock - WINDOW =>
         [by |-> q, at |-> passedAt[q]] \in rateLimitBuckets[<<req[q].app, req[q].ip>>]

WindowsBounded ==
  \A a \in Apps, ip \in IPs, t \in Nat :
    /\ IsFiniteSet(Passing(a, ip, t))
    /\ Passing(a, ip, t) # {} =>
         \E q \in Passing(a, ip, t) : Cardinality(Passing(a, ip, t)) <= req[q].limit

RateInv == Buckets /\ PassesRecorded /\ WindowsBounded

\* Who waits in the tarpit has not passed yet.
HeldNotPassed == \A q \in Requests : pc[q] = "held" => passedAt[q] = Never

(* Requests whose entries are all in a finite set are no more than its        *)
(* elements: an entry names its request.                                      *)
LEMMA EntriesCount ==
  ASSUME NEW S, NEW T, IsFiniteSet(T), NEW p,
         \A q \in S : [by |-> q, at |-> p[q]] \in T
  PROVE  IsFiniteSet(S) /\ Cardinality(S) <= Cardinality(T)
<1> DEFINE f == [q \in S |-> [by |-> q, at |-> p[q]]]
<1>1. f \in [S -> T]
  OBVIOUS
<1>2. ASSUME NEW q \in S, NEW s \in S, f[q] = f[s] PROVE q = s
  <2>1. f[q].by = q /\ f[s].by = s
    OBVIOUS
  <2> QED
    BY <1>2, <2>1
<1>3. f \in Injection(S, T)
  BY <1>1, <1>2 DEF Injection, IsInjective
<1> QED
  BY <1>3, FS_Injection

LEMMA LimitsInNat == Limits \subseteq Nat
BY LimitAssumption DEF Limits

LEMMA GatewayKind ==
  ASSUME RequestFunctions, NEW q \in Requests, req[q].route = "gateway"
  PROVE  req[q].app \in Apps /\ req[q].ip \in IPs /\ req[q].limit \in Nat
<1>1. req[q] \in [route : {"gateway"}, ip : IPs, app : Apps, body : Payloads, limit : Limits]
  BY DEF RequestFunctions, RequestKinds, None
<1> QED
  BY <1>1, LimitsInNat

(* A step that lets no request pass: time goes on, or nothing is recorded.    *)
LEMMA NonePasses ==
  ASSUME OriginInv, RateInv, RequestFunctions', clock' \in Nat, clock <= clock',
         UNCHANGED <<rateLimitBuckets, passedAt>>,
         \A q \in Requests : passedAt[q] = Never \/ req'[q] = req[q]
  PROVE  RateInv'
<1>1. Buckets'
  BY DEF RateInv, Buckets
<1>2. PassesRecorded'
  <2> SUFFICES ASSUME NEW q \in Requests
               PROVE  /\ passedAt[q] <= clock'
                      /\ passedAt[q] # Never /\ req'[q].route = "gateway"
                           /\ passedAt[q] > clock' - WINDOW =>
                           [by |-> q, at |-> passedAt[q]]
                             \in rateLimitBuckets[<<req'[q].app, req'[q].ip>>]
    BY DEF PassesRecorded, Never
  <2>1. passedAt[q] \in Int /\ clock \in Nat /\ WINDOW \in Nat /\ clock' \in Nat
    BY LimitAssumption DEF OriginInv, RequestFunctions
  <2>2. passedAt[q] <= clock' /\ (passedAt[q] > clock' - WINDOW => passedAt[q] > clock - WINDOW)
    <3>1. passedAt[q] <= clock
      BY DEF RateInv, PassesRecorded
    <3> QED
      BY <2>1, <3>1
  <2>3. passedAt[q] = Never \/ req'[q] = req[q]
    OBVIOUS
  <2> QED
    BY <2>2, <2>3 DEF RateInv, PassesRecorded
<1>3. WindowsBounded'
  <2> SUFFICES ASSUME NEW a \in Apps, NEW ip \in IPs, NEW t \in Nat
               PROVE  /\ Passing(a, ip, t)' = Passing(a, ip, t)
                      /\ \A q \in Passing(a, ip, t) : req'[q] = req[q]
    BY DEF RateInv, WindowsBounded
  <2> QED
    BY DEF Passing, Never
<1> QED
  BY <1>1, <1>2, <1>3 DEF RateInv

(* A request is recorded, and lets itself pass only if the record allows it.  *)
LEMMA ArrivalRecorded ==
  ASSUME OriginInv, RateInv, RequestFunctions', NEW r \in Requests,
         NEW app \in Apps, NEW ip \in IPs, NEW limit \in Nat,
         UNCHANGED clock, passedAt[r] = Never,
         req'[r].app = app, req'[r].ip = ip, req'[r].limit = limit,
         \A q \in Requests : passedAt[q] = Never \/ req'[q] = req[q],
         rateLimitBuckets' = [rateLimitBuckets EXCEPT ![<<app, ip>>] = ArrivalsOf(r, app, ip)],
         \/ passedAt' = passedAt
         \/ /\ passedAt' = [passedAt EXCEPT ![r] = clock]
            /\ Cardinality(ArrivalsOf(r, app, ip)) <= limit
  PROVE  RateInv'
<1> DEFINE before == rateLimitBuckets[<<app, ip>>]
           now == ArrivalsOf(r, app, ip)
<1>1. /\ <<app, ip>> \in Apps \X IPs
      /\ before \in SUBSET [by : Requests, at : Int] /\ IsFiniteSet(before)
      /\ clock \in Nat /\ WINDOW \in Nat
      /\ passedAt \in [Requests -> Int] /\ passedAt' \in [Requests -> Int]
  BY LimitAssumption DEF RateInv, Buckets, OriginInv, RequestFunctions
<1>2. /\ now \in SUBSET [by : Requests, at : Int]
      /\ now = {a \in before : a.at > clock - WINDOW} \cup {[by |-> r, at |-> clock]}
  <2>1. now = {a \in before : a.at > clock - WINDOW} \cup {[by |-> r, at |-> clock]}
    BY DEF ArrivalsOf, Recent
  <2>2. [by |-> r, at |-> clock] \in [by : Requests, at : Int]
    BY <1>1
  <2> QED
    BY <1>1, <2>1, <2>2
<1>3. IsFiniteSet(now)
  <2>1. {a \in before : a.at > clock - WINDOW} \in SUBSET before
    OBVIOUS
  <2>2. IsFiniteSet({a \in before : a.at > clock - WINDOW})
    BY <1>1, <2>1, FS_Subset
  <2>3. IsFiniteSet({a \in before : a.at > clock - WINDOW} \cup {[by |-> r, at |-> clock]})
    BY <2>2, FS_AddElement
  <2> QED
    BY <1>2, <2>3
<1>4. /\ rateLimitBuckets'[<<app, ip>>] = now
      /\ \A key \in Apps \X IPs : key # <<app, ip>> =>
           rateLimitBuckets'[key] = rateLimitBuckets[key]
      /\ rateLimitBuckets' \in [Apps \X IPs -> SUBSET [by : Requests, at : Int]]
  <2> HIDE DEF now, before
  <2>1. rateLimitBuckets \in [Apps \X IPs -> SUBSET [by : Requests, at : Int]]
    BY DEF RateInv, Buckets
  <2>2. rateLimitBuckets' = [rateLimitBuckets EXCEPT ![<<app, ip>>] = now]
    BY DEF now
  <2> QED
    BY <1>1, <1>2, <2>1, <2>2
<1> HIDE DEF now, before
<1>5. Buckets'
  BY <1>3, <1>4 DEF RateInv, Buckets
<1>6. ASSUME NEW q \in Requests, passedAt'[q] # Never
      PROVE  \/ q = r /\ passedAt'[q] = clock
             \/ passedAt'[q] = passedAt[q] /\ req'[q] = req[q]
  BY <1>1, <1>6
<1>7. ASSUME NEW q \in Requests, passedAt'[q] # Never, req'[q].route = "gateway",
             passedAt'[q] > clock - WINDOW
      PROVE  [by |-> q, at |-> passedAt'[q]] \in rateLimitBuckets'[<<req'[q].app, req'[q].ip>>]
  <2>1. CASE q = r /\ passedAt'[q] = clock
    BY <1>2, <1>4, <2>1
  <2>2. CASE passedAt'[q] = passedAt[q] /\ req'[q] = req[q]
    <3>1. [by |-> q, at |-> passedAt[q]] \in rateLimitBuckets[<<req[q].app, req[q].ip>>]
      BY <1>7, <2>2 DEF RateInv, PassesRecorded
    <3>2. <<req[q].app, req[q].ip>> \in Apps \X IPs
      BY <1>7, <2>2, GatewayKind DEF OriginInv
    <3>3. CASE <<req[q].app, req[q].ip>> # <<app, ip>>
      BY <1>4, <2>2, <3>1, <3>2, <3>3
    <3>4. CASE <<req[q].app, req[q].ip>> = <<app, ip>>
      <4>1. [by |-> q, at |-> passedAt[q]] \in before /\ passedAt[q] > clock - WINDOW
        BY <1>7, <2>2, <3>1, <3>4 DEF before
      <4>2. [by |-> q, at |-> passedAt[q]] \in now
        BY <1>2, <4>1
      <4> QED
        BY <1>4, <2>2, <3>4, <4>2
    <3> QED
      BY <3>3, <3>4
  <2> QED
    BY <1>6, <1>7, <2>1, <2>2
<1>8. PassesRecorded'
  <2>1. ASSUME NEW q \in Requests PROVE passedAt'[q] <= clock
    <3>1. passedAt[q] <= clock
      BY DEF RateInv, PassesRecorded
    <3> QED
      BY <1>1, <3>1
  <2> QED
    BY <1>7, <2>1 DEF PassesRecorded, Never
<1>9. ASSUME NEW a \in Apps, NEW x \in IPs, NEW t \in Nat
      PROVE  /\ IsFiniteSet(Passing(a, x, t)')
             /\ Passing(a, x, t)' # {} =>
                  \E q \in Passing(a, x, t)' : Cardinality(Passing(a, x, t)') <= req'[q].limit
  <2> DEFINE S == Passing(a, x, t)
  <2>1. IsFiniteSet(S) /\ (S # {} => \E q \in S : Cardinality(S) <= req[q].limit)
    BY DEF RateInv, WindowsBounded
  <2>2. CASE r \notin S' \/ passedAt' = passedAt
    <3>1. ASSUME NEW q \in Requests
          PROVE  /\ q \in S' <=> q \in S
                 /\ q \in S => req'[q] = req[q]
      <4>1. CASE passedAt'[q] = passedAt[q]
        BY <4>1 DEF Passing, Never
      <4>2. CASE passedAt'[q] # passedAt[q]
        <5>1. q = r /\ passedAt' # passedAt
          BY <1>1, <4>2
        <5> QED
          BY <2>2, <5>1 DEF Passing
      <4> QED
        BY <4>1, <4>2
    <3>2. S' = S /\ \A q \in S : req'[q] = req[q]
      <4>1. S \subseteq Requests /\ S' \subseteq Requests
        BY DEF Passing
      <4> QED
        BY <3>1, <4>1
    <3> QED
      BY <2>1, <3>2
  <2>3. CASE r \in S' /\ passedAt' # passedAt
    <3>1. a = app /\ x = ip /\ clock <= t /\ passedAt'[r] = clock
      BY <1>1, <2>3 DEF Passing
    <3>2. ASSUME NEW q \in S' PROVE [by |-> q, at |-> passedAt'[q]] \in now
      <4>1. /\ q \in Requests /\ passedAt'[q] # Never /\ req'[q].route = "gateway"
            /\ req'[q].app = app /\ req'[q].ip = ip
            /\ passedAt'[q] \in (t - WINDOW + 1)..t
        BY <3>1, <3>2 DEF Passing, Never
      <4>2. passedAt'[q] > clock - WINDOW
        BY <1>1, <3>1, <4>1
      <4> QED
        BY <1>4, <1>7, <4>1, <4>2
    <3>3. IsFiniteSet(S') /\ Cardinality(S') <= Cardinality(now)
      <4> HIDE DEF S
      <4> QED
        BY <1>3, <3>2, EntriesCount
    <3>4. Cardinality(now) <= limit /\ Cardinality(now) \in Nat /\ Cardinality(S') \in Nat
      BY <1>3, <2>3, <3>3, FS_CardinalityType DEF now
    <3>5. Cardinality(S') <= req'[r].limit
      BY <3>3, <3>4
    <3> QED
      BY <2>3, <3>3, <3>5
  <2> QED
    BY <2>2, <2>3
<1> QED
  BY <1>5, <1>8, <1>9 DEF RateInv, WindowsBounded

\* What a step of the rate limit's record may be.
Arrival(r, app, ip, limit) ==
  /\ rateLimitBuckets' = [rateLimitBuckets EXCEPT ![<<app, ip>>] = ArrivalsOf(r, app, ip)]
  /\ \/ passedAt' = passedAt
     \/ /\ passedAt' = [passedAt EXCEPT ![r] = clock]
        /\ Cardinality(ArrivalsOf(r, app, ip)) <= limit

LEMMA ScreenRecords ==
  ASSUME NEW r \in Requests, NEW app, NEW ip, NEW body, NEW limit,
         Screen(r, app, ip, body, limit)
  PROVE  UNCHANGED <<rateLimitBuckets, passedAt>> \/ Arrival(r, app, ip, limit)
<1> HIDE DEF ArrivalsOf, IsThreatBlocked, End, Inspect
<1> QED
  BY DEF Screen, Arrival

(* Only Proxy puts a request into the tarpit, and only LeaveTarpit takes one  *)
(* out of it and may let it pass.                                             *)
LEMMA HeldStep ==
  ASSUME OriginInv, HeldNotPassed, [Next]_vars
  PROVE  HeldNotPassed'
<1>1. CASE UNCHANGED <<pc, passedAt>>
  BY <1>1 DEF HeldNotPassed, Never
<1>2. ASSUME NEW r \in Requests, pc'[r] # "held" \/ passedAt'[r] = Never,
             \A q \in Requests \ {r} : pc'[q] = pc[q] /\ passedAt'[q] = passedAt[q]
      PROVE  HeldNotPassed'
  BY <1>2 DEF HeldNotPassed, Never
<1>3. ASSUME NEW r \in Requests, NEW app, NEW ip, NEW body, NEW limit,
             Screen(r, app, ip, body, limit)
      PROVE  HeldNotPassed'
  <2>1. \E there \in Places \ {"held"} : pc' = [pc EXCEPT ![r] = there]
    BY <1>3, Zenon
       DEF Screen, Inspect, Intercept, BeginResponse, AfterResponse, Goto, End, Places
  <2>2. passedAt' = passedAt \/ passedAt' = [passedAt EXCEPT ![r] = clock]
    BY <1>3, ScreenRecords DEF Arrival
  <2>3. /\ pc'[r] # "held"
        /\ \A q \in Requests \ {r} : pc'[q] = pc[q] /\ passedAt'[q] = passedAt[q]
    BY <2>1, <2>2 DEF OriginInv, RequestFunctions
  <2> QED
    BY <1>2, <2>3
<1>4. ASSUME NEW r \in Requests, Handle(r) PROVE HeldNotPassed'
  <2>1. CASE LeaveTarpit(r)
    BY <1>3, <2>1 DEF LeaveTarpit
  <2>2. CASE Proxy(r)
    <3>1. \/ \E app, ip, body, limit : Screen(r, app, ip, body, limit)
          \/ /\ pc[r] = "idle" /\ passedAt' = passedAt
             /\ \E there : pc' = [pc EXCEPT ![r] = there]
      BY <2>2 DEF Proxy, Goto, End
    <3>2. CASE \E app, ip, body, limit : Screen(r, app, ip, body, limit)
      BY <1>3, <3>2
    <3>3. CASE /\ pc[r] = "idle" /\ passedAt' = passedAt
               /\ \E there : pc' = [pc EXCEPT ![r] = there]
      <4>1. passedAt'[r] = Never /\ \A q \in Requests \ {r} : pc'[q] = pc[q]
        BY <3>3 DEF OriginInv, IdleNotPassed, RequestFunctions
      <4> QED
        BY <1>2, <3>3, <4>1
    <3> QED
      BY <3>1, <3>2, <3>3
  <2>3. CASE ~LeaveTarpit(r) /\ ~Proxy(r)
    <3>1. passedAt' = passedAt /\ (pc' = pc \/ \E there \in Places \ {"held"} : pc' = [pc EXCEPT ![r] = there])
      BY <1>4, <2>3, Zenon
         DEF Handle, Drill, Decoy, BeginResponse, AfterResponse, Isolate, Contain, FreezeEvidence,
             HitIncident, Capture, BeaconPing, Goto, End, requestVars, Places
    <3>2. CASE pc' = pc
      BY <1>1, <3>1, <3>2
    <3>3. CASE \E there \in Places \ {"held"} : pc' = [pc EXCEPT ![r] = there]
      <4>1. pc'[r] # "held" /\ \A q \in Requests \ {r} : pc'[q] = pc[q]
        BY <3>3 DEF OriginInv, RequestFunctions
      <4> QED
        BY <1>2, <3>1, <4>1
    <3> QED
      BY <3>1, <3>2, <3>3
  <2> QED
    BY <2>1, <2>2, <2>3
<1>5. CASE Operate \/ Tick \/ UNCHANGED vars
  <2>1. UNCHANGED <<pc, passedAt>>
    BY <1>5 DEF Operate, Reset, Restore, Quarantine, Tarpit, Register, OperatorAct, Tick, vars,
                requestVars
  <2> QED
    BY <1>1, <2>1
<1> QED
  BY <1>4, <1>5 DEF Next

LEMMA HeldStart == Init => HeldNotPassed
BY DEF Init, HeldNotPassed

(* Only Proxy and LeaveTarpit touch the record or let a request pass.         *)
LEMMA RateStep ==
  ASSUME OriginInv, DefenceInv, HeldNotPassed, RateInv, [Next]_vars
  PROVE  RateInv'
<1>1. OriginInv' /\ RequestFunctions'
  BY NextStep DEF OriginInv
<1>2. CASE /\ UNCHANGED <<rateLimitBuckets, passedAt>>
           /\ clock <= clock'
           /\ \A q \in Requests : passedAt[q] = Never \/ req'[q] = req[q]
  BY <1>1, <1>2, NonePasses DEF OriginInv
<1>3. ASSUME NEW r \in Requests, Proxy(r) PROVE RateInv'
  <2>1. PICK k \in RequestKinds :
          /\ k.route = "gateway" /\ pc[r] = "idle" /\ UNCHANGED clock
          /\ req' = [req EXCEPT ![r] = k]
          /\ \/ UNCHANGED <<rateLimitBuckets, passedAt>>
             \/ Screen(r, k.app, k.ip, k.body, k.limit)
    BY <1>3 DEF Proxy
  <2>2. /\ k.app \in Apps /\ k.ip \in IPs /\ k.limit \in Nat
        /\ req'[r] = k /\ passedAt[r] = Never
        /\ \A q \in Requests : passedAt[q] = Never \/ req'[q] = req[q]
    BY <2>1, LimitsInNat DEF OriginInv, RequestFunctions, IdleNotPassed, RequestKinds
  <2>3. UNCHANGED <<rateLimitBuckets, passedAt>> \/ Arrival(r, k.app, k.ip, k.limit)
    BY <2>1, ScreenRecords
  <2>4. CASE UNCHANGED <<rateLimitBuckets, passedAt>>
    BY <1>2, <2>1, <2>2, <2>4 DEF OriginInv
  <2>5. CASE Arrival(r, k.app, k.ip, k.limit)
    BY <1>1, <2>1, <2>2, <2>5, ArrivalRecorded DEF Arrival
  <2> QED
    BY <2>3, <2>4, <2>5
<1>4. ASSUME NEW r \in Requests, LeaveTarpit(r) PROVE RateInv'
  <2>1. /\ pc[r] = "held" /\ UNCHANGED <<clock, req>>
        /\ Screen(r, req[r].app, req[r].ip, req[r].body, req[r].limit)
    BY <1>4 DEF LeaveTarpit
  <2>2. /\ req[r].app \in Apps /\ req[r].ip \in IPs /\ req[r].limit \in Nat
        /\ passedAt[r] = Never
    <3>1. req[r].route = "gateway"
      BY <2>1 DEF DefenceInv, Own, PlaceTells
    <3> QED
      BY <2>1, <3>1, GatewayKind DEF OriginInv, HeldNotPassed
  <2>3. UNCHANGED <<rateLimitBuckets, passedAt>> \/ Arrival(r, req[r].app, req[r].ip, req[r].limit)
    BY <2>1, ScreenRecords
  <2>4. CASE UNCHANGED <<rateLimitBuckets, passedAt>>
    BY <1>2, <2>1, <2>4 DEF OriginInv
  <2>5. CASE Arrival(r, req[r].app, req[r].ip, req[r].limit)
    BY <1>1, <2>1, <2>2, <2>5, ArrivalRecorded DEF Arrival
  <2> QED
    BY <2>3, <2>4, <2>5
<1>5. ASSUME NEW r \in Requests, Drill(r) \/ Decoy(r) PROVE RateInv'
  <2>1. PICK k \in RequestKinds :
          /\ pc[r] = "idle" /\ UNCHANGED <<clock, rateLimitBuckets, passedAt>>
          /\ req' = [req EXCEPT ![r] = k]
    BY <1>5 DEF Drill, Decoy
  <2>2. \A q \in Requests : passedAt[q] = Never \/ req'[q] = req[q]
    BY <2>1 DEF OriginInv, RequestFunctions, IdleNotPassed
  <2> QED
    BY <1>2, <2>1, <2>2 DEF OriginInv
<1>6. ASSUME NEW r \in Requests,
             Isolate(r) \/ Contain(r) \/ FreezeEvidence(r) \/ HitIncident(r) \/ Capture(r)
               \/ BeaconPing(r)
      PROVE  RateInv'
  <2>1. UNCHANGED <<clock, rateLimitBuckets, passedAt, req>>
    BY <1>6 DEF Isolate, Contain, FreezeEvidence, HitIncident, Capture, BeaconPing, requestVars
  <2> QED
    BY <1>2, <2>1 DEF OriginInv
<1>7. CASE Operate \/ Tick \/ UNCHANGED vars
  <2>1. UNCHANGED <<rateLimitBuckets, passedAt, req>> /\ (clock' = clock \/ clock' = clock + 1)
    BY <1>7 DEF Operate, Reset, Restore, Quarantine, Tarpit, Register, OperatorAct, Tick, vars,
              requestVars
  <2>2. clock <= clock'
    BY <2>1 DEF OriginInv
  <2> QED
    BY <1>2, <2>1, <2>2
<1>8. CASE \E r \in Requests : Handle(r)
  BY <1>3, <1>4, <1>5, <1>6, <1>8 DEF Handle
<1> QED
  BY <1>7, <1>8 DEF Next

LEMMA RateStart == Init => RateInv
<1> SUFFICES ASSUME Init PROVE RateInv
  OBVIOUS
<1>1. \A q \in Requests : passedAt[q] = Never
  BY DEF Init
<1>2. Buckets
  <2>1. rateLimitBuckets = [key \in Apps \X IPs |-> {}]
    BY DEF Init
  <2>2. \A key \in Apps \X IPs : rateLimitBuckets[key] = {}
    BY <2>1
  <2>3. rateLimitBuckets \in [Apps \X IPs -> SUBSET [by : Requests, at : Int]]
    BY <2>1
  <2> QED
    BY <2>2, <2>3, FS_EmptySet DEF Buckets
<1>3. PassesRecorded
  BY <1>1 DEF Init, PassesRecorded, Never
<1>4. WindowsBounded
  <2> SUFFICES ASSUME NEW a \in Apps, NEW ip \in IPs, NEW t \in Nat
               PROVE  Passing(a, ip, t) = {}
    BY FS_EmptySet DEF WindowsBounded
  <2> QED
    BY <1>1 DEF Passing
<1> QED
  BY <1>2, <1>3, <1>4 DEF RateInv

(* In no window do more requests of an address pass the limit of an           *)
(* application than one of them was allowed: whoever passed in the window of  *)
(* a newcomer is still in the bucket it is counted in, by the limit it has    *)
(* kept through the tarpit.                                                   *)
THEOREM RatesBounded == Spec => []RateBounded
<1>1. OriginInv /\ RateInv => RateBounded
  <2> SUFFICES ASSUME OriginInv, RateInv, NEW a \in Apps, NEW ip \in IPs, NEW t \in 0..clock
               PROVE  Passing(a, ip, t) # {} =>
                        \E q \in Passing(a, ip, t) :
                          Cardinality(Passing(a, ip, t)) <= req[q].limit
    BY Zenon DEF RateBounded, Passing
  <2> QED
    BY DEF OriginInv, RateInv, WindowsBounded
<1>2. OriginInv /\ [Next]_vars => OriginInv'
  BY NextStep
<1> QED
  BY <1>1, <1>2, OriginStart, DefenceStart, DefenceStep, HeldStart, HeldStep, RateStart, RateStep,
     PTL DEF Spec
-------------------------------------------------------------------------------
(* Types, and the bounds of the counters                                      *)

AppsOK == DOMAIN apps \subseteq Apps /\ apps \in [DOMAIN apps -> Limits]

IndicatorsOK ==
  /\ postureScore \in [Entities -> 10..96]
  /\ federatedBlocklist \subseteq IPs \cup Entities

ListsOK ==
  /\ blacklistedIps \subseteq IPs /\ tarpittedIps \subseteq IPs
  /\ incidents \subseteq [by : Requests, defcon : {Normal, Lockdown, "none"}]

TimesOK ==
  /\ clock \in 0..MaxClock
  /\ rateLimitBuckets \in [Apps \X IPs -> SUBSET [by : Requests, at : 0..clock]]
  /\ passedAt \in [Requests -> {Never} \cup 0..clock]

ActsOK ==
  /\ operatorActs \in 0..MaxOperatorActs
  /\ resets \in 0..operatorActs /\ restores \in 0..operatorActs

\* A request that has begun asks for something.
BegunAsks == \A q \in Requests : pc[q] # "idle" => req[q] \in RequestKinds

MoreTypes == IndicatorsOK /\ ListsOK /\ TimesOK /\ ActsOK /\ BegunAsks

LEMMA QuarantineTypes ==
  ASSUME IndicatorsOK, NEW e \in Entities, QuarantineEntity(e)
  PROVE  postureScore' \in [Entities -> 10..96]
<1>1. /\ postureScore \in [Entities -> 10..96]
      /\ postureScore' = [postureScore EXCEPT ![e] =
           IF postureScore[e] - 40 > 10 THEN postureScore[e] - 40 ELSE 10]
  BY DEF IndicatorsOK, QuarantineEntity
<1>2. (IF postureScore[e] - 40 > 10 THEN postureScore[e] - 40 ELSE 10) \in 10..96
  BY <1>1
<1> QED
  BY <1>1, <1>2

LEMMA ResponseTypes ==
  ASSUME IndicatorsOK, NEW r \in Requests, NEW route, NEW id, NEW shared \in SUBSET IPs,
         BeginResponse(r, route, id, shared)
  PROVE  IndicatorsOK' /\ UNCHANGED <<blacklistedIps, tarpittedIps>>
<1>1. UNCHANGED <<blacklistedIps, tarpittedIps>>
  BY DEF BeginResponse
<1>2. CASE id \in Entities
  <2>1. QuarantineEntity(id) /\ federatedBlocklist' = federatedBlocklist \cup (shared \cup {id})
    BY <1>2 DEF BeginResponse, ShareThreatSignature
  <2> QED
    BY <1>1, <1>2, <2>1, QuarantineTypes DEF IndicatorsOK
<1>3. CASE id \notin Entities
  <2>1. postureScore' = postureScore /\ federatedBlocklist' = federatedBlocklist \cup shared
    BY <1>3 DEF BeginResponse, ShareThreatSignature
  <2> QED
    BY <1>1, <2>1 DEF IndicatorsOK
<1> QED
  BY <1>1, <1>2, <1>3

LEMMA ScreenTypes ==
  ASSUME IndicatorsOK, NEW r \in Requests, NEW app, NEW ip \in IPs, NEW body,
         NEW limit, Screen(r, app, ip, body, limit)
  PROVE  IndicatorsOK' /\ UNCHANGED <<blacklistedIps, tarpittedIps>>
<1>1. CASE UNCHANGED <<fleetVars, federatedBlocklist, listVars>>
  BY <1>1 DEF IndicatorsOK, fleetVars, listVars
<1>2. CASE Inspect(r, body, app, ip)
  <2>1. CASE UNCHANGED <<fleetVars, listVars>> /\ ShareThreatSignature({ip})
    <3>1. /\ UNCHANGED <<postureScore, blacklistedIps, tarpittedIps>>
          /\ federatedBlocklist' = federatedBlocklist \cup {ip}
      BY <2>1 DEF fleetVars, listVars, ShareThreatSignature
    <3> QED
      BY <3>1 DEF IndicatorsOK
  <2>2. CASE Intercept(r, app, ip)
    <3>1. BeginResponse(r, "gateway", app, {ip}) /\ {ip} \in SUBSET IPs
      BY <2>2 DEF Intercept
    <3> QED
      BY <3>1, ResponseTypes
  <2>3. \/ UNCHANGED <<fleetVars, federatedBlocklist, listVars>>
        \/ UNCHANGED <<fleetVars, listVars>> /\ ShareThreatSignature({ip})
        \/ Intercept(r, app, ip)
    BY <1>2 DEF Inspect
  <2> QED
    BY <1>1, <2>1, <2>2, <2>3
<1> QED
  BY <1>1, <1>2 DEF Screen

LEMMA TimesKept ==
  ASSUME TimesOK, UNCHANGED clock,
         \/ UNCHANGED <<rateLimitBuckets, passedAt>>
         \/ \E r \in Requests, app \in Apps, ip \in IPs, limit \in Nat : Arrival(r, app, ip, limit)
  PROVE  TimesOK'
<1>1. CASE UNCHANGED <<rateLimitBuckets, passedAt>>
  BY <1>1 DEF TimesOK
<1>2. ASSUME NEW r \in Requests, NEW app \in Apps, NEW ip \in IPs, NEW limit \in Nat,
             Arrival(r, app, ip, limit)
      PROVE  TimesOK'
  <2> DEFINE before == rateLimitBuckets[<<app, ip>>]
             now == ArrivalsOf(r, app, ip)
  <2>1. /\ <<app, ip>> \in Apps \X IPs /\ clock \in 0..clock
        /\ rateLimitBuckets \in [Apps \X IPs -> SUBSET [by : Requests, at : 0..clock]]
        /\ passedAt \in [Requests -> {Never} \cup 0..clock]
    BY LimitAssumption DEF TimesOK
  <2>2. now = {a \in before : a.at > clock - WINDOW} \cup {[by |-> r, at |-> clock]}
    BY DEF ArrivalsOf, Recent
  <2>3. before \in SUBSET [by : Requests, at : 0..clock]
    BY <2>1
  <2>4. [by |-> r, at |-> clock] \in [by : Requests, at : 0..clock]
    BY <2>1
  <2>5. now \in SUBSET [by : Requests, at : 0..clock]
    <3> HIDE DEF now, before
    <3> QED
      BY <2>2, <2>3, <2>4
  <2>6. rateLimitBuckets' = [rateLimitBuckets EXCEPT ![<<app, ip>>] = now]
    BY <1>2 DEF Arrival
  <2> HIDE DEF now, before
  <2>7. rateLimitBuckets' \in [Apps \X IPs -> SUBSET [by : Requests, at : 0..clock]]
    BY <2>1, <2>5, <2>6
  <2>8. passedAt' \in [Requests -> {Never} \cup 0..clock]
    BY <1>2, <2>1 DEF Arrival
  <2> QED
    BY <2>7, <2>8 DEF TimesOK, Never
<1> QED
  BY <1>1, <1>2

LEMMA ArrivalTypes ==
  ASSUME OriginInv, DefenceInv, MoreTypes, NEW r \in Requests,
         Proxy(r) \/ LeaveTarpit(r) \/ Drill(r) \/ Decoy(r)
  PROVE  MoreTypes'
<1>1. /\ UNCHANGED <<incidents, clock, operatorVars>>
      /\ IndicatorsOK' /\ UNCHANGED <<blacklistedIps, tarpittedIps>>
      /\ \/ UNCHANGED <<rateLimitBuckets, passedAt>>
         \/ \E app \in Apps, ip \in IPs, limit \in Nat : Arrival(r, app, ip, limit)
      /\ \/ pc[r] # "idle" /\ req' = req
         \/ \E k \in RequestKinds : req' = [req EXCEPT ![r] = k]
  <2>1. ASSUME NEW k, k \in RequestKinds, k.route = "gateway", Screen(r, k.app, k.ip, k.body, k.limit)
        PROVE  /\ IndicatorsOK' /\ UNCHANGED <<blacklistedIps, tarpittedIps>>
               /\ \/ UNCHANGED <<rateLimitBuckets, passedAt>>
                  \/ \E app \in Apps, ip \in IPs, limit \in Nat : Arrival(r, app, ip, limit)
    <3>1. k.app \in Apps /\ k.ip \in IPs /\ k.limit \in Nat
      BY <2>1, LimitsInNat DEF RequestKinds
    <3> QED
      BY <2>1, <3>1, ScreenTypes, ScreenRecords DEF MoreTypes
  <2>2. CASE Proxy(r)
    <3>1. PICK k \in RequestKinds :
            /\ k.route = "gateway" /\ UNCHANGED <<incidents, clock, operatorVars>>
            /\ req' = [req EXCEPT ![r] = k]
            /\ \/ UNCHANGED <<fleetVars, federatedBlocklist, listVars, rateLimitBuckets, passedAt>>
               \/ Screen(r, k.app, k.ip, k.body, k.limit)
      BY <2>2 DEF Proxy
    <3>2. CASE Screen(r, k.app, k.ip, k.body, k.limit)
      BY <2>1, <3>1, <3>2
    <3>3. CASE UNCHANGED <<fleetVars, federatedBlocklist, listVars, rateLimitBuckets, passedAt>>
      BY <3>1, <3>3 DEF MoreTypes, IndicatorsOK, fleetVars, listVars
    <3> QED
      BY <3>1, <3>2, <3>3
  <2>3. CASE LeaveTarpit(r)
    <3>1. /\ pc[r] = "held" /\ UNCHANGED <<incidents, clock, operatorVars>> /\ req' = req
          /\ Screen(r, req[r].app, req[r].ip, req[r].body, req[r].limit)
      BY <2>3 DEF LeaveTarpit
    <3>2. req[r] \in RequestKinds /\ req[r].route = "gateway"
      BY <3>1 DEF DefenceInv, Own, PlaceTells, MoreTypes, BegunAsks
    <3> QED
      BY <2>1, <3>1, <3>2
  <2>4. CASE Drill(r)
    <3>1. PICK k \in RequestKinds :
            /\ UNCHANGED <<incidents, clock, rateLimitBuckets, passedAt, operatorVars>>
            /\ req' = [req EXCEPT ![r] = k]
            /\ BeginResponse(r, "drill", k.app, {})
      BY <2>4 DEF Drill
    <3>2. {} \in SUBSET IPs
      OBVIOUS
    <3> QED
      BY <3>1, <3>2, ResponseTypes DEF MoreTypes
  <2>5. CASE Decoy(r)
    BY <2>5 DEF Decoy, MoreTypes, IndicatorsOK, fleetVars, listVars
  <2> QED
    BY <2>2, <2>3, <2>4, <2>5
<1>2. ListsOK' /\ ActsOK'
  BY <1>1 DEF MoreTypes, ListsOK, ActsOK, operatorVars
<1>3. TimesOK'
  BY <1>1, TimesKept DEF MoreTypes
<1>4. BegunAsks'
  <2> SUFFICES ASSUME NEW q \in Requests, pc'[q] # "idle" PROVE req'[q] \in RequestKinds
    BY DEF BegunAsks
  <2>1. CASE q = r
    BY <1>1, <2>1 DEF MoreTypes, BegunAsks, OriginInv, RequestFunctions
  <2>2. CASE q # r
    <3>1. pc'[q] = pc[q] /\ req'[q] = req[q]
      <4>1. req'[q] = req[q]
        BY <1>1, <2>2 DEF OriginInv, RequestFunctions
      <4>2. pc'[q] = pc[q]
        BY <2>2, ZenonT(30)
           DEF Proxy, LeaveTarpit, Drill, Decoy, Screen, Inspect, Intercept, BeginResponse,
                    AfterResponse, Goto, End, OriginInv, RequestFunctions
      <4> QED
        BY <4>1, <4>2
    <3> QED
      BY <3>1 DEF MoreTypes, BegunAsks
  <2> QED
    BY <2>1, <2>2
<1> QED
  BY <1>1, <1>2, <1>3, <1>4 DEF MoreTypes

LEMMA LaterTypes ==
  ASSUME OriginInv, DefenceInv, MoreTypes, NEW r \in Requests,
         Isolate(r) \/ Contain(r) \/ FreezeEvidence(r) \/ HitIncident(r) \/ Capture(r)
           \/ BeaconPing(r)
  PROVE  MoreTypes'
<1>1. /\ UNCHANGED <<postureScore, federatedBlocklist, clock, rateLimitBuckets, passedAt, req,
                     operatorActs, resets, restores>>
      /\ \/ pc' = pc
         \/ pc[r] # "idle" /\ \E there : pc' = [pc EXCEPT ![r] = there]
  BY DEF Isolate, Contain, FreezeEvidence, AfterResponse, HitIncident, Capture, BeaconPing,
         EnforceIsolation, Goto, End, fleetVars, requestVars, operatorVars
<1>2. ListsOK'
  <2>1. CASE Contain(r)
    <3>1. /\ pc[r] = "revoking" /\ UNCHANGED incidents
          /\ blacklistedIps' = blacklistedIps \cup {req[r].ip}
          /\ tarpittedIps' = tarpittedIps \cup {req[r].ip}
      BY <2>1 DEF Contain, Blacklist, EngageTarpit
    <3>2. req[r].ip \in IPs
      BY <3>1 DEF MoreTypes, BegunAsks, RequestKinds
    <3> QED
      BY <3>1, <3>2 DEF MoreTypes, ListsOK
  <2>2. CASE Capture(r)
    <3>1. /\ pc[r] = "recon" /\ UNCHANGED <<incidents, blacklistedIps>>
          /\ tarpittedIps' = tarpittedIps \/ tarpittedIps' = tarpittedIps \cup {req[r].ip}
      BY <2>2 DEF Capture, EngageTarpit
    <3>2. req[r].ip \in IPs
      BY <3>1 DEF MoreTypes, BegunAsks, RequestKinds
    <3> QED
      BY <3>1, <3>2 DEF MoreTypes, ListsOK
  <2>3. CASE FreezeEvidence(r) \/ HitIncident(r)
    <3>1. /\ UNCHANGED <<blacklistedIps, tarpittedIps>>
          /\ \/ incidents' = incidents
             \/ \E d \in {level[r], "none"} : incidents' = incidents \cup {[by |-> r, defcon |-> d]}
      BY <2>3 DEF FreezeEvidence, HitIncident, OpenIncident, listVars
    <3>2. level[r] \in {Normal, Lockdown, "none"}
      BY DEF DefenceInv, DefenceTypes
    <3> QED
      BY <3>1, <3>2 DEF MoreTypes, ListsOK
  <2>4. CASE Isolate(r) \/ BeaconPing(r)
    BY <2>4 DEF Isolate, BeaconPing, MoreTypes, ListsOK, listVars
  <2> QED
    BY <2>1, <2>2, <2>3, <2>4
<1>3. BegunAsks'
  BY <1>1 DEF MoreTypes, BegunAsks, OriginInv, RequestFunctions
<1>4. IndicatorsOK' /\ TimesOK' /\ ActsOK'
  BY <1>1 DEF MoreTypes, IndicatorsOK, TimesOK, ActsOK
<1> QED
  BY <1>2, <1>3, <1>4 DEF MoreTypes

LEMMA OperatorTypes ==
  ASSUME MoreTypes, Operate
  PROVE  MoreTypes'
<1>1. /\ operatorActs < MaxOperatorActs /\ operatorActs' = operatorActs + 1
      /\ UNCHANGED <<incidents, clock, rateLimitBuckets, passedAt, pc, req>>
  BY DEF Operate, Reset, Restore, Quarantine, Tarpit, Register, OperatorAct, requestVars
<1>2. /\ resets' = resets \/ resets' = resets + 1
      /\ restores' = restores \/ restores' = restores + 1
  BY DEF Operate, Reset, Restore, Quarantine, Tarpit, Register
<1>3. ActsOK'
  <2>1. /\ operatorActs \in 0..MaxOperatorActs /\ MaxOperatorActs \in Nat
        /\ resets \in 0..operatorActs /\ restores \in 0..operatorActs
    BY LimitAssumption DEF MoreTypes, ActsOK
  <2>2. operatorActs' \in 0..MaxOperatorActs
    BY <1>1, <2>1
  <2>3. resets' \in 0..operatorActs' /\ restores' \in 0..operatorActs'
    BY <1>1, <1>2, <2>1
  <2> QED
    BY <2>2, <2>3 DEF ActsOK
<1>4. TimesOK' /\ BegunAsks'
  BY <1>1 DEF MoreTypes, TimesOK, BegunAsks, Never
<1>5. IndicatorsOK' /\ ListsOK'
  <2>1. CASE Reset
    BY <1>1, <2>1 DEF Reset, ResetDefcon, MoreTypes, IndicatorsOK, ListsOK, fleetVars
  <2>2. ASSUME NEW e \in Entities, Restore(e) PROVE IndicatorsOK' /\ ListsOK'
    <3>1. /\ postureScore' = [postureScore EXCEPT ![e] = 95]
          /\ UNCHANGED <<federatedBlocklist, blacklistedIps, tarpittedIps>>
      BY <2>2 DEF Restore, RestoreEntity, listVars
    <3>2. 95 \in 10..96
      OBVIOUS
    <3> QED
      BY <1>1, <3>1, <3>2 DEF MoreTypes, IndicatorsOK, ListsOK
  <2>3. ASSUME NEW e \in Entities, Quarantine(e) PROVE IndicatorsOK' /\ ListsOK'
    <3>1. /\ QuarantineEntity(e) /\ federatedBlocklist' = federatedBlocklist \cup {e}
          /\ UNCHANGED <<blacklistedIps, tarpittedIps>>
      BY <2>3 DEF Quarantine, ShareThreatSignature, listVars
    <3>2. postureScore' \in [Entities -> 10..96]
      BY <3>1, QuarantineTypes DEF MoreTypes
    <3> QED
      BY <1>1, <3>1, <3>2 DEF MoreTypes, IndicatorsOK, ListsOK
  <2>4. ASSUME NEW ip \in IPs, Tarpit(ip) PROVE IndicatorsOK' /\ ListsOK'
    <3>1. /\ tarpittedIps' = tarpittedIps \cup {ip}
          /\ UNCHANGED <<postureScore, federatedBlocklist, blacklistedIps>>
      BY <2>4 DEF Tarpit, EngageTarpit, fleetVars
    <3> QED
      BY <1>1, <3>1 DEF MoreTypes, IndicatorsOK, ListsOK
  <2>5. ASSUME NEW id \in Apps, Register(id) PROVE IndicatorsOK' /\ ListsOK'
    BY <1>1, <2>5 DEF Register, MoreTypes, IndicatorsOK, ListsOK, fleetVars, listVars
  <2> QED
    BY <2>1, <2>2, <2>3, <2>4, <2>5 DEF Operate
<1> QED
  BY <1>3, <1>4, <1>5 DEF MoreTypes

LEMMA TickTypes ==
  ASSUME MoreTypes, Tick
  PROVE  MoreTypes'
<1>1. /\ clock < MaxClock /\ clock' = clock + 1
      /\ UNCHANGED <<postureScore, federatedBlocklist, blacklistedIps, tarpittedIps, incidents,
                     rateLimitBuckets, passedAt, pc, req, operatorActs, resets, restores>>
  BY DEF Tick, fleetVars, listVars, requestVars, operatorVars
<1>2. IndicatorsOK' /\ ListsOK' /\ ActsOK' /\ BegunAsks'
  BY <1>1 DEF MoreTypes, IndicatorsOK, ListsOK, ActsOK, BegunAsks
<1>3. /\ clock \in 0..MaxClock /\ MaxClock \in Nat /\ clock' \in 0..MaxClock
      /\ 0..clock \subseteq 0..clock'
  BY <1>1, LimitAssumption DEF MoreTypes, TimesOK
<1>4. TimesOK'
  <2>1. [by : Requests, at : 0..clock] \subseteq [by : Requests, at : 0..clock']
    BY <1>3
  <2>2. rateLimitBuckets' \in [Apps \X IPs -> SUBSET [by : Requests, at : 0..clock']]
    BY <1>1, <2>1 DEF MoreTypes, TimesOK
  <2>3. passedAt' \in [Requests -> {Never} \cup 0..clock']
    BY <1>1, <1>3 DEF MoreTypes, TimesOK
  <2> QED
    BY <1>3, <2>2, <2>3 DEF TimesOK, Never
<1> QED
  BY <1>2, <1>4 DEF MoreTypes

(* What is registered, at the start or by the route, has one of the limits.   *)
LEMMA AppsStep ==
  ASSUME AppsOK, [Next]_vars
  PROVE  AppsOK'
<1>1. CASE UNCHANGED apps
  BY <1>1 DEF AppsOK
<1>2. ASSUME NEW id \in Apps, Register(id) PROVE AppsOK'
  <2>1. apps' = [a \in DOMAIN apps \cup {id} |-> IF a = id THEN DefaultLimit ELSE apps[a]]
    BY <1>2 DEF Register
  <2>2. DefaultLimit \in Limits
    BY DEF Limits
  <2> QED
    BY <2>1, <2>2 DEF AppsOK
<1>3. ASSUME NEW r \in Requests, Handle(r) PROVE UNCHANGED apps
  BY <1>3 DEF Handle, Proxy, LeaveTarpit, Drill, Decoy, HitIncident, Isolate, Contain,
              FreezeEvidence, Capture, BeaconPing, operatorVars
<1>4. CASE Reset \/ Tick \/ UNCHANGED vars
  BY <1>1, <1>4 DEF Reset, Tick, vars, operatorVars
<1>5. ASSUME NEW e, Restore(e) \/ Quarantine(e) \/ Tarpit(e) PROVE UNCHANGED apps
  BY <1>5 DEF Restore, Quarantine, Tarpit
<1> QED
  BY <1>1, <1>2, <1>3, <1>4, <1>5 DEF Next, Operate

LEMMA AppsStart == Init => AppsOK
<1> SUFFICES ASSUME Init PROVE AppsOK
  OBVIOUS
<1>1. apps = Limit
  BY DEF Init
<1>2. Limit \in [DOMAIN Limit -> Limits]
  BY LimitAssumption DEF Limits
<1> QED
  BY <1>1, <1>2, AppsAssumption DEF AppsOK

LEMMA TypesStep ==
  ASSUME OriginInv, DefenceInv, MoreTypes, [Next]_vars
  PROVE  MoreTypes'
<1>1. CASE UNCHANGED vars
  BY <1>1 DEF vars, fleetVars, listVars, requestVars, operatorVars, MoreTypes, IndicatorsOK,
              ListsOK, TimesOK, ActsOK, BegunAsks, Never
<1>2. ASSUME NEW r \in Requests, Handle(r) PROVE MoreTypes'
  BY <1>2, ArrivalTypes, LaterTypes DEF Handle
<1> QED
  BY <1>1, <1>2, OperatorTypes, TickTypes DEF Next

LEMMA TypesStart == Init => MoreTypes
<1> SUFFICES ASSUME Init PROVE MoreTypes
  OBVIOUS
<1>1. IndicatorsOK
  BY ScoreAssumption DEF Init, FleetInit, IndicatorsOK
<1>2. ListsOK
  BY DEF Init, ListsInit, ListsOK
<1>3. TimesOK
  BY LimitAssumption DEF Init, TimesOK
<1>4. ActsOK /\ BegunAsks
  BY LimitAssumption DEF Init, ActsOK, BegunAsks
<1> QED
  BY <1>1, <1>2, <1>3, <1>4 DEF MoreTypes

(* Every variable keeps its type: no score leaves 10..96 however often an     *)
(* entity is quarantined, no address of nobody gets on a list, no counter     *)
(* passes its bound.                                                          *)
THEOREM GatewayTypesOK == Spec => []TypeOK
<1>1. DefenceInv /\ MoreTypes /\ AppsOK => TypeOK
  <2> SUFFICES ASSUME DefenceInv, MoreTypes, AppsOK PROVE TypeOK
    OBVIOUS
  <2>1. /\ resetsSeen \in [Requests -> 0..resets]
        /\ restoresSeen \in [Requests -> 0..restores]
    BY DEF DefenceInv, DefenceTypes
  <2> QED
    BY <2>1 DEF DefenceInv, DefenceTypes, MoreTypes, IndicatorsOK, ListsOK, TimesOK, ActsOK,
                AppsOK, TypeOK, FleetTypeOK, Places, Outcomes
<1>2. OriginInv /\ [Next]_vars => OriginInv'
  BY NextStep
<1> QED
  BY <1>1, <1>2, OriginStart, DefenceStart, DefenceStep, TypesStart, TypesStep,
     AppsStart, AppsStep, PTL DEF Spec
===============================================================================
