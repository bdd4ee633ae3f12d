----------------------------- MODULE FleetService -----------------------------
(***************************************************************************)
(* FleetService (fleet.service.ts) and FederatedDefenseService             *)
(* (federated-defense.service.ts): which applications are cut off, and the *)
(* list of indicators shared with the peers.  Both live in memory; each    *)
(* operation below is what a method does before its first await, or after. *)
(***************************************************************************)
EXTENDS Integers, FiniteSets

CONSTANTS
  Entities,  \* ids of the entities map
  IPs,       \* client addresses
  Score      \* initial postureScore of an entity

ASSUME ScoreAssumption == Score \in [Entities -> 91..96]

VARIABLES
  status,             \* per entity: ONLINE or QUARANTINED (nothing sets DEGRADED)
  postureScore,
  isolationLevel,
  federatedBlocklist  \* indicators: addresses, and the urls of entities

fleetVars == <<status, postureScore, isolationLevel>>

Initial == "INITIAL"  \* HARDENED_ENCLAVE or RESTRICTED_SANDBOX, by entity

FleetTypeOK ==
  /\ status \in [Entities -> {"ONLINE", "QUARANTINED"}]
  /\ postureScore \in [Entities -> 10..96]
  /\ isolationLevel \in [Entities -> {Initial, "FULL_AIRGAP"}]
  /\ federatedBlocklist \subseteq IPs \cup Entities

FleetInit ==
  /\ status = [e \in Entities |-> "ONLINE"]
  /\ postureScore = Score
  /\ isolationLevel = [e \in Entities |-> Initial]
  /\ federatedBlocklist = {}  \* the seeded address is none of IPs

IsQuarantined(id) == id \in Entities /\ status[id] = "QUARANTINED"

\* shareThreatSignature: the HMAC is injective, an indicator stands for its hash.
ShareThreatSignature(indicators) == federatedBlocklist' = federatedBlocklist \cup indicators

IsThreatBlocked(ip) == ip \in federatedBlocklist

\* Mutant: nothing keeps the score from falling on.
QuarantineEntity_NoFloor(e) ==
  /\ status' = [status EXCEPT ![e] = "QUARANTINED"]
  /\ postureScore' = [postureScore EXCEPT ![e] = @ - 40]

\* quarantineEntity up to the await of its audit entry.
QuarantineEntity(e) ==
  /\ status' = [status EXCEPT ![e] = "QUARANTINED"]
  /\ postureScore' = [postureScore EXCEPT ![e] = IF @ - 40 > 10 THEN @ - 40 ELSE 10]

\* Mutant: the level the entity has is kept, as in a manual quarantine.
EnforceIsolation_Kept(e) == UNCHANGED isolationLevel

\* isolateEnclave, after that await.
EnforceIsolation(e) == isolationLevel' = [isolationLevel EXCEPT ![e] = "FULL_AIRGAP"]

\* restoreEntity.  The isolation level is left as it is.
RestoreEntity(e) ==
  /\ status' = [status EXCEPT ![e] = "ONLINE"]
  /\ postureScore' = [postureScore EXCEPT ![e] = 95]
===============================================================================
