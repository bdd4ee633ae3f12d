------------------------------- MODULE Forensics -------------------------------
(***************************************************************************)
(* generateAttributionReport (forensics.service.ts) beside the writers of  *)
(* the audit log: it reads the incident, then the whole chain to verify    *)
(* it, then the oldest entries of the chain again to list them, and marks  *)
(* those it lists by what it found the first time.                         *)
(***************************************************************************)
EXTENDS AuditLog

CONSTANTS
  IncidentTypes,  \* the types of the incidents there are
  TimelineLength,           \* 25: the length of the timeline
  MaxReports      \* bound: reports drawn, one after another; the last one is the end

ASSUME TimelineAssumption == TimelineLength \in Nat \ {0} /\ MaxReports \in Nat

VARIABLES
  drawing,   \* where the handler is suspended
  report,    \* what it has so far; the last report when it is over
  seen,      \* history: the ids of the chain it verified
  steady,    \* history: nobody has altered the table since then
  reports    \* reports begun

reportVars == <<drawing, report, seen, steady, reports>>

NoReport == [tenant |-> SYSTEM, type |-> "none", intact |-> TRUE, brokenAt |-> <<>>,
             timeline |-> <<>>, techniques |-> {}, confidence |-> "none",
             untrusted |-> FALSE]

ForensicsTypeOK ==
  /\ TypeOK
  /\ drawing \in {"idle", "verify", "timeline", "over"}
  /\ report.tenant \in Chains /\ report.type \in IncidentTypes \cup {"none"}
  /\ report.intact \in BOOLEAN
  /\ \A i \in DOMAIN report.timeline :
       /\ i <= TimelineLength
       /\ report.timeline[i].content \in Contents \cup Forgeries /\ report.timeline[i].tamperVerified \in BOOLEAN
  /\ report.confidence \in {"LOW", "MEDIUM", "HIGH", "none"}
  /\ reports \in 0..MaxReports

ForensicsInit ==
  /\ Init
  /\ drawing = "idle" /\ report = NoReport
  /\ seen = {} /\ steady = TRUE
  /\ reports = 0
-------------------------------------------------------------------------------
(* What is read off the type of the incident *)

MapIncidentToTechniques(type) ==
  CASE type = "HONEYTOKEN_DECEPTION_TRIGGERED" -> {"T1552"}
    [] type = "CASCADING_ATTACK_CHAIN" -> {"T1190", "T1552.001"}
    [] type = "SSRF_CLOUDMETADATA_LEAK" -> {"T1190", "T1046"}
    [] OTHER -> {}

\* mitre-attack.service.ts: the techniques with details.
Matrix == {"T1552", "T1552.001", "T1190", "T1611", "T1046"}

GetTechniqueDetails(ids) == ids \cap Matrix

ScoreConfidence(type, intact) ==
  IF ~intact \/ type = "HONEYTOKEN_DECEPTION_TRIGGERED" THEN "HIGH"
  ELSE IF type \in {"CASCADING_ATTACK_CHAIN", "SSRF_CLOUDMETADATA_LEAK"} THEN "MEDIUM"
  ELSE "LOW"

\* recommend: whether it says to treat the log as compromised.
Recommend(type, intact) == ~intact
-------------------------------------------------------------------------------
(* generateAttributionReport *)

\* The incident is one of the caller's tenant, or there is none: not found.
FindIncident ==
  /\ drawing \in {"idle", "over"} /\ reports < MaxReports
  /\ reports' = reports + 1
  /\ \/ /\ drawing' = "verify"
        /\ \E t \in Known, type \in IncidentTypes :
             report' = [NoReport EXCEPT !.tenant = t, !.type = type]
     \/ drawing' = "over" /\ report' = NoReport
  /\ seen' = {} /\ steady' = TRUE
  /\ UNCHANGED vars

\* verifyChainIntegrity, on what one findMany returns: the first broken link.
VerifyChain ==
  /\ drawing = "verify"
  /\ \E o \in Orders(report.tenant) :
       LET broken == {i \in 2..Len(o) : ~Matches(entries[o[i - 1]], entries[o[i]])}
       IN  report' = IF broken = {} THEN report
                     ELSE [report EXCEPT !.intact = FALSE,
                             !.brokenAt = entries[o[CHOOSE i \in broken : \A j \in broken : i <= j]].id]
  /\ seen' = {entries[i].id : i \in ChainEntries(report.tenant)}
  /\ steady' = TRUE
  /\ drawing' = "timeline"
  /\ UNCHANGED <<vars, reports>>

\* Mutant: the flag is set after the entry has been listed.
TamperVerified_Late(i, broken) == \A j \in 1..(i - 1) : j # broken

\* brokenReached: an entry is marked verified if it comes before the broken one.
TamperVerified(i, broken) == \A j \in 1..i : j # broken

\* The timeline, of what another findMany returns, and the rest, without an await.
DrawTimeline ==
  /\ drawing = "timeline"
  /\ \E o \in Orders(report.tenant) :
       LET listed == SubSeq(o, 1, IF Len(o) < TimelineLength THEN Len(o) ELSE TimelineLength)
           Entry(i) == entries[listed[i]]
           broken == IF report.intact THEN {}
                     ELSE {i \in DOMAIN listed : Entry(i).id = report.brokenAt}
           at == IF broken = {} THEN 0 ELSE CHOOSE i \in broken : TRUE
       IN  report' = [report EXCEPT
             !.timeline = [i \in DOMAIN listed |->
                [id |-> Entry(i).id, hash |-> Entry(i).hash, content |-> Entry(i).content,
                 tamperVerified |-> TamperVerified(i, at)]],
             !.techniques = GetTechniqueDetails(MapIncidentToTechniques(report.type)),
             !.confidence = ScoreConfidence(report.type, report.intact),
             !.untrusted = Recommend(report.type, report.intact)]
  /\ steady' = (steady /\ DistinctTimes(report.tenant))
  /\ drawing' = "over"
  /\ UNCHANGED <<vars, seen, reports>>

\* A query of the report rejects.
DrawingFails ==
  /\ drawing \in {"verify", "timeline"}
  /\ drawing' = "over" /\ report' = NoReport
  /\ seen' = {} /\ steady' = TRUE
  /\ UNCHANGED <<vars, reports>>

\* A step of the writers, or of those who alter the table.
LogStep ==
  /\ drawing = "over" => reports < MaxReports
  /\ Next
  /\ steady' = (steady /\ (drawing = "timeline" => tampered' = tampered))
  /\ UNCHANGED <<drawing, report, seen, reports>>

ForensicsNext == FindIncident \/ VerifyChain \/ DrawTimeline \/ DrawingFails \/ LogStep

ForensicsSpec == ForensicsInit /\ [][ForensicsNext]_<<vars, reportVars>>
-------------------------------------------------------------------------------
(* Properties *)

(* What "verified" is worth.  Of an intact chain: see the audit log.  Of a    *)
(* report drawn while nobody altered the table, on a chain whose order is not *)
(* in doubt: each entry it marks verified, other than the oldest, than those  *)
(* appended after it verified the chain -- which it marks verified unread --  *)
(* and than one listed behind such an entry, as it is dated in the future,    *)
(* has the action, actor and metadata it was written with and follows the     *)
(* entry listed before it, unless its hash was rewritten too; and it leaves   *)
(* none unmarked without saying that the log is compromised.                  *)
VerifiedIsGenuine ==
  /\ IntactChainIsGenuine
  /\ drawing = "over" /\ steady => \A i \in DOMAIN report.timeline :
       LET listed == report.timeline[i]
           prev == report.timeline[i - 1]
       IN  IF listed.tamperVerified
             THEN i > 1 /\ {listed.id, prev.id} \subseteq seen /\ Original(listed.hash)
                    => AsWritten(listed, prev)
             ELSE report.untrusted /\ report.confidence = "HIGH"
===============================================================================
