-------------------------- MODULE ScanDeliveryProofs --------------------------
(***************************************************************************)
(* Theorems about ScanOrchestrator when a job may be delivered again, as   *)
(* BullMQ does after a crash, but deliveries of one job do not overlap: a  *)
(* worker that still runs the job keeps its lock.  With one delivery per   *)
(* job that is always so.                                                  *)
(***************************************************************************)
EXTENDS ScanOrchestratorProofs

NoOverlap == MaxDeliveries = 1 \/ "stall" \notin Faults

Step(r) == RunStep(r) \/ FaultStep(r) \/ \E m \in Modules : ModuleStep(r, m)

\* What a run keeps to itself, and what it shares with the runs of its scan.
OfRun(r) == <<pc[r], target[r], from[r], held[r], mods[r], left[r], todo[r], score[r]>>
OfScan(s) == <<state[s], completedAt[s], posture[s], rows[s], certs[s], incidents[s],
               logged[s], stale[s], workspace[s]>>

Active(r) == \E m \in Modules : mods[r][m] \in {"running", "saving"}

(* A delivery has begun only if every earlier one was lost.                   *)
InOrder ==
  \A r, q \in Runs : r[1] = q[1] /\ q[2] < r[2] /\ pc[r] # "queued" => pc[q] = "lost"

(* Scanners run only from the scanning phase on, and a run that has left it   *)
(* with a scanner still at work is on its way to FAILED.                      *)
ScannersAtWork ==
  \A r \in Runs : Active(r) => /\ pc[r] \in {"scan", "catch", "cleanup", "done", "acked"}
                               /\ state[r[1]] \in {"SCANNING", "FAILED"}

(* Once its first move is checked, a run finds its row where it left it: what *)
(* remains of RunMatchesRow when the job may be delivered again.              *)
WorkMatches(r) ==
  LET now == state[r[1]] IN
    /\ pc[r] \in {"check", "update", "audit"} =>
         target[r] \notin {"AUTHORIZED", "FAILED", "ARCHIVED"}
    /\ pc[r] = "check" => target[r] = "PROVISIONING" \/ ValidTransition(now, target[r])
    /\ pc[r] = "update" => ValidTransition(now, target[r]) /\ from[r] = now
    /\ pc[r] = "audit" => now = target[r] /\ ValidTransition(from[r], target[r])
    /\ pc[r] \in {"mkdir", "clone"} => now = "PROVISIONING" /\ target[r] = now
    /\ pc[r] = "scan" => now = "SCANNING" /\ target[r] = now
    /\ pc[r] \in {"analyse", "write"} => now \in {"CORRELATING", "REPORTING"} /\ target[r] = now
    /\ pc[r] \in {"count", "score"} => now = "REPORTING" /\ target[r] = now

WorkMatchesRow == \A r \in Runs : WorkMatches(r)

DeliveryInv == InOrder /\ ScannersAtWork /\ WorkMatchesRow
-------------------------------------------------------------------------------
(* A step of one run leaves the other runs and the other scans alone.         *)

LEMMA StepsAreLocal ==
  ASSUME TypeOK, NEW r \in Runs, Step(r)
  PROVE  /\ \A q \in Runs : q # r => UNCHANGED OfRun(q)
         /\ \A s \in Scans : s # r[1] => UNCHANGED OfScan(s)
<1> USE RunOfScan DEF TypeOK, DbTypeOK, RunTypeOK, OfRun, OfScan
<1>1. ASSUME NEW m \in Modules, ModuleStep(r, m) \/ ModuleFails(r, m)
      PROVE  /\ \A q \in Runs : q # r => UNCHANGED OfRun(q)
             /\ \A s \in Scans : s # r[1] => UNCHANGED OfScan(s)
  BY <1>1 DEF ModuleStep, ScannerReturns, SaveFinding, ModuleFails, Goto, dbVars
<1>2. CASE CloneFails(r) \/ DatabaseFails(r)
  BY <1>2 DEF CloneFails, DatabaseFails, Goto, dbVars
<1>3. CASE Start(r) \/ CheckTransition(r) \/ UpdateState(r)
  BY <1>3 DEF Start, CheckTransition, UpdateState, AwaitTransition, Goto, dbVars
<1>4. CASE BeginProvisioning(r) \/ BeginScanning(r) \/ BeginAnalysis(r) \/ Complete(r)
  BY <1>4 DEF BeginProvisioning, BeginScanning, BeginAnalysis, Complete, LogTransition, Goto, dbVars
<1>5. CASE MakeWorkspace(r) \/ CloneSucceeds(r) \/ AllModulesDone(r) \/ Cleanup(r)
  BY <1>5 DEF MakeWorkspace, CloneSucceeds, AllModulesDone, Cleanup, AwaitTransition, Goto, dbVars
<1>6. CASE Analyse(r) \/ WriteRow(r) \/ EndAnalysis(r)
  BY <1>6 DEF Analyse, WriteRow, EndAnalysis, AwaitTransition, Goto, dbVars
<1>7. CASE CountFindings(r) \/ StorePosture(r) \/ Catch(r) \/ Acknowledge(r)
  BY <1>7 DEF CountFindings, StorePosture, Catch, Acknowledge, AwaitTransition, Goto, dbVars
<1> QED
  BY <1>1, <1>2, <1>3, <1>4, <1>5, <1>6, <1>7 DEF Step, RunStep, FaultStep

\* An upload or a clearing changes findings, and what of a report is stale by it.
LEMMA RepositoryKeeps ==
  ASSUME RepositoryStep
  PROVE  UNCHANGED <<state, completedAt, posture, certs, incidents, logged, workspace,
                     runVars, busVars>>
BY DEF RepositoryStep, SaveUpload, ClearFindings

LEMMA QuietSteps ==
  ASSUME UNCHANGED vars \/ \E c \in Clients : ClientStep(c)
  PROVE  UNCHANGED <<dbVars, workspace, runVars>>
BY DEF vars, ClientStep, CheckOwnership, Subscribe, Disconnect

LEMMA WaitingStarts ==
  ASSUME ScannersAtWork, NEW r \in Runs, pc[r] \in {"queued", "lost"}, Step(r)
  PROVE  Start(r)
<1>1. \A m \in Modules : mods[r][m] \notin {"running", "saving"}
  BY DEF ScannersAtWork, Active
<1> QED
  BY <1>1 DEF Step, RunStep, FaultStep, ModuleStep, CheckTransition, UpdateState,
     BeginProvisioning, MakeWorkspace, CloneSucceeds, BeginScanning, AllModulesDone, BeginAnalysis,
     Analyse, WriteRow, EndAnalysis, CountFindings, StorePosture, Complete, Catch, Cleanup,
     Acknowledge, LogTransition, CloneFails, DatabaseFails, ModuleFails, ScannerReturns, SaveFinding

\* A delivery that starts finds every earlier one lost.
LEMMA StartsInOrder ==
  ASSUME NoOverlap, InOrder, NEW r \in Runs, Start(r), NEW q \in Runs, q[1] = r[1], q[2] < r[2]
  PROVE  pc[r] = "queued" /\ pc[q] = "lost"
<1> DEFINE b == <<r[1], r[2] - 1>>
<1>1. /\ r = <<r[1], r[2]>> /\ q = <<r[1], q[2]>> /\ r[1] \in Scans
      /\ r[2] \in 1..MaxDeliveries /\ q[2] \in 1..MaxDeliveries /\ MaxDeliveries \in Nat
  BY BoundAssumption DEF Runs
<1>2. "stall" \notin Faults /\ r[2] > 1
  BY <1>1 DEF NoOverlap
<1>3. b \in Runs /\ b[1] = q[1] /\ b[2] = r[2] - 1
  BY <1>1, <1>2 DEF Runs
<1>4. pc[r] = "queued" /\ pc[b] = "lost"
  BY <1>2 DEF Start, MayStart
<1>5. CASE q[2] < b[2]
  BY <1>3, <1>4, <1>5 DEF InOrder
<1>6. CASE q[2] = b[2]
  BY <1>1, <1>3, <1>4, <1>6
<1> QED
  BY <1>1, <1>3, <1>4, <1>5, <1>6

(* While a delivery is under way the others of its job wait or are lost, and  *)
(* only it takes steps.                                                       *)

LEMMA OneAtATime ==
  ASSUME TypeOK, NoOverlap, InOrder, ScannersAtWork,
         NEW r \in Runs, pc[r] \notin {"queued", "lost"},
         NEW q \in Runs, q[1] = r[1], Step(q)
  PROVE  q = r
<1> SUFFICES ASSUME q # r PROVE FALSE
  OBVIOUS
<1>1. /\ r = <<r[1], r[2]>> /\ q = <<r[1], q[2]>> /\ r[1] \in Scans
      /\ r[2] \in 1..MaxDeliveries /\ q[2] \in 1..MaxDeliveries
  BY DEF Runs
<1>2. MaxDeliveries \in Nat /\ r[2] # q[2] /\ "stall" \notin Faults
  BY <1>1, BoundAssumption DEF NoOverlap
<1>3. pc[q] \in {"queued", "lost"} /\ (q[2] < r[2] => pc[q] = "lost")
  <2>1. CASE q[2] < r[2]
    BY <1>1, <2>1 DEF InOrder
  <2>2. CASE r[2] < q[2]
    BY <1>1, <1>2, <2>2 DEF InOrder
  <2> QED
    BY <1>1, <1>2, <2>1, <2>2
<1>4. Start(q)
  BY <1>3, WaitingStarts
<1>5. q[2] > r[2]
  BY <1>1, <1>2, <1>3, <1>4 DEF Start, MayStart
<1> QED
  BY <1>4, <1>5, StartsInOrder

\* What a step can be to run r: its own, a crash, an upload or a clearing, or one that
\* leaves r alone, and the row of its scan too if r is under way.
LEMMA StepCases ==
  ASSUME TypeOK, NoOverlap, InOrder, ScannersAtWork, NEW r \in Runs, [Next]_vars
  PROVE  \/ Step(r)
         \/ Crash
         \/ RepositoryStep
         \/ /\ UNCHANGED OfRun(r)
            /\ pc[r] \in {"queued", "lost"} \/ UNCHANGED OfScan(r[1])
<1>1. CASE UNCHANGED vars \/ \E c \in Clients : ClientStep(c)
  BY <1>1, QuietSteps DEF dbVars, runVars, OfRun, OfScan
<1>2. ASSUME NEW q \in Runs, Step(q), q # r
      PROVE  UNCHANGED OfRun(r) /\ (pc[r] \in {"queued", "lost"} \/ UNCHANGED OfScan(r[1]))
  <2>1. UNCHANGED OfRun(r)
    BY <1>2, StepsAreLocal
  <2>2. q[1] # r[1] => UNCHANGED OfScan(r[1])
    BY <1>2, StepsAreLocal, RunOfScan
  <2> QED
    BY <1>2, <2>1, <2>2, OneAtATime
<1> QED
  BY <1>1, <1>2 DEF Next, Step
-------------------------------------------------------------------------------
(* DeliveryInv is inductive once types are known.                             *)

LEMMA DeliveryInit == Init => DeliveryInv
BY RunOfScan DEF Init, DeliveryInv, InOrder, ScannersAtWork, Active, WorkMatchesRow, WorkMatches

LEMMA OrderNext ==
  ASSUME TypeOK, NoOverlap, InOrder, ScannersAtWork, [Next]_vars
  PROVE  InOrder'
<1> SUFFICES ASSUME NEW r \in Runs, NEW q \in Runs, r[1] = q[1], q[2] < r[2], pc'[r] # "queued"
             PROVE  pc'[q] = "lost"
  BY DEF InOrder
<1>1. CASE UNCHANGED vars \/ (\E c \in Clients : ClientStep(c)) \/ RepositoryStep
  BY <1>1, QuietSteps, RepositoryKeeps DEF InOrder, runVars
<1>2. CASE Crash
  <2>1. CASE pc[r] # "queued"
    BY <1>2, <2>1 DEF Crash, InOrder
  <2>2. CASE pc[r] = "queued"
    <3>1. MaxDeliveries = 1
      BY <1>2, <2>2, MockAssumption, FaultAssumption DEF Crash
    <3> QED
      BY <3>1 DEF Runs
  <2> QED
    BY <2>1, <2>2
<1>3. ASSUME NEW x \in Runs, Step(x) PROVE pc'[q] = "lost"
  <2>1. pc[q] = "lost"
    <3>1. CASE pc[r] # "queued"
      BY <3>1 DEF InOrder
    <3>2. CASE pc[r] = "queued"
      <4>1. x = r
        BY <1>3, <3>2, StepsAreLocal DEF OfRun
      <4>2. Start(r)
        BY <1>3, <3>2, <4>1, WaitingStarts
      <4> QED
        BY <4>2, StartsInOrder
    <3> QED
      BY <3>1, <3>2
  <2>2. x # q
    BY <1>3, <2>1, WaitingStarts DEF Start, MayStart
  <2> QED
    BY <1>3, <2>1, <2>2, StepsAreLocal DEF OfRun
<1> QED
  BY <1>1, <1>2, <1>3 DEF Next, Step

LEMMA OwnStepAtWork ==
  ASSUME TypeOK, NEW r \in Runs, WorkMatches(r), ScannersAtWork, Step(r), Active(r)'
  PROVE  /\ pc'[r] \in {"scan", "catch", "cleanup", "done", "acked"}
         /\ state'[r[1]] \in {"SCANNING", "FAILED"}
<1> USE RunOfScan DEF TypeOK, DbTypeOK, RunTypeOK
<1>1. Active(r) => /\ pc[r] \in {"scan", "catch", "cleanup", "done", "acked"}
                   /\ state[r[1]] \in {"SCANNING", "FAILED"}
  BY DEF ScannersAtWork
<1>2. CASE BeginScanning(r)
  BY <1>2 DEF BeginScanning, LogTransition, Goto, WorkMatches
<1>3. CASE \E m \in Modules : ModuleStep(r, m) \/ ModuleFails(r, m)
  <2>1. Active(r) /\ UNCHANGED state /\ (pc' = pc \/ (pc[r] = "scan" /\ pc'[r] = "catch"))
    BY <1>3 DEF ModuleStep, ScannerReturns, SaveFinding, ModuleFails, Goto, Active, dbVars
  <2> QED
    BY <1>1, <2>1
<1>4. CASE Catch(r) \/ Cleanup(r) \/ Acknowledge(r)
  BY <1>1, <1>4 DEF Catch, Cleanup, Acknowledge, Goto, Active, dbVars
<1>5. ~AllModulesDone(r)
  BY DEF AllModulesDone, Active
<1> QED
  BY <1>1, <1>2, <1>3, <1>4, <1>5 DEF Step, RunStep, FaultStep, Start, MayStart, CheckTransition, UpdateState,
     BeginProvisioning, MakeWorkspace, CloneSucceeds, BeginAnalysis, Analyse, WriteRow, EndAnalysis,
     CountFindings, StorePosture, Complete, LogTransition, CloneFails, DatabaseFails, Active

LEMMA AtWorkNext ==
  ASSUME TypeOK, NoOverlap, DeliveryInv, [Next]_vars
  PROVE  ScannersAtWork'
<1> USE DEF DeliveryInv
<1> SUFFICES ASSUME NEW r \in Runs, Active(r)'
             PROVE  /\ pc'[r] \in {"scan", "catch", "cleanup", "done", "acked"}
                    /\ state'[r[1]] \in {"SCANNING", "FAILED"}
  BY DEF ScannersAtWork
<1>1. CASE Step(r)
  BY <1>1, OwnStepAtWork DEF WorkMatchesRow
<1>2. CASE Crash
  BY <1>2 DEF Crash, Active
<1>3. CASE UNCHANGED OfRun(r) /\ (pc[r] \in {"queued", "lost"} \/ UNCHANGED OfScan(r[1]))
  BY <1>3 DEF OfRun, OfScan, Active, ScannersAtWork
<1>4. CASE RepositoryStep
  BY <1>4, RepositoryKeeps DEF runVars, Active, ScannersAtWork
<1> QED
  BY <1>1, <1>2, <1>3, <1>4, StepCases

LEMMA OwnStepMatches ==
  ASSUME TypeOK, NEW r \in Runs, WorkMatches(r), ScannersAtWork, Step(r)
  PROVE  WorkMatches(r)'
<1> USE RunOfScan DEF dbVars, Goto, ScanState
<1>0. /\ pc \in [Runs -> PcValue] /\ target \in [Runs -> ScanState]
      /\ from \in [Runs -> ScanState] /\ state \in [Scans -> ScanState]
      /\ r[1] \in Scans /\ state[r[1]] \in ScanState
  BY DEF TypeOK, DbTypeOK, RunTypeOK
<1>1. CASE Start(r)
  BY <1>0, <1>1, Transitions DEF Start, MayStart, AwaitTransition, WorkMatches
<1>2. CASE CheckTransition(r)
  BY <1>0, <1>2, Transitions DEF CheckTransition, WorkMatches
<1>3. CASE UpdateState(r)
  BY <1>0, <1>3, Transitions DEF UpdateState, WorkMatches
<1>4. CASE BeginProvisioning(r)
  BY <1>0, <1>4, Transitions DEF BeginProvisioning, LogTransition, WorkMatches
<1>5. CASE MakeWorkspace(r)
  BY <1>0, <1>5, Transitions DEF MakeWorkspace, WorkMatches
<1>6. CASE CloneSucceeds(r)
  BY <1>0, <1>6, Transitions DEF CloneSucceeds, AwaitTransition, WorkMatches
<1>7. CASE BeginScanning(r)
  BY <1>0, <1>7, Transitions DEF BeginScanning, LogTransition, WorkMatches
<1>8. CASE AllModulesDone(r)
  BY <1>0, <1>8, Transitions DEF AllModulesDone, AwaitTransition, WorkMatches
<1>9. CASE BeginAnalysis(r)
  BY <1>0, <1>9, Transitions DEF BeginAnalysis, LogTransition, WorkMatches
<1>10. CASE Analyse(r)
  BY <1>0, <1>10, Transitions DEF Analyse, WorkMatches
<1>11. CASE WriteRow(r)
  BY <1>0, <1>11, Transitions DEF WriteRow, WorkMatches
<1>12. CASE EndAnalysis(r)
  BY <1>0, <1>12, Transitions DEF EndAnalysis, AwaitTransition, WorkMatches
<1>13. CASE CountFindings(r)
  BY <1>0, <1>13, Transitions DEF CountFindings, WorkMatches
<1>14. CASE StorePosture(r)
  BY <1>0, <1>14, Transitions DEF StorePosture, AwaitTransition, WorkMatches
<1>15. CASE Complete(r)
  BY <1>0, <1>15, Transitions DEF Complete, LogTransition, WorkMatches
<1>16. CASE Catch(r)
  BY <1>0, <1>16, Transitions DEF Catch, WorkMatches
<1>17. CASE Cleanup(r)
  BY <1>0, <1>17, Transitions DEF Cleanup, WorkMatches
<1>18. CASE Acknowledge(r)
  BY <1>0, <1>18, Transitions DEF Acknowledge, WorkMatches
<1>19. CASE FaultStep(r) \/ \E m \in Modules : ModuleStep(r, m)
  <2>1. UNCHANGED <<state, target, from>> /\ pc'[r] \in {pc[r], "catch"}
    BY <1>0, <1>19 DEF FaultStep, CloneFails, DatabaseFails, ModuleFails, ModuleStep,
       ScannerReturns, SaveFinding
  <2> QED
    BY <2>1 DEF WorkMatches
<1> QED
  BY <1>1, <1>2, <1>3, <1>4, <1>5, <1>6, <1>7, <1>8, <1>9, <1>10, <1>11, <1>12, <1>13, <1>14, <1>15, <1>16, <1>17, <1>18, <1>19 DEF Step, RunStep

LEMMA MatchesNext ==
  ASSUME TypeOK, NoOverlap, DeliveryInv, [Next]_vars
  PROVE  WorkMatchesRow'
<1> USE DEF DeliveryInv
<1> SUFFICES ASSUME NEW r \in Runs PROVE WorkMatches(r)'
  BY DEF WorkMatchesRow
<1>1. WorkMatches(r)
  BY DEF WorkMatchesRow
<1>2. CASE Step(r)
  BY <1>1, <1>2, OwnStepMatches
<1>3. CASE Crash
  BY <1>1, <1>3 DEF Crash, WorkMatches, dbVars
<1>4. CASE UNCHANGED OfRun(r) /\ (pc[r] \in {"queued", "lost"} \/ UNCHANGED OfScan(r[1]))
  BY <1>1, <1>4 DEF OfRun, OfScan, WorkMatches
<1>5. CASE RepositoryStep
  BY <1>1, <1>5, RepositoryKeeps DEF runVars, WorkMatches
<1> QED
  BY <1>2, <1>3, <1>4, <1>5, StepCases

LEMMA DeliveryNext ==
  ASSUME TypeOK, NoOverlap, DeliveryInv, [Next]_vars
  PROVE  DeliveryInv'
BY OrderNext, AtWorkNext, MatchesNext DEF DeliveryInv

\* Deliveries of a job never interleave, and the one under way finds its row in the
\* state it left it in.
THEOREM DeliveriesInOrder ==
  ASSUME NoOverlap
  PROVE  Spec => []DeliveryInv
<1>1. TypeOK /\ DeliveryInv /\ [Next]_vars => DeliveryInv'
  BY DeliveryNext
<1> QED
  BY <1>1, DeliveryInit, TypeCorrect, PTL DEF Spec
-------------------------------------------------------------------------------
(* Only a run that found the scan AUTHORIZED ever gets past its first move,   *)
(* and then the row never is AUTHORIZED again: one delivery clones and scans. *)

Moving == {"check", "update", "audit"}

\* The run has moved its row out of AUTHORIZED.
Owns(r) ==
  \/ pc[r] \in {"audit", "mkdir", "clone", "scan", "analyse", "write", "count", "score"}
  \/ pc[r] \in {"check", "update"} /\ target[r] # "PROVISIONING"

Untouched ==
  \A s \in Scans : state[s] = "AUTHORIZED" =>
    /\ CredentialChain \notin rows[s].of /\ SsrfChain \notin rows[s].of
    /\ incidents[s] = {} /\ logged[s] = {} /\ ~completedAt[s]
    /\ \A r \in RunsOf(s) : ~held[r]

OneClone == \A r, q \in Runs : Owns(r) /\ q[1] = r[1] /\ held[q] => q = r

LEMMA LeavesAuthorized ==
  ASSUME TypeOK, NEW r \in Runs, WorkMatches(r), ScannersAtWork, Step(r),
         state'[r[1]] = "AUTHORIZED"
  PROVE  state[r[1]] = "AUTHORIZED" /\ UNCHANGED <<rows, incidents, logged, completedAt, held>>
<1> USE RunOfScan DEF dbVars, Goto
<1>0. /\ pc \in [Runs -> PcValue] /\ target \in [Runs -> ScanState]
      /\ state \in [Scans -> ScanState] /\ r[1] \in Scans
  BY DEF TypeOK, DbTypeOK, RunTypeOK
<1>1. ~(\E m \in Modules : ModuleStep(r, m))
  <2>1. (\E m \in Modules : ModuleStep(r, m)) => UNCHANGED state /\ Active(r)
    BY DEF ModuleStep, ScannerReturns, SaveFinding, Active
  <2> QED
    BY <2>1 DEF ScannersAtWork
<1>2. CASE FaultStep(r)
  BY <1>2 DEF FaultStep, CloneFails, DatabaseFails, ModuleFails
<1>3. ~UpdateState(r)
  BY <1>0 DEF UpdateState, WorkMatches
<1>4. CASE Start(r) \/ CheckTransition(r) \/ Catch(r) \/ Cleanup(r) \/ Acknowledge(r)
  BY <1>0, <1>4 DEF Start, CheckTransition, Catch, Cleanup, Acknowledge, AwaitTransition
<1>5. CASE \/ MakeWorkspace(r) \/ CloneSucceeds(r) \/ AllModulesDone(r) \/ Analyse(r)
           \/ WriteRow(r) \/ EndAnalysis(r) \/ CountFindings(r) \/ StorePosture(r)
  BY <1>0, <1>5 DEF MakeWorkspace, CloneSucceeds, AllModulesDone, Analyse, WriteRow, EndAnalysis,
     CountFindings, StorePosture, AwaitTransition, WorkMatches
<1>6. CASE BeginProvisioning(r) \/ BeginScanning(r) \/ BeginAnalysis(r) \/ Complete(r)
  BY <1>0, <1>6 DEF BeginProvisioning, BeginScanning, BeginAnalysis, Complete, LogTransition,
     WorkMatches
<1> QED
  BY <1>1, <1>2, <1>3, <1>4, <1>5, <1>6 DEF Step, RunStep

(* What an upload or a clearing does to a scan.                               *)
LEMMA RepositoryRows ==
  ASSUME TypeOK, RepositoryStep, NEW s \in Scans
  PROVE  /\ \A c \in {CredentialChain, SsrfChain} : c \in rows'[s].of => c \in rows[s].of
         /\ \/ UNCHANGED <<rows[s], stale[s]>>
            \/ /\ "certificates" \in stale'[s] /\ "posture" \in stale'[s]
               /\ "chains" \notin stale'[s] =>
                    /\ "chains" \notin stale[s]
                    /\ \A c \in {CredentialChain, SsrfChain} :
                         c \in rows[s].of => c \in rows'[s].of
<1> USE DEF TypeOK, DbTypeOK
<1> DEFINE Chains == {CredentialChain, SsrfChain}
<1>1. ASSUME NEW x \in Scans, SaveUpload(x), x # s PROVE UNCHANGED <<rows[s], stale[s]>>
  BY <1>1 DEF SaveUpload
<1>2. ASSUME SaveUpload(s)
      PROVE  /\ \A c \in Chains : c \in rows'[s].of <=> c \in rows[s].of
             /\ stale'[s] = stale[s] \cup {"certificates", "posture"}
  <2>1. PICK k \in ScannerClass : rows' = [rows EXCEPT ![s] = WithRow(@, k)]
    BY <1>2 DEF SaveUpload
  <2>2. rows'[s].of = rows[s].of \cup {k}
    BY <2>1 DEF WithRow
  <2>3. k \notin Chains
    BY ChainAssumption
  <2> QED
    BY <1>2, <2>2, <2>3 DEF SaveUpload
<1>3. ASSUME NEW tenantScans, ClearFindings(tenantScans)
      PROVE  \/ UNCHANGED <<rows[s], stale[s]>>
             \/ rows'[s].of = {} /\ stale'[s] = Part
  BY <1>3 DEF ClearFindings
<1> QED
  BY <1>1, <1>2, <1>3 DEF RepositoryStep, Part

LEMMA UntouchedInit == Init => Untouched
BY DEF Init, Untouched, RunsOf

LEMMA UntouchedNext ==
  ASSUME TypeOK, DeliveryInv, Untouched, [Next]_vars
  PROVE  Untouched'
<1> USE DEF DeliveryInv
<1> SUFFICES ASSUME NEW s \in Scans, state'[s] = "AUTHORIZED"
             PROVE  /\ CredentialChain \notin rows'[s].of /\ SsrfChain \notin rows'[s].of
                    /\ incidents'[s] = {} /\ logged'[s] = {} /\ ~completedAt'[s]
                    /\ \A r \in RunsOf(s) : ~held'[r]
  BY DEF Untouched, RunsOf
<1>1. CASE UNCHANGED vars \/ \E c \in Clients : ClientStep(c)
  BY <1>1, QuietSteps DEF dbVars, runVars, Untouched
<1>2. CASE Crash
  BY <1>2 DEF Crash, dbVars, Untouched
<1>3. ASSUME NEW x \in Runs, Step(x), x[1] = s
      PROVE  state[s] = "AUTHORIZED" /\ UNCHANGED <<rows, incidents, logged, completedAt, held>>
  BY <1>3, LeavesAuthorized DEF WorkMatchesRow
<1>4. ASSUME NEW x \in Runs, Step(x), x[1] # s
      PROVE  UNCHANGED OfScan(s) /\ \A r \in RunsOf(s) : UNCHANGED OfRun(r)
  BY <1>4, StepsAreLocal DEF RunsOf
<1>5. CASE RepositoryStep
  BY <1>5, RepositoryKeeps, RepositoryRows DEF runVars, Untouched
<1> QED
  BY <1>1, <1>2, <1>3, <1>4, <1>5 DEF Next, Step, Untouched, OfScan, OfRun

LEMMA UntouchedHolds ==
  ASSUME NoOverlap
  PROVE  Spec => []Untouched
<1>1. TypeOK /\ DeliveryInv /\ Untouched /\ [Next]_vars => Untouched'
  BY UntouchedNext
<1> QED
  BY <1>1, UntouchedInit, TypeCorrect, DeliveriesInOrder, PTL DEF Spec

LEMMA OneCloneInit == Init => OneClone
BY DEF Init, OneClone, Owns

\* A run comes to own its row by updating it from AUTHORIZED.
LEMMA BecomesOwner ==
  ASSUME TypeOK, NEW r \in Runs, WorkMatches(r), ScannersAtWork, Step(r), Owns(r)'
  PROVE  Owns(r) \/ (UpdateState(r) /\ state[r[1]] = "AUTHORIZED")
<1> USE RunOfScan DEF dbVars, Goto
<1>0. /\ pc \in [Runs -> PcValue] /\ target \in [Runs -> ScanState]
      /\ state \in [Scans -> ScanState] /\ r[1] \in Scans
  BY DEF TypeOK, DbTypeOK, RunTypeOK
<1>1. CASE FaultStep(r) \/ \E m \in Modules : ModuleStep(r, m)
  BY <1>0, <1>1 DEF FaultStep, CloneFails, DatabaseFails, ModuleFails, ModuleStep, ScannerReturns,
     SaveFinding, Owns
<1>2. CASE Start(r) \/ CheckTransition(r) \/ Catch(r) \/ Cleanup(r) \/ Acknowledge(r)
  BY <1>0, <1>2 DEF Start, CheckTransition, Catch, Cleanup, Acknowledge, AwaitTransition, Owns
<1>3. CASE UpdateState(r)
  BY <1>0, <1>3, Transitions DEF UpdateState, Owns, WorkMatches, ScanState
<1> QED
  BY <1>1, <1>2, <1>3 DEF Step, RunStep, Owns, MakeWorkspace, CloneSucceeds, AllModulesDone, Analyse,
     WriteRow, EndAnalysis, CountFindings, StorePosture, BeginProvisioning, BeginScanning,
     BeginAnalysis, Complete, LogTransition

LEMMA OneCloneNext ==
  ASSUME TypeOK, NoOverlap, DeliveryInv, Untouched, OneClone, [Next]_vars
  PROVE  OneClone'
<1> USE DEF DeliveryInv
<1> SUFFICES ASSUME NEW r \in Runs, NEW q \in Runs, Owns(r)', q[1] = r[1], held'[q]
             PROVE  q = r
  BY DEF OneClone
<1>1. CASE UNCHANGED <<pc, target, held>>
  BY <1>1 DEF OneClone, Owns
<1>2. CASE Crash
  BY <1>2 DEF Crash, Owns
<1>3. CASE Step(r)
  <2>1. q # r => held[q]
    BY <1>3, StepsAreLocal DEF OfRun
  <2>2. Owns(r) \/ state[r[1]] = "AUTHORIZED"
    BY <1>3, BecomesOwner DEF WorkMatchesRow
  <2> QED
    BY <2>1, <2>2, RunOfScan DEF OneClone, Untouched, RunsOf
<1>4. ASSUME NEW x \in Runs, Step(x), x # r PROVE q = r
  <2>1. Owns(r)
    BY <1>4, StepsAreLocal DEF OfRun, Owns
  <2>2. x[1] # r[1]
    BY <1>4, <2>1, OneAtATime DEF Owns
  <2>3. held[q]
    BY <1>4, <2>2, StepsAreLocal DEF OfRun
  <2> QED
    BY <2>1, <2>3 DEF OneClone
<1> QED
  BY <1>1, <1>2, <1>3, <1>4, QuietSteps, RepositoryKeeps DEF Next, Step, runVars

\* The scanners of a scan run in one delivery of its job only.
THEOREM ScansOnce ==
  ASSUME NoOverlap
  PROVE  Spec => []ScannedOnce
<1>1. TypeOK /\ DeliveryInv /\ Untouched /\ OneClone /\ [Next]_vars => OneClone'
  BY OneCloneNext
<1>2. OneClone => ScannedOnce
  BY DEF OneClone, Owns, ScannedOnce, RunsOf
<1> QED
  BY <1>1, <1>2, OneCloneInit, UntouchedHolds, TypeCorrect, DeliveriesInOrder, PTL DEF Spec
-------------------------------------------------------------------------------
(* The workspace: held is set exactly while the clone is there for the run.   *)

Workspace(r) ==
  /\ held[r] => pc[r] \notin {"queued", "mkdir", "clone"}
  /\ pc[r] \in Moving => (held[r] <=> target[r] # "PROVISIONING")
  /\ pc[r] \in {"scan", "analyse", "write", "count", "score"} => held[r]
  /\ held[r] /\ pc[r] \notin {"done", "acked", "lost"} => workspace[r[1]] = "cloned"
  /\ pc[r] \in {"done", "acked"} /\ held[r] => workspace[r[1]] = "absent"

\* A run that left the scanning phase with a scanner at work stored its failure.
FailureStored(r) ==
  Active(r) /\ pc[r] \in {"cleanup", "done", "acked"} => state[r[1]] = "FAILED"

Workspaces == \A r \in Runs : Workspace(r) /\ FailureStored(r)

LEMMA WorkspacesInit == Init => Workspaces
BY DEF Init, Workspaces, Workspace, Moving, FailureStored

LEMMA OwnWorkspace ==
  ASSUME TypeOK, "rm" \notin Faults, NEW r \in Runs, WorkMatches(r), ScannersAtWork, Workspace(r),
         Step(r)
  PROVE  Workspace(r)'
<1> USE RunOfScan DEF dbVars, Goto, Moving
<1>0. /\ pc \in [Runs -> PcValue] /\ target \in [Runs -> ScanState]
      /\ held \in [Runs -> BOOLEAN] /\ r[1] \in Scans
      /\ workspace \in [Scans -> {"absent", "empty", "cloned"}]
  BY DEF TypeOK, RunTypeOK
<1>1. CASE FaultStep(r) \/ \E m \in Modules : ModuleStep(r, m)
  BY <1>0, <1>1 DEF FaultStep, CloneFails, DatabaseFails, ModuleFails, ModuleStep, ScannerReturns,
     SaveFinding, Workspace
<1>2. CASE Start(r)
  BY <1>0, <1>2 DEF Start, MayStart, AwaitTransition, Workspace
<1>3. CASE CheckTransition(r) \/ UpdateState(r)
  BY <1>0, <1>3 DEF CheckTransition, UpdateState, Workspace
<1>4. CASE BeginProvisioning(r) \/ BeginScanning(r)
  BY <1>0, <1>4 DEF BeginProvisioning, BeginScanning, LogTransition, Workspace
<1>5. CASE BeginAnalysis(r) \/ Complete(r)
  BY <1>0, <1>5 DEF BeginAnalysis, Complete, LogTransition, Workspace
<1>6. CASE MakeWorkspace(r) \/ CloneSucceeds(r)
  BY <1>0, <1>6 DEF MakeWorkspace, CloneSucceeds, AwaitTransition, Workspace
<1>7. CASE AllModulesDone(r) \/ EndAnalysis(r) \/ StorePosture(r)
  BY <1>0, <1>7 DEF AllModulesDone, EndAnalysis, StorePosture, AwaitTransition, Workspace
<1>8. CASE Analyse(r) \/ WriteRow(r) \/ CountFindings(r)
  BY <1>0, <1>8 DEF Analyse, WriteRow, CountFindings, Workspace
<1>9. CASE Catch(r) \/ Cleanup(r) \/ Acknowledge(r)
  BY <1>0, <1>9 DEF Catch, Cleanup, Acknowledge, Workspace
<1> QED
  BY <1>1, <1>2, <1>3, <1>4, <1>5, <1>6, <1>7, <1>8, <1>9 DEF Step, RunStep

LEMMA OwnFailure ==
  ASSUME TypeOK, "failed" \notin Faults, NEW r \in Runs, WorkMatches(r), ScannersAtWork,
         FailureStored(r), Step(r)
  PROVE  FailureStored(r)'
<1> USE RunOfScan DEF dbVars, Goto
<1>0. pc \in [Runs -> PcValue] /\ state \in [Scans -> ScanState] /\ r[1] \in Scans
  BY DEF TypeOK, DbTypeOK, RunTypeOK
<1> SUFFICES ASSUME Active(r)', pc'[r] \in {"cleanup", "done", "acked"}
             PROVE  state'[r[1]] = "FAILED"
  BY DEF FailureStored
<1>1. CASE \E m \in Modules : ModuleStep(r, m) \/ ModuleFails(r, m)
  <2>1. Active(r) /\ UNCHANGED state /\ pc'[r] = pc[r]
    BY <1>0, <1>1 DEF ModuleStep, ScannerReturns, SaveFinding, ModuleFails, Active
  <2> QED
    BY <2>1 DEF FailureStored
<1>2. CASE Catch(r)
  BY <1>0, <1>2 DEF Catch
<1>3. CASE Cleanup(r) \/ Acknowledge(r)
  BY <1>0, <1>3 DEF Cleanup, Acknowledge, FailureStored, Active
<1>4. ~Complete(r)
  <2>1. Complete(r) => ~Active(r) /\ UNCHANGED mods
    BY DEF Complete, LogTransition, ScannersAtWork
  <2> QED
    BY <2>1 DEF Active
<1>5. pc'[r] \notin {"cleanup", "done", "acked"}
         \/ Catch(r) \/ Cleanup(r) \/ Acknowledge(r) \/ Complete(r)
         \/ \E m \in Modules : ModuleStep(r, m) \/ ModuleFails(r, m)
  BY <1>0 DEF Step, RunStep, FaultStep, CloneFails, DatabaseFails, Start, CheckTransition, UpdateState,
     BeginProvisioning, BeginScanning, BeginAnalysis, MakeWorkspace, CloneSucceeds, AllModulesDone,
     EndAnalysis, StorePosture, Analyse, WriteRow, CountFindings, AwaitTransition, LogTransition
<1> QED
  BY <1>1, <1>2, <1>3, <1>4, <1>5

LEMMA WorkspacesNext ==
  ASSUME TypeOK, NoOverlap, "rm" \notin Faults, "failed" \notin Faults, DeliveryInv, Workspaces,
         [Next]_vars
  PROVE  Workspaces'
<1> USE DEF DeliveryInv
<1> SUFFICES ASSUME NEW r \in Runs PROVE Workspace(r)' /\ FailureStored(r)'
  BY DEF Workspaces
<1>1. Workspace(r) /\ FailureStored(r)
  BY DEF Workspaces
<1>2. CASE Step(r)
  BY <1>1, <1>2, OwnWorkspace, OwnFailure DEF WorkMatchesRow
<1>3. CASE Crash
  BY <1>1, <1>3 DEF Crash, Workspace, Moving, FailureStored, Active
<1>4. CASE UNCHANGED OfRun(r) /\ (pc[r] \in {"queued", "lost"} \/ UNCHANGED OfScan(r[1]))
  BY <1>1, <1>4 DEF OfRun, OfScan, Workspace, Moving, FailureStored, Active
<1>5. CASE RepositoryStep
  BY <1>1, <1>5, RepositoryKeeps DEF runVars, Workspace, Moving, FailureStored, Active
<1> QED
  BY <1>2, <1>3, <1>4, <1>5, StepCases

\* Scanners have a clone to work in, none outlives a run that goes on, and a run leaves
\* no clone behind, if rm works and FAILED is stored.
THEOREM RunsLeaveNothing ==
  ASSUME NoOverlap, "rm" \notin Faults, "failed" \notin Faults
  PROVE  Spec => []NothingOutlivesTheRun
<1>1. TypeOK /\ DeliveryInv /\ Workspaces /\ [Next]_vars => Workspaces'
  BY WorkspacesNext
<1>2. DeliveryInv /\ Workspaces => NothingOutlivesTheRun
  BY DEF DeliveryInv, ScannersAtWork, Workspaces, Workspace, FailureStored, Active,
     NothingOutlivesTheRun
<1> QED
  BY <1>1, <1>2, WorkspacesInit, TypeCorrect, DeliveriesInOrder, PTL DEF Spec
-------------------------------------------------------------------------------
(* The audit trail: while a run owns its row, the moves logged are those that *)
(* led to the state of the row, less the one it is about to log.              *)

Moves(n) == {<<Path[i], Path[i + 1]>> : i \in 1..n}

LoggedSoFar(r) ==
  /\ pc[r] = "audit" => \E n \in 0..4 : /\ logged[r[1]] = Moves(n)
                                        /\ from[r] = Path[n + 1] /\ target[r] = Path[n + 2]
  /\ pc[r] = "update" \/ (Owns(r) /\ pc[r] # "audit") =>
       \E n \in 0..5 : logged[r[1]] = Moves(n) /\ state[r[1]] = Path[n + 1]

AuditInv == AuditTrailHasNoGap /\ \A r \in Runs : LoggedSoFar(r)

LEMMA PathMoves ==
  ASSUME NEW n \in 0..5, NEW t, ValidTransition(Path[n + 1], t), t \notin {"FAILED", "ARCHIVED"}
  PROVE  n \in 0..4 /\ t = Path[n + 2]
<1>1. Path[n + 1] \in ScanState
  BY DEF Path, ScanState
<1>2. n = 0 \/ n = 1 \/ n = 2 \/ n = 3 \/ n = 4 \/ n = 5
  OBVIOUS
<1> QED
  BY <1>1, <1>2, Transitions DEF Path

LEMMA MovesGrow ==
  ASSUME NEW n \in 0..4
  PROVE  Moves(n + 1) = Moves(n) \cup {<<Path[n + 1], Path[n + 2]>>}
<1>1. ASSUME NEW move PROVE move \in Moves(n + 1) <=> \/ move \in Moves(n)
                                                     \/ move = <<Path[n + 1], Path[n + 2]>>
  <2>1. 1..(n + 1) = 1..n \cup {n + 1} /\ (n + 1) + 1 = n + 2
    OBVIOUS
  <2> QED
    BY <2>1 DEF Moves
<1> QED
  BY <1>1

LEMMA NoMoves == Moves(0) = {} /\ Path[1] = "AUTHORIZED"
BY DEF Moves, Path

LEMMA AuditInit == Init => AuditInv
<1> SUFFICES ASSUME Init PROVE AuditInv
  OBVIOUS
<1>1. \A s \in Scans : logged[s] = Moves(0) /\ state[s] = Path[0 + 1]
  BY NoMoves DEF Init
<1>2. AuditTrailHasNoGap
  BY <1>1 DEF AuditTrailHasNoGap, Moves
<1> QED
  BY <1>2 DEF Init, AuditInv, LoggedSoFar, Owns

\* The entry is written where the last move left off.
LEMMA OwnLog ==
  ASSUME TypeOK, "audit" \notin Faults, NEW r \in Runs, WorkMatches(r), LoggedSoFar(r),
         LogTransition(r), pc[r] = "audit"
  PROVE  UNCHANGED <<state, target, from>>
         /\ \E n \in 0..5 : logged'[r[1]] = Moves(n) /\ state[r[1]] = Path[n + 1]
<1>1. PICK n \in 0..4 : /\ logged[r[1]] = Moves(n)
                        /\ from[r] = Path[n + 1] /\ target[r] = Path[n + 2]
  BY DEF LoggedSoFar
<1>2. logged'[r[1]] = logged[r[1]] \cup {<<from[r], target[r]>>}
  BY RunOfScan DEF LogTransition, TypeOK, DbTypeOK
<1>3. logged'[r[1]] = Moves(n + 1) /\ n + 1 \in 0..5 /\ (n + 1) + 1 = n + 2
  BY <1>1, <1>2, MovesGrow
<1> QED
  BY <1>1, <1>3 DEF LogTransition, WorkMatches

LEMMA OwnLoggedSoFar ==
  ASSUME TypeOK, "audit" \notin Faults, NEW r \in Runs, WorkMatches(r), ScannersAtWork, Untouched,
         LoggedSoFar(r), Step(r)
  PROVE  LoggedSoFar(r)'
<1> USE RunOfScan DEF dbVars, Goto
<1>0. /\ pc \in [Runs -> PcValue] /\ target \in [Runs -> ScanState]
      /\ from \in [Runs -> ScanState] /\ state \in [Scans -> ScanState] /\ r[1] \in Scans
  BY DEF TypeOK, DbTypeOK, RunTypeOK
<1>1. CASE FaultStep(r) \/ \E m \in Modules : ModuleStep(r, m)
  BY <1>0, <1>1 DEF FaultStep, CloneFails, DatabaseFails, ModuleFails, ModuleStep, ScannerReturns,
     SaveFinding, LoggedSoFar, Owns
<1>2. CASE CheckTransition(r)
  <2>1. CASE pc'[r] = "update" /\ target[r] = "PROVISIONING"
    <3>1. state[r[1]] = "AUTHORIZED"
      BY <1>0, <1>2, <2>1, Transitions DEF CheckTransition
    <3>2. UNCHANGED <<logged, state>> /\ logged[r[1]] = {}
      BY <1>0, <1>2, <3>1 DEF CheckTransition, Untouched
    <3>3. logged'[r[1]] = Moves(0) /\ state'[r[1]] = Path[0 + 1] /\ 0 \in 0..5
      BY <3>1, <3>2, NoMoves
    <3> QED
      BY <2>1, <3>3 DEF LoggedSoFar
  <2>2. CASE pc'[r] # "update" \/ target[r] # "PROVISIONING"
    BY <1>0, <1>2, <2>2 DEF CheckTransition, LoggedSoFar, Owns
  <2> QED
    BY <2>1, <2>2
<1>3. CASE UpdateState(r)
  <2>1. PICK n \in 0..5 : logged[r[1]] = Moves(n) /\ state[r[1]] = Path[n + 1]
    BY <1>3 DEF UpdateState, LoggedSoFar
  <2>2. /\ ValidTransition(Path[n + 1], target[r]) /\ target[r] \notin {"FAILED", "ARCHIVED"}
        /\ from[r] = Path[n + 1]
    BY <1>3, <2>1 DEF UpdateState, WorkMatches
  <2>3. n \in 0..4 /\ target[r] = Path[n + 2]
    BY <2>2, PathMoves
  <2> QED
    BY <1>0, <1>3, <2>1, <2>2, <2>3 DEF UpdateState, LoggedSoFar, Owns
<1>4. CASE BeginProvisioning(r) \/ BeginScanning(r) \/ BeginAnalysis(r) \/ Complete(r)
  <2>1. pc[r] = "audit" /\ LogTransition(r)
    BY <1>4 DEF BeginProvisioning, BeginScanning, BeginAnalysis, Complete, LogTransition
  <2>2. pc'[r] # "audit"
    BY <1>0, <1>4 DEF BeginProvisioning, BeginScanning, BeginAnalysis, Complete
  <2> QED
    BY <2>1, <2>2, OwnLog DEF LoggedSoFar
<1>5. CASE MakeWorkspace(r) \/ CloneSucceeds(r) \/ AllModulesDone(r) \/ EndAnalysis(r)
  BY <1>0, <1>5 DEF MakeWorkspace, CloneSucceeds, AllModulesDone, EndAnalysis, AwaitTransition,
     LoggedSoFar, Owns
<1>6. CASE Analyse(r) \/ WriteRow(r) \/ CountFindings(r) \/ StorePosture(r)
  BY <1>0, <1>6 DEF Analyse, WriteRow, CountFindings, StorePosture, AwaitTransition, LoggedSoFar, Owns
<1>7. CASE Start(r) \/ Catch(r) \/ Cleanup(r) \/ Acknowledge(r)
  BY <1>0, <1>7 DEF Start, Catch, Cleanup, Acknowledge, AwaitTransition, LoggedSoFar, Owns
<1> QED
  BY <1>1, <1>2, <1>3, <1>4, <1>5, <1>6, <1>7 DEF Step, RunStep

LEMMA OwnTrail ==
  ASSUME TypeOK, "audit" \notin Faults, NEW r \in Runs, WorkMatches(r), LoggedSoFar(r), Step(r),
         NEW n \in 0..5, logged[r[1]] = Moves(n),
         state[r[1]] # "FAILED" => \/ state[r[1]] = Path[n + 1]
                                   \/ n < 5 /\ state[r[1]] = Path[n + 2]
  PROVE  \E k \in 0..5 :
           /\ logged'[r[1]] = Moves(k)
           /\ state'[r[1]] # "FAILED" => \/ state'[r[1]] = Path[k + 1]
                                         \/ k < 5 /\ state'[r[1]] = Path[k + 2]
<1> USE RunOfScan DEF dbVars, Goto
<1>0. state \in [Scans -> ScanState] /\ r[1] \in Scans
  BY DEF TypeOK, DbTypeOK
<1>1. CASE UpdateState(r)
  <2>1. PICK k \in 0..5 : logged[r[1]] = Moves(k) /\ state[r[1]] = Path[k + 1]
    BY <1>1 DEF UpdateState, LoggedSoFar
  <2>2. ValidTransition(Path[k + 1], target[r]) /\ target[r] \notin {"FAILED", "ARCHIVED"}
    BY <1>1, <2>1 DEF UpdateState, WorkMatches
  <2>3. k \in 0..4 /\ target[r] = Path[k + 2]
    BY <2>2, PathMoves
  <2> QED
    BY <1>0, <1>1, <2>1, <2>3 DEF UpdateState
<1>2. CASE BeginProvisioning(r) \/ BeginScanning(r) \/ BeginAnalysis(r) \/ Complete(r)
  <2>1. pc[r] = "audit" /\ LogTransition(r)
    BY <1>2 DEF BeginProvisioning, BeginScanning, BeginAnalysis, Complete, LogTransition
  <2> QED
    BY <2>1, OwnLog
<1>3. CASE Catch(r)
  BY <1>0, <1>3 DEF Catch
<1>4. \/ UNCHANGED <<state, logged>>
      \/ UpdateState(r) \/ Catch(r)
      \/ BeginProvisioning(r) \/ BeginScanning(r) \/ BeginAnalysis(r) \/ Complete(r)
  BY DEF Step, RunStep, FaultStep, CloneFails, DatabaseFails, ModuleFails, ModuleStep, ScannerReturns,
     SaveFinding, Start, CheckTransition, MakeWorkspace, CloneSucceeds, AllModulesDone, Analyse,
     WriteRow, EndAnalysis, CountFindings, StorePosture, Cleanup, Acknowledge
<1> QED
  BY <1>1, <1>2, <1>3, <1>4

LEMMA AuditNext ==
  ASSUME TypeOK, NoOverlap, "audit" \notin Faults, DeliveryInv, Untouched, AuditInv, [Next]_vars
  PROVE  AuditInv'
<1> USE DEF DeliveryInv, AuditInv
<1>1. ASSUME NEW r \in Runs PROVE LoggedSoFar(r)'
  <2>1. CASE Step(r)
    BY <2>1, OwnLoggedSoFar DEF WorkMatchesRow
  <2>2. CASE Crash
    BY <2>2 DEF Crash, LoggedSoFar, Owns
  <2>3. CASE UNCHANGED OfRun(r) /\ (pc[r] \in {"queued", "lost"} \/ UNCHANGED OfScan(r[1]))
    <3>1. LoggedSoFar(r)
      OBVIOUS
    <3> QED
      BY <2>3, <3>1 DEF OfRun, OfScan, LoggedSoFar, Owns
  <2>4. CASE RepositoryStep
    <3>1. LoggedSoFar(r)
      OBVIOUS
    <3> QED
      BY <2>4, <3>1, RepositoryKeeps DEF runVars, LoggedSoFar, Owns
  <2> QED
    BY <2>1, <2>2, <2>3, <2>4, StepCases
<1>2. ASSUME NEW s \in Scans
      PROVE  \E n \in 0..5 : /\ logged'[s] = Moves(n)
                             /\ state'[s] # "FAILED" => \/ state'[s] = Path[n + 1]
                                                        \/ n < 5 /\ state'[s] = Path[n + 2]
  <2>1. PICK n \in 0..5 : /\ logged[s] = Moves(n)
                          /\ state[s] # "FAILED" => \/ state[s] = Path[n + 1]
                                                    \/ n < 5 /\ state[s] = Path[n + 2]
    BY DEF AuditTrailHasNoGap, Moves
  <2>2. CASE UNCHANGED <<state[s], logged[s]>>
    BY <2>1, <2>2
  <2>3. ASSUME NEW x \in Runs, Step(x), x[1] = s
        PROVE  \E k \in 0..5 : /\ logged'[s] = Moves(k)
                               /\ state'[s] # "FAILED" => \/ state'[s] = Path[k + 1]
                                                          \/ k < 5 /\ state'[s] = Path[k + 2]
    BY <2>1, <2>3, OwnTrail DEF WorkMatchesRow
  <2>4. ASSUME NEW x \in Runs, Step(x), x[1] # s PROVE UNCHANGED <<state[s], logged[s]>>
    BY <2>4, StepsAreLocal DEF OfScan
  <2>5. UNCHANGED vars \/ Crash \/ RepositoryStep \/ (\E c \in Clients : ClientStep(c))
          => UNCHANGED <<state[s], logged[s]>>
    BY QuietSteps, RepositoryKeeps DEF Crash, dbVars
  <2> QED
    BY <2>2, <2>3, <2>4, <2>5 DEF Next, Step
<1> QED
  BY <1>1, <1>2 DEF AuditTrailHasNoGap, Moves

\* The audit trail of a scan has no gap, if its entries are stored.
THEOREM AuditTrailsHaveNoGap ==
  ASSUME NoOverlap, "audit" \notin Faults
  PROVE  Spec => []AuditTrailHasNoGap
<1>1. TypeOK /\ DeliveryInv /\ Untouched /\ AuditInv /\ [Next]_vars => AuditInv'
  BY AuditNext
<1>2. AuditInv => AuditTrailHasNoGap
  BY DEF AuditInv
<1> QED
  BY <1>1, <1>2, AuditInit, UntouchedHolds, TypeCorrect, DeliveriesInOrder, PTL DEF Spec
-------------------------------------------------------------------------------
(* Once a scan has been COMPLETE, its runs are done with its report: those    *)
(* yet to come end in the catch block, and no scanner of any is at work.      *)

DoneWith(r) ==
  /\ ~Active(r)
  /\ \/ pc[r] \in {"queued", "catch", "cleanup", "done", "acked", "lost"}
     \/ pc[r] = "check" /\ target[r] = "PROVISIONING"
     \/ pc[r] = "audit" /\ target[r] = "COMPLETE"

FrozenInv ==
  \A s \in Scans : completedAt[s] => /\ state[s] \in {"COMPLETE", "FAILED"}
                                     /\ \A r \in RunsOf(s) : DoneWith(r)

LEMMA FrozenInit == Init => FrozenInv
BY DEF Init, FrozenInv

\* A run that is done with its scan stays so, and touches nothing of the report.
LEMMA OwnFrozen ==
  ASSUME TypeOK, NEW r \in Runs, DoneWith(r), state[r[1]] \in {"COMPLETE", "FAILED"},
         Step(r)
  PROVE  /\ DoneWith(r)' /\ state'[r[1]] \in {"COMPLETE", "FAILED"}
         /\ UNCHANGED <<completedAt, rows, certs, incidents, posture>>
<1> USE RunOfScan DEF dbVars, Goto
<1>0. /\ pc \in [Runs -> PcValue] /\ target \in [Runs -> ScanState]
      /\ state \in [Scans -> ScanState] /\ r[1] \in Scans
      /\ \A m \in Modules : mods[r][m] \notin {"running", "saving"}
  BY DEF TypeOK, DbTypeOK, RunTypeOK, DoneWith, Active
<1>1. CASE FaultStep(r) \/ \E m \in Modules : ModuleStep(r, m)
  <2>1. CloneFails(r) \/ DatabaseFails(r)
    BY <1>0, <1>1 DEF FaultStep, ModuleFails, ModuleStep, ScannerReturns, SaveFinding
  <2> QED
    BY <1>0, <2>1 DEF CloneFails, DatabaseFails, DoneWith, Active
<1>2. CASE Start(r)
  BY <1>0, <1>2 DEF Start, AwaitTransition, DoneWith, Active
<1>3. CASE CheckTransition(r)
  BY <1>0, <1>3, Transitions DEF CheckTransition, DoneWith, Active
<1>4. CASE Complete(r) \/ Catch(r)
  BY <1>0, <1>4 DEF Complete, LogTransition, Catch, DoneWith, Active
<1>5. CASE Cleanup(r) \/ Acknowledge(r)
  BY <1>0, <1>5 DEF Cleanup, Acknowledge, DoneWith, Active
<1> QED
  BY <1>1, <1>2, <1>3, <1>4, <1>5 DEF Step, RunStep, DoneWith, UpdateState, BeginProvisioning,
     MakeWorkspace, CloneSucceeds, BeginScanning, AllModulesDone, BeginAnalysis, Analyse, WriteRow,
     EndAnalysis, CountFindings, StorePosture, LogTransition

\* completedAt is set when every other delivery is lost or yet to come.
LEMMA BecomesFrozen ==
  ASSUME TypeOK, NoOverlap, DeliveryInv, NEW r \in Runs, UpdateState(r), target[r] = "COMPLETE",
         NEW q \in Runs, q[1] = r[1]
  PROVE  DoneWith(q)'
<1> USE RunOfScan DEF TypeOK, RunTypeOK, DeliveryInv
<1>1. pc' = [pc EXCEPT ![r] = "audit"] /\ UNCHANGED <<mods, target>> /\ pc[r] = "update"
  BY DEF UpdateState, Goto
<1>2. CASE q = r
  BY <1>1, <1>2 DEF ScannersAtWork, DoneWith, Active
<1>3. CASE q # r
  <2>1. /\ r = <<r[1], r[2]>> /\ q = <<r[1], q[2]>> /\ r[2] \in 1..MaxDeliveries
        /\ q[2] \in 1..MaxDeliveries /\ MaxDeliveries \in Nat
    BY BoundAssumption DEF Runs
  <2>2. r[2] # q[2]
    BY <1>3, <2>1, Zenon
  <2>3. q[2] < r[2] \/ r[2] < q[2]
    BY <2>1, <2>2
  <2>4. pc[q] \in {"queued", "lost"}
    BY <1>1, <2>3 DEF InOrder
  <2> QED
    BY <1>1, <1>3, <2>4 DEF ScannersAtWork, DoneWith, Active
<1> QED
  BY <1>2, <1>3

LEMMA CompletedBy ==
  ASSUME TypeOK, NEW r \in Runs, Step(r), ~completedAt[r[1]], completedAt'[r[1]]
  PROVE  UpdateState(r) /\ target[r] = "COMPLETE" /\ state'[r[1]] = "COMPLETE"
<1>1. completedAt' # completedAt
  OBVIOUS
<1>2. UpdateState(r)
  BY <1>1 DEF Step, RunStep, FaultStep, CloneFails, DatabaseFails, ModuleFails, ModuleStep,
     ScannerReturns, SaveFinding, Start, CheckTransition, BeginProvisioning, BeginScanning,
     BeginAnalysis, Complete, MakeWorkspace, CloneSucceeds, AllModulesDone, Analyse, WriteRow,
     EndAnalysis, CountFindings, StorePosture, Catch, Cleanup, Acknowledge, LogTransition, dbVars
<1> QED
  BY <1>2, RunOfScan DEF UpdateState, TypeOK, DbTypeOK

LEMMA FrozenNext ==
  ASSUME TypeOK, NoOverlap, DeliveryInv, FrozenInv, [Next]_vars
  PROVE  FrozenInv'
<1> SUFFICES ASSUME NEW s \in Scans, completedAt'[s]
             PROVE  /\ state'[s] \in {"COMPLETE", "FAILED"}
                    /\ \A r \in RunsOf(s) : DoneWith(r)'
  BY DEF FrozenInv, RunsOf
<1>1. CASE UNCHANGED vars \/ \E c \in Clients : ClientStep(c)
  BY <1>1, QuietSteps DEF dbVars, runVars, FrozenInv, DoneWith, Active
<1>6. CASE RepositoryStep
  BY <1>6, RepositoryKeeps DEF runVars, FrozenInv, DoneWith, Active
<1>2. CASE Crash
  BY <1>2 DEF Crash, dbVars, FrozenInv, DoneWith, Active, RunsOf
<1>3. ASSUME NEW x \in Runs, Step(x), x[1] = s, completedAt[s]
      PROVE  /\ state'[s] \in {"COMPLETE", "FAILED"}
             /\ \A r \in RunsOf(s) : DoneWith(r)'
  <2>1. DoneWith(x)' /\ state'[s] \in {"COMPLETE", "FAILED"}
    BY <1>3, OwnFrozen DEF FrozenInv, RunsOf
  <2>2. \A r \in RunsOf(s) : r # x => UNCHANGED OfRun(r)
    BY <1>3, StepsAreLocal DEF RunsOf
  <2> QED
    BY <1>3, <2>1, <2>2 DEF FrozenInv, RunsOf, OfRun, DoneWith, Active
<1>4. ASSUME NEW x \in Runs, Step(x), x[1] = s, ~completedAt[s]
      PROVE  /\ state'[s] \in {"COMPLETE", "FAILED"}
             /\ \A r \in RunsOf(s) : DoneWith(r)'
  <2>1. UpdateState(x) /\ target[x] = "COMPLETE" /\ state'[s] = "COMPLETE"
    BY <1>4, CompletedBy
  <2> QED
    BY <1>4, <2>1, BecomesFrozen DEF RunsOf
<1>5. ASSUME NEW x \in Runs, Step(x), x[1] # s
      PROVE  /\ state'[s] \in {"COMPLETE", "FAILED"}
             /\ \A r \in RunsOf(s) : DoneWith(r)'
  <2>1. UNCHANGED <<state[s], completedAt[s]>>
    BY <1>5, StepsAreLocal DEF OfScan
  <2>2. \A r \in RunsOf(s) : UNCHANGED <<pc[r], target[r], mods[r]>>
    BY <1>5, StepsAreLocal DEF RunsOf, OfRun
  <2> QED
    BY <2>1, <2>2 DEF FrozenInv, RunsOf, DoneWith, Active
<1> QED
  BY <1>1, <1>2, <1>3, <1>4, <1>5, <1>6 DEF Next, Step

LEMMA FrozenStep ==
  ASSUME TypeOK, FrozenInv, [Next]_vars, NEW s \in Scans, completedAt[s]
  PROVE  /\ UNCHANGED <<certs[s], incidents[s], posture[s]>>
         /\ rows'[s] # rows[s] => outside' # outside
<1>1. UNCHANGED vars \/ Crash \/ (\E c \in Clients : ClientStep(c))
        => UNCHANGED <<rows[s], certs[s], incidents[s], posture[s]>>
  BY QuietSteps DEF Crash, dbVars
<1>2. ASSUME NEW x \in Runs, Step(x) PROVE UNCHANGED <<rows[s], certs[s], incidents[s], posture[s]>>
  <2>1. CASE x[1] = s
    BY <1>2, <2>1, OwnFrozen DEF FrozenInv, RunsOf
  <2>2. CASE x[1] # s
    BY <1>2, <2>2, StepsAreLocal DEF OfScan
  <2> QED
    BY <2>1, <2>2
<1>3. CASE RepositoryStep
  <2>1. outside \in Nat /\ outside' = outside + 1
    BY <1>3 DEF TypeOK, DbTypeOK, RepositoryStep, SaveUpload, ClearFindings
  <2> QED
    BY <1>3, <2>1, RepositoryKeeps
<1> QED
  BY <1>1, <1>2, <1>3 DEF Next, Step

\* No run changes the report of a scan that was COMPLETE, however often its job is
\* delivered again: its findings come and go by uploads and clearings only, and those
\* change nothing else of it.
THEOREM ReportsFrozen ==
  ASSUME NoOverlap
  PROVE  Spec => ReportFrozen
<1>1. TypeOK /\ DeliveryInv /\ FrozenInv /\ [Next]_vars => FrozenInv'
  BY FrozenNext
<1>2. TypeOK /\ FrozenInv /\ [Next]_vars
        => [\A s \in Scans : completedAt[s] =>
              /\ UNCHANGED <<certs[s], incidents[s], posture[s]>>
              /\ rows'[s] # rows[s] => outside' # outside]_vars
  BY FrozenStep
<1> QED
  BY <1>1, <1>2, FrozenInit, TypeCorrect, DeliveriesInOrder, PTL DEF Spec, ReportFrozen
-------------------------------------------------------------------------------
(* What a run leaves behind: the report of a COMPLETE scan, and what the     *)
(* clients of its stream were told                                            *)

(* The rows the correlator creates, in the order it creates them.             *)
F1 == <<"finding", CredentialChain, "OPEN">>
I1 == <<"incident", "CASCADING_ATTACK_CHAIN", "OPEN">>
F2 == <<"finding", SsrfChain, "OPEN">>
I2 == <<"incident", "SSRF_CLOUDMETADATA_LEAK", "OPEN">>

\* A chain and its incident go together, unless findings were cleared since.
Kept(s, c) == "chains" \notin stale[s] => c \in rows[s].of
Credential(s) ==
  /\ CredentialChain \in rows[s].of => "CASCADING_ATTACK_CHAIN" \in incidents[s]
  /\ "CASCADING_ATTACK_CHAIN" \in incidents[s] => Kept(s, CredentialChain)
Ssrf(s) ==
  /\ SsrfChain \in rows[s].of => "SSRF_CLOUDMETADATA_LEAK" \in incidents[s]
  /\ "SSRF_CLOUDMETADATA_LEAK" \in incidents[s] => Kept(s, SsrfChain)
NoSsrf(s) == SsrfChain \notin rows[s].of /\ "SSRF_CLOUDMETADATA_LEAK" \notin incidents[s]
NoChains(s) == /\ CredentialChain \notin rows[s].of /\ "CASCADING_ATTACK_CHAIN" \notin incidents[s]
               /\ NoSsrf(s)

\* What is there already when the rows of t are still to be created.
PendingChains(s, t) ==
  \/ t \in {<<F1, I1, F2, I2>>, <<F1, I1>>} /\ NoChains(s)
  \/ /\ t \in {<<I1, F2, I2>>, <<I1>>} /\ NoSsrf(s)
     /\ Kept(s, CredentialChain) /\ "CASCADING_ATTACK_CHAIN" \notin incidents[s]
  \/ t = <<F2, I2>> /\ Credential(s) /\ NoSsrf(s)
  \/ /\ t = <<I2>> /\ Credential(s)
     /\ Kept(s, SsrfChain) /\ "SSRF_CLOUDMETADATA_LEAK" \notin incidents[s]
  \/ t = <<>> /\ Credential(s) /\ Ssrf(s)

Cert(s, d) == <<"certificate", d, Verdict(d, rows[s])>>
Certified(s) == "certificates" \notin stale[s] =>
                  \A d \in StandardSet : certs[s][d] = Verdict(d, rows[s])
Scored(s, n) == "posture" \notin stale[s] => n = PostureOf(rows[s].n)

\* Each certificate is there or in t, and t holds nothing else.
PendingFresh(s, t) ==
  /\ \A j \in 1..Len(t) : \E d \in StandardSet : t[j] = Cert(s, d)
  /\ \A d \in StandardSet : \/ certs[s][d] = Verdict(d, rows[s])
                            \/ \E j \in 1..Len(t) : t[j] = Cert(s, d)
\* If nobody has changed the findings since they were read.
PendingCerts(s, t) ==
  /\ \A j \in 1..Len(t) : t[j][1] = "certificate"
  /\ "certificates" \notin stale[s] => PendingFresh(s, t)

(* What a run under way knows of the report it is making.                     *)
BeforeChains(r) ==
  \/ pc[r] \in {"mkdir", "clone", "scan"}
  \/ pc[r] \in {"update", "audit"} /\ target[r] = "PROVISIONING"
  \/ pc[r] \in Moving /\ target[r] \in {"SCANNING", "CORRELATING"}
  \/ pc[r] = "analyse" /\ target[r] = "CORRELATING"
AfterChains(r) ==
  \/ pc[r] \in Moving /\ target[r] \in {"REPORTING", "COMPLETE"}
  \/ pc[r] \in {"analyse", "write"} /\ target[r] = "REPORTING"
  \/ pc[r] \in {"count", "score"}
Completing(r) == pc[r] \in Moving /\ target[r] = "COMPLETE"

ReportSoFar(r) ==
  /\ BeforeChains(r) => NoChains(r[1])
  /\ pc[r] = "write" /\ target[r] = "CORRELATING" => PendingChains(r[1], todo[r])
  /\ AfterChains(r) => Credential(r[1]) /\ Ssrf(r[1])
  /\ pc[r] = "write" /\ target[r] = "REPORTING" => PendingCerts(r[1], todo[r])
  /\ pc[r] \in {"count", "score"} \/ Completing(r) => Certified(r[1])
  /\ pc[r] = "score" => Scored(r[1], score[r])
  /\ Completing(r) => Scored(r[1], posture[r[1]])

Reported(s) ==
  Scored(s, posture[s]) /\ Certified(s) /\ Credential(s) /\ Ssrf(s)

ReportInv == /\ \A r \in Runs : ReportSoFar(r)
             /\ \A s \in Scans : state[s] = "COMPLETE" => Reported(s)
-------------------------------------------------------------------------------
(* The lists of rows to create.                                               *)

LEMMA ShortConcats ==
  ASSUME NEW a, NEW b, NEW c, NEW d
  PROVE  /\ <<a, b>> \o <<c, d>> = <<a, b, c, d>>
         /\ <<a, b>> \o <<>> = <<a, b>> /\ <<>> \o <<c, d>> = <<c, d>> /\ <<>> \o <<>> = <<>>
<1> DEFINE S == {a, b, c, d}
           x == <<a, b>>
           y == <<c, d>>
           z == <<a, b, c, d>>
<1>1. x \in Seq(S) /\ y \in Seq(S) /\ z \in Seq(S)
  OBVIOUS
<1>2. Len(x) = 2 /\ Len(y) = 2 /\ Len(z) = 4
  OBVIOUS
<1>3. \A i \in 1..4 : z[i] = IF i <= 2 THEN x[i] ELSE y[i - 2]
  <2>1. \A i \in 1..4 : i = 1 \/ i = 2 \/ i = 3 \/ i = 4
    OBVIOUS
  <2> QED
    BY <2>1
<1> HIDE DEF S, x, y, z
<1>4. /\ x \o y \in Seq(S) /\ Len(x \o y) = 4
      /\ \A i \in 1..4 : (x \o y)[i] = IF i <= 2 THEN x[i] ELSE y[i - 2]
  <2>1. /\ x \o y \in Seq(S) /\ Len(x \o y) = Len(x) + Len(y)
        /\ \A i \in 1..(Len(x) + Len(y)) : (x \o y)[i] = IF i <= Len(x) THEN x[i] ELSE y[i - Len(x)]
    BY <1>1, ConcatProperties
  <2>2. Len(x) + Len(y) = 4
    BY <1>2
  <2> QED
    BY <1>2, <2>1, <2>2
<1>5. x \o y = z
  BY <1>1, <1>2, <1>3, <1>4, SeqEqual
<1>6. x \o <<>> = x /\ <<>> \o y = y
  BY <1>1, ConcatEmptySeq
<1>7. <<>> \in Seq(S) /\ <<>> \o <<>> = <<>>
  BY EmptySeq, ConcatEmptySeq
<1> QED
  BY <1>5, <1>6, <1>7 DEF x, y, z

LEMMA ChainShapes ==
  ASSUME NEW found
  PROVE  ChainWrites(found) \in {<<F1, I1, F2, I2>>, <<F1, I1>>, <<F2, I2>>, <<>>}
<1>1. /\ Chain(CredentialChain, "CASCADING_ATTACK_CHAIN") = <<F1, I1>>
      /\ Chain(SsrfChain, "SSRF_CLOUDMETADATA_LEAK") = <<F2, I2>>
  BY DEF Chain, F1, I1, F2, I2
<1> DEFINE c == Has(found, SecretClass) /\ Has(found, RouteClass)
           d == Has(found, SecretClass) /\ Has(found, SsrfClass \cup {SsrfChain})
<1>2. ChainWrites(found) = (IF c THEN <<F1, I1>> ELSE <<>>) \o (IF d THEN <<F2, I2>> ELSE <<>>)
  BY <1>1 DEF ChainWrites
<1> HIDE DEF c, d
<1>3. /\ <<F1, I1>> \o <<F2, I2>> = <<F1, I1, F2, I2>>
      /\ <<F1, I1>> \o <<>> = <<F1, I1>> /\ <<>> \o <<F2, I2>> = <<F2, I2>> /\ <<>> \o <<>> = <<>>
  BY ShortConcats
<1> QED
  BY <1>2, <1>3

LEMMA ShortTails ==
  ASSUME NEW a, NEW b, NEW c, NEW d
  PROVE  /\ Head(<<a, b, c, d>>) = a /\ Tail(<<a, b, c, d>>) = <<b, c, d>>
         /\ Head(<<a, b, c>>) = a /\ Tail(<<a, b, c>>) = <<b, c>>
         /\ Head(<<a, b>>) = a /\ Tail(<<a, b>>) = <<b>>
         /\ Head(<<a>>) = a /\ Tail(<<a>>) = <<>>
         /\ <<a, b, c, d>> # <<>> /\ <<a, b, c>> # <<>> /\ <<a, b>> # <<>> /\ <<a>> # <<>>
OBVIOUS

LEMMA FreshCertificates ==
  ASSUME NEW s
  PROVE  /\ PendingFresh(s, CertificateWrites(rows[s]))
         /\ PendingCerts(s, CertificateWrites(rows[s]))
<1> DEFINE t == CertificateWrites(rows[s])
<1>1. Len(t) = Len(Standards)
  BY DEF CertificateWrites
<1>2. \A j \in 1..Len(Standards) : t[j] = Cert(s, Standards[j]) /\ Standards[j] \in StandardSet
  BY DEF CertificateWrites, Cert, StandardSet
<1>3. \A d \in StandardSet : \E j \in 1..Len(Standards) : d = Standards[j]
  BY DEF StandardSet
<1>4. \A j \in 1..Len(t) : t[j][1] = "certificate"
  BY <1>1, <1>2 DEF Cert
<1> QED
  BY <1>1, <1>2, <1>3, <1>4 DEF PendingCerts, PendingFresh

\* One row of an attack chain is written.
LEMMA WriteChainRow ==
  ASSUME TypeOK, NEW r \in Runs, WriteRow(r), PendingChains(r[1], todo[r])
  PROVE  PendingChains(r[1], todo[r])'
<1> DEFINE s == r[1]
           t == todo[r]
           w == Head(t)
<1>1. s \in Scans /\ todo'[r] = Tail(t) /\ t # <<>>
  BY RunOfScan DEF WriteRow, TypeOK, RunTypeOK
<1>2. rows'[s].of = IF w[1] = "finding" THEN rows[s].of \cup {w[2]} ELSE rows[s].of
  BY <1>1 DEF WriteRow, WithRow, TypeOK, DbTypeOK
<1>3. incidents'[s] = IF w[1] = "incident" THEN incidents[s] \cup {w[2]} ELSE incidents[s]
  BY <1>1 DEF WriteRow, TypeOK, DbTypeOK
<1>4. /\ CredentialChain # SsrfChain /\ "CASCADING_ATTACK_CHAIN" # "SSRF_CLOUDMETADATA_LEAK"
      /\ F1[1] = "finding" /\ F1[2] = CredentialChain /\ F2[1] = "finding" /\ F2[2] = SsrfChain
      /\ I1[1] = "incident" /\ I1[2] = "CASCADING_ATTACK_CHAIN"
      /\ I2[1] = "incident" /\ I2[2] = "SSRF_CLOUDMETADATA_LEAK"
  BY DEF F1, I1, F2, I2, CredentialChain, SsrfChain
<1>5. /\ Head(<<F1, I1, F2, I2>>) = F1 /\ Tail(<<F1, I1, F2, I2>>) = <<I1, F2, I2>>
      /\ Head(<<F1, I1>>) = F1 /\ Tail(<<F1, I1>>) = <<I1>>
      /\ Head(<<I1, F2, I2>>) = I1 /\ Tail(<<I1, F2, I2>>) = <<F2, I2>>
      /\ Head(<<I1>>) = I1 /\ Tail(<<I1>>) = <<>>
  BY ShortTails
<1>10. UNCHANGED stale
  BY DEF WriteRow
<1> USE <1>10 DEF PendingChains, NoChains, NoSsrf, Credential, Ssrf, Kept
<1> HIDE DEF w
<1>6. CASE t \in {<<F1, I1, F2, I2>>, <<F1, I1>>} /\ NoChains(s)
  <2>1. w = F1 /\ todo'[r] \in {<<I1, F2, I2>>, <<I1>>}
    BY <1>1, <1>6, <1>5 DEF w
  <2> QED
    BY <1>2, <1>3, <1>4, <1>6, <2>1
<1>7. CASE /\ t \in {<<I1, F2, I2>>, <<I1>>} /\ NoSsrf(s)
           /\ Kept(s, CredentialChain) /\ "CASCADING_ATTACK_CHAIN" \notin incidents[s]
  <2>1. w = I1 /\ todo'[r] \in {<<F2, I2>>, <<>>}
    BY <1>1, <1>7, <1>5 DEF w
  <2> QED
    BY <1>2, <1>3, <1>4, <1>7, <2>1
<1>8. CASE t = <<F2, I2>> /\ Credential(s) /\ NoSsrf(s)
  <2>1. w = F2 /\ todo'[r] = <<I2>>
    BY <1>1, <1>8, ShortTails DEF w
  <2> QED
    BY <1>2, <1>3, <1>4, <1>8, <2>1
<1>9. CASE /\ t = <<I2>> /\ Credential(s)
           /\ Kept(s, SsrfChain) /\ "SSRF_CLOUDMETADATA_LEAK" \notin incidents[s]
  <2>1. w = I2 /\ todo'[r] = <<>>
    BY <1>1, <1>9, ShortTails DEF w
  <2> QED
    BY <1>2, <1>3, <1>4, <1>9, <2>1
<1> QED
  BY <1>1, <1>6, <1>7, <1>8, <1>9

\* One certificate is written: the rest stay pending, and no finding changes.
LEMMA WriteCertRow ==
  ASSUME TypeOK, NEW r \in Runs, WriteRow(r), PendingCerts(r[1], todo[r])
  PROVE  /\ PendingCerts(r[1], todo[r])'
         /\ UNCHANGED <<rows, incidents, stale>>
<1> DEFINE s == r[1]
           t == todo[r]
<1>1. /\ s \in Scans /\ todo'[r] = Tail(t) /\ t # <<>> /\ t \in Seq(Write)
  BY RunOfScan DEF WriteRow, TypeOK, RunTypeOK
<1>2. /\ Head(t) = t[1] /\ Len(t) \in Nat /\ 1 \in 1..Len(t)
      /\ Len(Tail(t)) = Len(t) - 1 /\ \A i \in 1..(Len(t) - 1) : Tail(t)[i] = t[i + 1]
  BY <1>1, HeadTailProperties
<1>3. Head(t)[1] = "certificate" /\ UNCHANGED <<rows, incidents, stale>>
  <2>1. Head(t)[1] = "certificate"
    BY <1>2 DEF PendingCerts
  <2> QED
    BY <2>1 DEF WriteRow
<1>4. \A j \in 1..Len(todo'[r]) : todo'[r][j][1] = "certificate"
  BY <1>1, <1>2 DEF PendingCerts
<1>5. ASSUME "certificates" \notin stale[s] PROVE PendingFresh(s, todo[r])'
  <2>1. PICK d0 \in StandardSet : t[1] = Cert(s, d0)
    BY <1>2, <1>5 DEF PendingCerts, PendingFresh
  <2>2. certs' = [certs EXCEPT ![s][d0] = Verdict(d0, rows[s])]
    <3> DEFINE v == Verdict(d0, rows[s])
    <3>1. Head(t) = <<"certificate", d0, v>>
      BY <1>2, <2>1 DEF Cert
    <3> HIDE DEF v
    <3>2. Head(t)[1] = "certificate" /\ Head(t)[2] = d0 /\ Head(t)[3] = v
      BY <3>1
    <3>3. certs' = [certs EXCEPT ![s][d0] = v]
      BY <3>2 DEF WriteRow
    <3> QED
      BY <3>3 DEF v
  <2>3. \A d \in StandardSet :
          /\ Cert(s, d)' = Cert(s, d) /\ Verdict(d, rows'[s]) = Verdict(d, rows[s])
          /\ certs'[s][d] = IF d = d0 THEN Verdict(d, rows[s]) ELSE certs[s][d]
    BY <1>1, <1>3, <2>2 DEF Cert, TypeOK, DbTypeOK
  <2>4. \A d, e \in StandardSet : Cert(s, d) = Cert(s, e) => d = e
    BY DEF Cert
  <2>5. ASSUME NEW j \in 1..Len(todo'[r])
        PROVE  \E d \in StandardSet : todo'[r][j] = Cert(s, d)'
    <3>1. j + 1 \in 1..Len(t) /\ todo'[r][j] = t[j + 1]
      BY <1>1, <1>2
    <3> QED
      BY <1>5, <2>3, <3>1 DEF PendingCerts, PendingFresh
  <2>6. ASSUME NEW d \in StandardSet
        PROVE  \/ certs'[s][d] = Verdict(d, rows'[s])
               \/ \E j \in 1..Len(todo'[r]) : todo'[r][j] = Cert(s, d)'
    <3>1. CASE d = d0 \/ certs[s][d] = Verdict(d, rows[s])
      BY <2>3, <3>1
    <3>2. CASE d # d0 /\ certs[s][d] # Verdict(d, rows[s])
      <4>1. PICK j \in 1..Len(t) : t[j] = Cert(s, d)
        BY <1>5, <3>2 DEF PendingCerts, PendingFresh
      <4>2. j # 1
        BY <2>1, <2>4, <3>2, <4>1
      <4>3. j - 1 \in 1..Len(todo'[r]) /\ todo'[r][j - 1] = t[j]
        BY <1>1, <1>2, <4>1, <4>2
      <4> QED
        BY <2>3, <4>1, <4>3
    <3> QED
      BY <3>1, <3>2
  <2> QED
    BY <2>5, <2>6 DEF PendingFresh
<1> QED
  BY <1>3, <1>4, <1>5 DEF PendingCerts
-------------------------------------------------------------------------------
(* ReportInv is inductive, given how deliveries and rows go together.         *)

LEMMA ReportInit == Init => ReportInv
BY DEF Init, ReportInv, ReportSoFar, BeforeChains, AfterChains, Completing, Moving

\* A finding of a scanner is no part of an attack chain.
LEMMA SavedRow ==
  ASSUME TypeOK, NEW r \in Runs, NEW m \in Modules, SaveFinding(r, m), NoChains(r[1])
  PROVE  NoChains(r[1])'
<1>1. PICK c \in ScannerClass : rows' = [rows EXCEPT ![r[1]] = WithRow(@, c)]
  BY DEF SaveFinding
<1>2. rows'[r[1]].of = rows[r[1]].of \cup {c} /\ UNCHANGED incidents
  BY <1>1, RunOfScan DEF WithRow, SaveFinding, TypeOK, DbTypeOK
<1>3. c # CredentialChain /\ c # SsrfChain
  BY ChainAssumption
<1> QED
  BY <1>2, <1>3 DEF NoChains, NoSsrf

\* What a step that leaves the report alone may do to its run.
LEMMA QuietReport ==
  ASSUME NEW r \in Runs, ReportSoFar(r),
         UNCHANGED <<rows, certs, incidents, posture, stale, score, todo>>,
         BeforeChains(r)' => BeforeChains(r), AfterChains(r)' => AfterChains(r),
         Completing(r)' => Completing(r),
         pc'[r] \in {"write", "count", "score"} => pc'[r] = pc[r] /\ target'[r] = target[r]
  PROVE  ReportSoFar(r)'
BY DEF ReportSoFar, NoChains, Credential, Ssrf, NoSsrf, Kept, PendingChains, PendingCerts,
   PendingFresh, Cert, Certified, Scored

LEMMA OwnReport ==
  ASSUME TypeOK, NEW r \in Runs, WorkMatches(r), ScannersAtWork, Untouched, ReportSoFar(r), Step(r)
  PROVE  ReportSoFar(r)'
<1> USE RunOfScan DEF dbVars, Goto
<1>0. /\ pc \in [Runs -> PcValue] /\ target \in [Runs -> ScanState]
      /\ state \in [Scans -> ScanState] /\ r[1] \in Scans
  BY DEF TypeOK, DbTypeOK, RunTypeOK
<1> DEFINE Phase == /\ BeforeChains(r)' => BeforeChains(r)
                    /\ AfterChains(r)' => AfterChains(r)
                    /\ Completing(r)' => Completing(r)
                    /\ pc'[r] \in {"write", "count", "score"}
                         => pc'[r] = pc[r] /\ target'[r] = target[r]
           Same == UNCHANGED <<rows, certs, incidents, posture, stale, score, todo>>
<1>1. CASE FaultStep(r) \/ \E m \in Modules : ScannerReturns(r, m)
  <2>1. Phase
    BY <1>0, <1>1 DEF FaultStep, CloneFails, DatabaseFails, ModuleFails, ScannerReturns,
       BeforeChains, AfterChains, Completing, Moving
  <2>2. Same
    BY <1>1 DEF FaultStep, CloneFails, DatabaseFails, ModuleFails, ScannerReturns
  <2> QED
    BY <2>1, <2>2, QuietReport
<1>2. ASSUME NEW m \in Modules, SaveFinding(r, m) PROVE ReportSoFar(r)'
  <2>1. /\ UNCHANGED <<pc, target>> /\ pc[r] \in {"scan", "catch", "cleanup", "done", "acked"}
    BY <1>2 DEF SaveFinding, ScannersAtWork, Active
  <2>2. BeforeChains(r) => NoChains(r[1])'
    BY <1>2, SavedRow DEF ReportSoFar
  <2> QED
    BY <2>1, <2>2 DEF ReportSoFar, BeforeChains, AfterChains, Completing, Moving
<1>3. CASE CheckTransition(r)
  <2>1. Same
    BY <1>3 DEF CheckTransition
  <2>2. CASE pc'[r] = "update" /\ target[r] = "PROVISIONING"
    <3>1. state[r[1]] = "AUTHORIZED"
      BY <1>0, <1>3, <2>2, Transitions DEF CheckTransition
    <3>2. NoChains(r[1])
      BY <1>0, <3>1 DEF Untouched, NoChains, NoSsrf
    <3>3. NoChains(r[1])'
      BY <2>1, <3>2 DEF NoChains, NoSsrf
    <3> QED
      BY <1>3, <2>2, <3>3 DEF CheckTransition, ReportSoFar, BeforeChains, AfterChains, Completing, Moving
  <2>3. CASE pc'[r] # "update" \/ target[r] # "PROVISIONING"
    <3>1. Phase
      BY <1>0, <1>3, <2>3 DEF CheckTransition, BeforeChains, AfterChains, Completing, Moving
    <3> QED
      BY <2>1, <3>1, QuietReport
  <2> QED
    BY <2>2, <2>3
<1>4. CASE UpdateState(r) \/ Start(r)
  <2>1. Phase /\ Same
    BY <1>0, <1>4 DEF Start, UpdateState, AwaitTransition, BeforeChains, AfterChains, Completing, Moving
  <2> QED
    BY <2>1, QuietReport
<1>5. CASE BeginProvisioning(r) \/ BeginScanning(r) \/ BeginAnalysis(r) \/ Complete(r)
  <2>1. Phase /\ Same
    BY <1>0, <1>5 DEF BeginProvisioning, BeginScanning, BeginAnalysis, Complete, LogTransition,
       BeforeChains, AfterChains, Completing, Moving
  <2> QED
    BY <2>1, QuietReport
<1>6. CASE MakeWorkspace(r) \/ CloneSucceeds(r) \/ AllModulesDone(r)
  <2>1. Phase /\ Same
    BY <1>0, <1>6 DEF MakeWorkspace, CloneSucceeds, AllModulesDone, AwaitTransition,
       BeforeChains, AfterChains, Completing, Moving
  <2> QED
    BY <2>1, QuietReport
<1>7. CASE Catch(r) \/ Cleanup(r) \/ Acknowledge(r)
  <2>1. Phase /\ Same
    BY <1>0, <1>7 DEF Catch, Cleanup, Acknowledge, BeforeChains, AfterChains, Completing, Moving
  <2> QED
    BY <2>1, QuietReport
<1>8. CASE Analyse(r)
  <2>1. /\ UNCHANGED <<rows, certs, incidents, posture, target, score>>
        /\ pc[r] = "analyse" /\ pc'[r] = "write"
        /\ target[r] = "REPORTING" => stale'[r[1]] = stale[r[1]] \ {"certificates"}
    BY <1>0, <1>8 DEF Analyse, PartOf, TypeOK, DbTypeOK
  <2>2. CASE target[r] = "CORRELATING"
    <3>1. NoChains(r[1]) /\ todo'[r] = ChainWrites(rows[r[1]])
      BY <1>8, <2>1, <2>2 DEF Analyse, ReportSoFar, BeforeChains, TypeOK, RunTypeOK
    <3>2. todo'[r] \in {<<F1, I1, F2, I2>>, <<F1, I1>>, <<F2, I2>>, <<>>}
      BY <3>1, ChainShapes
    <3>3. PendingChains(r[1], todo[r])'
      BY <2>1, <3>1, <3>2 DEF PendingChains, NoChains, NoSsrf, Credential, Ssrf
    <3> QED
      BY <2>1, <2>2, <3>3 DEF ReportSoFar, BeforeChains, AfterChains, Completing, Moving
  <2>3. CASE target[r] = "REPORTING"
    <3>1. todo'[r] = CertificateWrites(rows[r[1]])
      BY <1>8, <2>1, <2>3 DEF Analyse, TypeOK, RunTypeOK
    <3>2. PendingCerts(r[1], todo'[r])
      BY <3>1, FreshCertificates
    <3>3. PendingCerts(r[1], todo[r])'
      <4>1. PendingFresh(r[1], todo'[r])
        BY <3>1, FreshCertificates
      <4> QED
        BY <2>1, <3>2, <4>1 DEF PendingCerts, PendingFresh, Cert
    <3>4. Credential(r[1])' /\ Ssrf(r[1])'
      BY <2>1, <2>3 DEF ReportSoFar, AfterChains, Credential, Ssrf, Kept
    <3> QED
      BY <2>1, <2>3, <3>3, <3>4 DEF ReportSoFar, BeforeChains, AfterChains, Completing, Moving
  <2> QED
    BY <2>1, <2>2, <2>3 DEF WorkMatches
<1>9. CASE WriteRow(r)
  <2>1. /\ UNCHANGED <<posture, target, score, pc>> /\ pc[r] = "write"
    BY <1>9 DEF WriteRow
  <2>2. CASE target[r] = "CORRELATING"
    <3>1. PendingChains(r[1], todo[r])'
      BY <1>9, <2>1, <2>2, WriteChainRow DEF ReportSoFar
    <3> QED
      BY <2>1, <2>2, <3>1 DEF ReportSoFar, BeforeChains, AfterChains, Completing, Moving
  <2>3. CASE target[r] = "REPORTING"
    <3>1. PendingCerts(r[1], todo[r])' /\ UNCHANGED <<rows, incidents, stale>>
      BY <1>9, <2>1, <2>3, WriteCertRow DEF ReportSoFar
    <3>2. Credential(r[1])' /\ Ssrf(r[1])'
      BY <2>1, <2>3, <3>1 DEF ReportSoFar, AfterChains, Credential, Ssrf, Kept
    <3> QED
      BY <2>1, <2>3, <3>1, <3>2 DEF ReportSoFar, BeforeChains, AfterChains, Completing, Moving
  <2> QED
    BY <2>1, <2>2, <2>3 DEF WorkMatches
<1>10. CASE EndAnalysis(r)
  <2>1. /\ UNCHANGED <<rows, certs, incidents, posture, stale, score, todo>>
        /\ pc[r] = "write" /\ todo[r] = <<>>
    BY <1>10 DEF EndAnalysis
  <2>2. CASE target[r] = "CORRELATING"
    <3>1. PendingChains(r[1], <<>>)
      BY <2>1, <2>2 DEF ReportSoFar
    <3>2. Credential(r[1]) /\ Ssrf(r[1])
      BY <3>1, ShortTails DEF PendingChains
    <3>3. Credential(r[1])' /\ Ssrf(r[1])'
      BY <2>1, <3>2 DEF Credential, Ssrf, Kept
    <3>4. pc'[r] = "check" /\ target'[r] = "REPORTING"
      BY <1>0, <1>10, <2>2 DEF EndAnalysis, AwaitTransition
    <3> QED
      BY <3>3, <3>4 DEF ReportSoFar, BeforeChains, AfterChains, Completing, Moving
  <2>3. CASE target[r] = "REPORTING"
    <3>1. PendingCerts(r[1], <<>>) /\ Credential(r[1]) /\ Ssrf(r[1])
      BY <2>1, <2>3 DEF ReportSoFar, AfterChains
    <3>2. Certified(r[1])
      <4>1. 1..Len(<<>>) = {}
        OBVIOUS
      <4> QED
        BY <3>1, <4>1 DEF PendingCerts, PendingFresh, Certified
    <3>3. Certified(r[1])' /\ Credential(r[1])' /\ Ssrf(r[1])'
      BY <2>1, <3>1, <3>2 DEF Certified, Credential, Ssrf, Kept
    <3>4. pc'[r] = "count" /\ target'[r] = "REPORTING"
      BY <1>0, <1>10, <2>3 DEF EndAnalysis
    <3> QED
      BY <3>3, <3>4 DEF ReportSoFar, BeforeChains, AfterChains, Completing, Moving
  <2> QED
    BY <2>1, <2>2, <2>3 DEF WorkMatches
<1>11. CASE CountFindings(r)
  <2>1. /\ UNCHANGED <<rows, certs, incidents, posture, target>>
        /\ pc[r] = "count" /\ pc'[r] = "score" /\ target[r] = "REPORTING"
        /\ score'[r] = PostureOf(rows[r[1]].n)
        /\ stale'[r[1]] = stale[r[1]] \ {"posture"}
    BY <1>0, <1>11 DEF CountFindings, WorkMatches, TypeOK, RunTypeOK, DbTypeOK
  <2>2. Certified(r[1])' /\ Credential(r[1])' /\ Ssrf(r[1])'
    BY <2>1 DEF ReportSoFar, AfterChains, Certified, Credential, Ssrf, Kept
  <2>3. Scored(r[1], score[r])'
    BY <2>1 DEF Scored
  <2> QED
    BY <2>1, <2>2, <2>3 DEF ReportSoFar, BeforeChains, AfterChains, Completing, Moving
<1>12. CASE StorePosture(r)
  <2>1. /\ UNCHANGED <<rows, certs, incidents, stale>>
        /\ pc[r] = "score" /\ pc'[r] = "check" /\ target'[r] = "COMPLETE"
        /\ posture'[r[1]] = score[r]
    BY <1>0, <1>12 DEF StorePosture, AwaitTransition, TypeOK, DbTypeOK
  <2>2. Certified(r[1])' /\ Credential(r[1])' /\ Ssrf(r[1])'
    BY <2>1 DEF ReportSoFar, AfterChains, Certified, Credential, Ssrf, Kept
  <2>3. Scored(r[1], posture[r[1]])'
    BY <2>1 DEF ReportSoFar, Scored
  <2> QED
    BY <2>1, <2>2, <2>3 DEF ReportSoFar, BeforeChains, AfterChains, Completing, Moving
<1> QED
  BY <1>1, <1>2, <1>3, <1>4, <1>5, <1>6, <1>7, <1>8, <1>9, <1>10, <1>11, <1>12
     DEF Step, RunStep, ModuleStep

\* Only an update to COMPLETE makes a row COMPLETE, and a run touches nothing of the
\* report of a row that is.
LEMMA OwnComplete ==
  ASSUME TypeOK, NEW r \in Runs, WorkMatches(r), ScannersAtWork, Step(r), state'[r[1]] = "COMPLETE"
  PROVE  /\ UNCHANGED <<rows, certs, incidents, posture, stale>>
         /\ state[r[1]] = "COMPLETE" \/ Completing(r)
<1> USE RunOfScan DEF dbVars, Goto
<1>0. state \in [Scans -> ScanState] /\ r[1] \in Scans
  BY DEF TypeOK, DbTypeOK
<1>1. CASE FaultStep(r) \/ \E m \in Modules : ModuleStep(r, m)
  <2>1. UNCHANGED state /\ ~Active(r)
    BY <1>1 DEF FaultStep, CloneFails, DatabaseFails, ModuleFails, ModuleStep, ScannerReturns,
       SaveFinding, ScannersAtWork
  <2> QED
    BY <1>1, <2>1 DEF FaultStep, CloneFails, DatabaseFails, ModuleFails, ModuleStep, ScannerReturns,
       SaveFinding, Active
<1>2. CASE UpdateState(r)
  BY <1>0, <1>2 DEF UpdateState, Completing, Moving
<1>3. CASE Catch(r)
  BY <1>0, <1>3 DEF Catch
<1>4. CASE WriteRow(r) \/ StorePosture(r)
  BY <1>4 DEF WriteRow, StorePosture, WorkMatches
<1>5. CASE \/ Start(r) \/ CheckTransition(r) \/ MakeWorkspace(r) \/ CloneSucceeds(r)
           \/ AllModulesDone(r) \/ EndAnalysis(r) \/ Cleanup(r) \/ Acknowledge(r)
  BY <1>5 DEF Start, CheckTransition, MakeWorkspace, CloneSucceeds, AllModulesDone,
     EndAnalysis, Cleanup, Acknowledge
<1>7. ~Analyse(r) /\ ~CountFindings(r)
  BY DEF Analyse, CountFindings, WorkMatches
<1>6. CASE BeginProvisioning(r) \/ BeginScanning(r) \/ BeginAnalysis(r) \/ Complete(r)
  BY <1>6 DEF BeginProvisioning, BeginScanning, BeginAnalysis, Complete, LogTransition
<1> QED
  BY <1>1, <1>2, <1>3, <1>4, <1>5, <1>6, <1>7 DEF Step, RunStep

\* An upload or a clearing leaves what a run knows of its report true, of the parts
\* that are not stale by it.
LEMMA RepositoryReport ==
  ASSUME TypeOK, RepositoryStep, NEW s \in Scans
  PROVE  /\ NoChains(s) => NoChains(s)'
         /\ NoSsrf(s) => NoSsrf(s)'
         /\ Credential(s) => Credential(s)'
         /\ Ssrf(s) => Ssrf(s)'
         /\ \A c \in {CredentialChain, SsrfChain} : Kept(s, c) => Kept(s, c)'
         /\ Certified(s) => Certified(s)'
         /\ \A n : Scored(s, n) => (("posture" \notin stale'[s]) => n = PostureOf(rows'[s].n))
         /\ \A t : PendingCerts(s, t) =>
              /\ \A j \in 1..Len(t) : t[j][1] = "certificate"
              /\ "certificates" \notin stale'[s] => UNCHANGED <<rows[s], certs[s]>> /\ PendingFresh(s, t)
<1>1. UNCHANGED <<incidents, certs>>
  BY RepositoryKeeps
<1>2. /\ \A c \in {CredentialChain, SsrfChain} : c \in rows'[s].of => c \in rows[s].of
      /\ \/ UNCHANGED <<rows[s], stale[s]>>
         \/ /\ "certificates" \in stale'[s] /\ "posture" \in stale'[s]
            /\ "chains" \notin stale'[s] =>
                 /\ "chains" \notin stale[s]
                 /\ \A c \in {CredentialChain, SsrfChain} : c \in rows[s].of => c \in rows'[s].of
  BY RepositoryRows
<1>3. \A c \in {CredentialChain, SsrfChain} : Kept(s, c) => Kept(s, c)'
  BY <1>2 DEF Kept
<1>4. NoChains(s) => NoChains(s)'
  BY <1>1, <1>2 DEF NoChains, NoSsrf
<1>5. NoSsrf(s) => NoSsrf(s)'
  BY <1>1, <1>2 DEF NoSsrf
<1>6. Credential(s) => Credential(s)'
  BY <1>1, <1>2, <1>3 DEF Credential
<1>7. Ssrf(s) => Ssrf(s)'
  BY <1>1, <1>2, <1>3 DEF Ssrf
<1>8. Certified(s) => Certified(s)'
  BY <1>1, <1>2 DEF Certified
<1>9. \A n : Scored(s, n) => (("posture" \notin stale'[s]) => n = PostureOf(rows'[s].n))
  BY <1>2 DEF Scored
<1>10. \A t : PendingCerts(s, t) =>
              /\ \A j \in 1..Len(t) : t[j][1] = "certificate"
              /\ "certificates" \notin stale'[s] => UNCHANGED <<rows[s], certs[s]>> /\ PendingFresh(s, t)
  BY <1>1, <1>2 DEF PendingCerts
<1> QED
  BY <1>3, <1>4, <1>5, <1>6, <1>7, <1>8, <1>9, <1>10

LEMMA RepositoryReports ==
  ASSUME TypeOK, RepositoryStep, NEW r \in Runs, ReportSoFar(r)
  PROVE  ReportSoFar(r)'
<1> DEFINE s == r[1]
           t == todo[r]
<1>0. s \in Scans /\ UNCHANGED <<pc, target, todo, score, incidents, certs, posture>>
  BY RunOfScan, RepositoryKeeps DEF runVars
<1>1. UNCHANGED <<BeforeChains(r), AfterChains(r), Completing(r)>>
  BY <1>0 DEF BeforeChains, AfterChains, Completing
<1>2. PendingChains(s, t) => PendingChains(s, todo[r])'
  <2>1. /\ NoChains(s) => NoChains(s)'
        /\ NoSsrf(s) => NoSsrf(s)'
        /\ Credential(s) => Credential(s)'
        /\ Ssrf(s) => Ssrf(s)'
        /\ Kept(s, CredentialChain) => Kept(s, CredentialChain)'
        /\ Kept(s, SsrfChain) => Kept(s, SsrfChain)'
    BY <1>0, RepositoryReport
  <2> QED
    BY <1>0, <2>1 DEF PendingChains
<1>3. PendingCerts(s, t) => PendingCerts(s, todo[r])'
  <2>1. PendingCerts(s, t) =>
              /\ \A j \in 1..Len(t) : t[j][1] = "certificate"
              /\ "certificates" \notin stale'[s] => UNCHANGED <<rows[s], certs[s]>> /\ PendingFresh(s, t)
    BY <1>0, RepositoryReport
  <2> QED
    BY <1>0, <2>1 DEF PendingCerts, PendingFresh, Cert
<1>4. /\ Scored(s, score[r]) => Scored(s, score[r])'
      /\ Scored(s, posture[s]) => Scored(s, posture[s])'
  BY <1>0, RepositoryReport DEF Scored
<1>5. /\ NoChains(s) => NoChains(s)'
      /\ Credential(s) => Credential(s)'
      /\ Ssrf(s) => Ssrf(s)'
      /\ Certified(s) => Certified(s)'
  BY <1>0, RepositoryReport
<1> QED
  BY <1>0, <1>1, <1>2, <1>3, <1>4, <1>5 DEF ReportSoFar

LEMMA ReportNext ==
  ASSUME TypeOK, NoOverlap, DeliveryInv, Untouched, ReportInv, [Next]_vars
  PROVE  ReportInv'
<1> USE DEF DeliveryInv, ReportInv
<1>1. ASSUME NEW r \in Runs PROVE ReportSoFar(r)'
  <2>1. ReportSoFar(r)
    OBVIOUS
  <2>2. CASE Step(r)
    BY <2>1, <2>2, OwnReport DEF WorkMatchesRow
  <2>3. CASE Crash
    BY <2>3 DEF Crash, ReportSoFar, BeforeChains, AfterChains, Completing, Moving
  <2>4. CASE UNCHANGED OfRun(r) /\ (pc[r] \in {"queued", "lost"} \/ UNCHANGED OfScan(r[1]))
    <3>1. CASE pc[r] \in {"queued", "lost"}
      BY <2>4, <3>1 DEF OfRun, ReportSoFar, BeforeChains, AfterChains, Completing, Moving
    <3>2. CASE UNCHANGED OfScan(r[1])
      BY <2>1, <2>4, <3>2 DEF OfRun, OfScan, ReportSoFar, BeforeChains, AfterChains, Completing,
         Moving, NoChains, NoSsrf, Credential, Ssrf, Kept, PendingChains, PendingCerts,
         PendingFresh, Cert, Certified, Scored
    <3> QED
      BY <2>4, <3>1, <3>2
  <2>5. CASE RepositoryStep
    BY <2>1, <2>5, RepositoryReports
  <2> QED
    BY <2>2, <2>3, <2>4, <2>5, StepCases
<1>2. ASSUME NEW s \in Scans, state'[s] = "COMPLETE" PROVE Reported(s)'
  <2>1. CASE Reported(s) /\ UNCHANGED <<rows[s], certs[s], incidents[s], posture[s], stale[s]>>
    BY <2>1 DEF Reported, Certified, Credential, Ssrf, Kept, Scored
  <2>2. ASSUME NEW x \in Runs, Step(x), x[1] = s
        PROVE  Reported(s) /\ UNCHANGED <<rows, certs, incidents, posture, stale>>
    <3>1. /\ UNCHANGED <<rows, certs, incidents, posture, stale>>
          /\ state[s] = "COMPLETE" \/ Completing(x)
      BY <1>2, <2>2, OwnComplete DEF WorkMatchesRow
    <3>2. Completing(x) => Reported(s)
      BY <2>2 DEF ReportSoFar, AfterChains, Completing, Reported
    <3> QED
      BY <3>1, <3>2
  <2>3. ASSUME NEW x \in Runs, Step(x), x[1] # s PROVE UNCHANGED OfScan(s)
    BY <2>3, StepsAreLocal
  <2>4. UNCHANGED vars \/ Crash \/ (\E c \in Clients : ClientStep(c)) => UNCHANGED dbVars
    BY QuietSteps DEF Crash
  <2>5. CASE RepositoryStep
    <3>1. Reported(s) /\ UNCHANGED posture
      BY <1>2, <2>5, RepositoryKeeps
    <3>2. Scored(s, posture[s])'
      BY <2>5, <3>1, RepositoryReport DEF Reported, Scored
    <3>3. Certified(s)' /\ Credential(s)' /\ Ssrf(s)'
      BY <2>5, <3>1, RepositoryReport DEF Reported
    <3> QED
      BY <3>2, <3>3 DEF Reported
  <2> QED
    BY <1>2, <2>1, <2>2, <2>3, <2>4, <2>5 DEF Next, Step, OfScan, dbVars
<1> QED
  BY <1>1, <1>2

\* What a COMPLETE scan shows is about all of its findings, uploaded ones too, but for
\* what was uploaded or cleared since it looked, whatever fails and however often the
\* job is delivered again.
THEOREM ReportsAreFinal ==
  ASSUME NoOverlap
  PROVE  Spec => []ReportIsFinal
<1>1. TypeOK /\ DeliveryInv /\ Untouched /\ ReportInv /\ [Next]_vars => ReportInv'
  BY ReportNext
<1>2. ReportInv => ReportIsFinal
  BY DEF ReportInv, Reported, Certified, Credential, Ssrf, Kept, Scored, ReportIsFinal, Has
<1> QED
  BY <1>1, <1>2, ReportInit, TypeCorrect, DeliveriesInOrder, UntouchedHolds, PTL DEF Spec
-------------------------------------------------------------------------------
(* The stream.  With one delivery per job the run of a scan that has told its *)
(* clients an end is over, so the row stays what they were told it is.        *)

Told(c) ==
  /\ conn[c] = "checked" => last[c] = "none"
  /\ conn[c] = "open" => watch[c] \in subjects /\ last[c] \notin {"complete", "failed"}
  /\ conn[c] = "ended" =>
       /\ \A r \in RunsOf(watch[c]) : pc[r] \in Finished
       /\ \/ last[c] = "complete" /\ state[watch[c]] = "COMPLETE"
          \/ last[c] = "failed" /\ state[watch[c]] = "FAILED"

StreamInv == \A c \in Clients : Told(c)

LEMMA StreamInit == Init => StreamInv
BY DEF Init, StreamInv, Told

\* A run that is over never changes its row.
LEMMA FinishedRun ==
  ASSUME TypeOK, NEW r \in Runs, pc[r] \in Finished, Step(r)
  PROVE  pc'[r] \in Finished /\ UNCHANGED state
<1> USE DEF dbVars, Goto, Finished
<1>0. pc \in [Runs -> PcValue]
  BY DEF TypeOK, RunTypeOK
<1>1. CASE FaultStep(r) \/ \E m \in Modules : ModuleStep(r, m)
  BY <1>0, <1>1 DEF FaultStep, CloneFails, DatabaseFails, ModuleFails, ModuleStep, ScannerReturns,
     SaveFinding
<1>2. CASE Cleanup(r) \/ Acknowledge(r)
  BY <1>0, <1>2 DEF Cleanup, Acknowledge
<1> QED
  BY <1>1, <1>2 DEF Step, RunStep, Start, MayStart, CheckTransition, UpdateState, BeginProvisioning,
     BeginScanning, BeginAnalysis, Complete, LogTransition, MakeWorkspace, CloneSucceeds,
     AllModulesDone, Analyse, WriteRow, EndAnalysis, CountFindings, StorePosture, Catch

\* A run publishes nothing, or one event that is no end, or it ends the stream.
LEMMA OwnEvent ==
  ASSUME TypeOK, NEW r \in Runs, Step(r)
  PROVE  \/ UNCHANGED busVars
         \/ \E e \in {"module_start", "finding", "module_complete"} : Emit(r[1], e)
         \/ Complete(r) /\ EmitAndComplete(r[1], "complete")
         \/ Catch(r) /\ EmitAndComplete(r[1], "failed")
<1>1. CASE FaultStep(r) \/ \E m \in Modules : ModuleStep(r, m)
  BY <1>1 DEF FaultStep, CloneFails, DatabaseFails, ModuleFails, ModuleStep, ScannerReturns,
     SaveFinding
<1>2. CASE BeginProvisioning(r) \/ BeginScanning(r) \/ BeginAnalysis(r)
  BY <1>2 DEF BeginProvisioning, BeginScanning, BeginAnalysis
<1>3. CASE Complete(r) \/ Catch(r)
  BY <1>3 DEF Complete, Catch
<1> QED
  BY <1>1, <1>2, <1>3 DEF Step, RunStep, Start, CheckTransition, UpdateState, MakeWorkspace,
     CloneSucceeds, AllModulesDone, Analyse, WriteRow, EndAnalysis, CountFindings, StorePosture,
     Cleanup, Acknowledge

\* With one delivery per job, the run that ends the stream is the only run of its scan.
LEMMA OwnEnd ==
  ASSUME TypeOK, MaxDeliveries = 1, "failed" \notin Faults, NEW r \in Runs, WorkMatches(r)
  PROVE  /\ Complete(r) => /\ \A q \in RunsOf(r[1]) : pc'[q] \in Finished
                           /\ state'[r[1]] = "COMPLETE"
         /\ Catch(r) => /\ \A q \in RunsOf(r[1]) : pc'[q] \in Finished
                        /\ state'[r[1]] = "FAILED"
<1>0. /\ pc \in [Runs -> PcValue] /\ state \in [Scans -> ScanState] /\ r[1] \in Scans
      /\ \A q \in RunsOf(r[1]) : q = r
  BY RunOfScan, OneRunPerScan DEF TypeOK, DbTypeOK, RunTypeOK, RunsOf
<1>1. Complete(r) => pc'[r] = "cleanup" /\ state'[r[1]] = "COMPLETE"
  BY <1>0 DEF Complete, LogTransition, Goto, WorkMatches
<1>2. Catch(r) => pc'[r] = "cleanup" /\ state'[r[1]] = "FAILED"
  BY <1>0 DEF Catch, Goto
<1> QED
  BY <1>0, <1>1, <1>2 DEF Finished

LEMMA StreamRunStep ==
  ASSUME TypeOK, MaxDeliveries = 1, "failed" \notin Faults, StreamInv, NEW r \in Runs,
         WorkMatches(r), Step(r), NEW c \in Clients
  PROVE  Told(c)'
<1>0. /\ subjects \subseteq Scans /\ watch \in [Clients -> Scans] /\ r[1] \in Scans
      /\ conn \in [Clients -> {"idle", "checked", "open", "ended"}]
      /\ last \in [Clients -> EventType \cup {"none"}] /\ Told(c)
  BY RunOfScan DEF TypeOK, BusTypeOK, StreamInv
\* A client whose stream has ended watches a scan whose run is over.
<1>1. conn[c] = "ended" =>
        /\ \A q \in RunsOf(watch[c]) : pc'[q] \in Finished
        /\ state'[watch[c]] = state[watch[c]]
  <2> SUFFICES ASSUME conn[c] = "ended"
               PROVE  /\ \A q \in RunsOf(watch[c]) : pc'[q] \in Finished
                      /\ state'[watch[c]] = state[watch[c]]
    OBVIOUS
  <2>1. \A q \in RunsOf(watch[c]) : pc[q] \in Finished
    BY <1>0 DEF Told
  <2>2. CASE r[1] = watch[c]
    <3>1. \A q \in RunsOf(watch[c]) : q = r
      BY <2>2, OneRunPerScan DEF RunsOf
    <3>2. pc[r] \in Finished
      BY <2>1, <2>2 DEF RunsOf
    <3> QED
      BY <3>1, <3>2, FinishedRun
  <2>3. CASE r[1] # watch[c]
    <3>1. state'[watch[c]] = state[watch[c]]
      BY <1>0, <2>3, StepsAreLocal DEF OfScan
    <3>2. \A q \in RunsOf(watch[c]) : pc'[q] = pc[q]
      BY <2>3, StepsAreLocal DEF OfRun, RunsOf
    <3> QED
      BY <2>1, <3>1, <3>2
  <2> QED
    BY <2>2, <2>3
<1>2. CASE UNCHANGED busVars
  BY <1>0, <1>1, <1>2 DEF busVars, Told
<1>3. ASSUME NEW e \in {"module_start", "finding", "module_complete"}, Emit(r[1], e)
      PROVE  Told(c)'
  BY <1>0, <1>1, <1>3 DEF Emit, Listening, Told
<1>4. ASSUME NEW e \in {"complete", "failed"}, EmitAndComplete(r[1], e),
             \A q \in RunsOf(r[1]) : pc'[q] \in Finished,
             state'[r[1]] = IF e = "complete" THEN "COMPLETE" ELSE "FAILED"
      PROVE  Told(c)'
  <2>1. CASE c \in Listening(r[1])
    <3>1. watch'[c] = r[1] /\ conn'[c] = "ended" /\ last'[c] = e
      BY <1>0, <1>4, <2>1 DEF EmitAndComplete, Listening
    <3> QED
      BY <1>4, <3>1 DEF Told
  <2>2. CASE c \notin Listening(r[1])
    <3>1. /\ watch'[c] = watch[c] /\ conn'[c] = conn[c] /\ last'[c] = last[c]
          /\ conn[c] = "open" => watch[c] # r[1]
          /\ subjects' = subjects \ {r[1]}
      BY <1>0, <1>4, <2>2 DEF EmitAndComplete, Listening, Told
    <3> QED
      BY <1>0, <1>1, <3>1 DEF Told
  <2> QED
    BY <2>1, <2>2
<1> QED
  BY <1>2, <1>3, <1>4, OwnEvent, OwnEnd

LEMMA StreamNext ==
  ASSUME TypeOK, MaxDeliveries = 1, "failed" \notin Faults, DeliveryInv, StreamInv, [Next]_vars
  PROVE  StreamInv'
<1> SUFFICES ASSUME NEW c \in Clients PROVE Told(c)'
  BY DEF StreamInv
<1>0. /\ Told(c) /\ watch \in [Clients -> Scans]
      /\ conn \in [Clients -> {"idle", "checked", "open", "ended"}]
      /\ last \in [Clients -> EventType \cup {"none"}]
  BY DEF StreamInv, TypeOK, BusTypeOK
<1>1. CASE UNCHANGED vars
  BY <1>0, <1>1 DEF vars, dbVars, runVars, busVars, Told, RunsOf
<1>2. CASE Crash
  BY <1>0, <1>2 DEF Crash, dbVars, Told, RunsOf, Finished
<1>3. ASSUME NEW d \in Clients, ClientStep(d) PROVE Told(c)'
  <2>1. UNCHANGED <<state, pc>>
    BY <1>3, QuietSteps DEF dbVars, runVars
  <2>2. CASE CheckOwnership(d)
    BY <1>0, <2>1, <2>2 DEF CheckOwnership, Told, RunsOf
  <2>3. CASE Subscribe(d)
    BY <1>0, <2>1, <2>3 DEF Subscribe, Told, RunsOf
  <2>4. CASE Disconnect(d)
    BY <1>0, <2>1, <2>4 DEF Disconnect, Told, RunsOf
  <2> QED
    BY <1>3, <2>2, <2>3, <2>4 DEF ClientStep
<1>4. CASE RepositoryStep
  BY <1>0, <1>4, RepositoryKeeps DEF runVars, busVars, Told, RunsOf
<1> QED
  BY <1>1, <1>2, <1>3, <1>4, StreamRunStep DEF Next, Step, DeliveryInv, WorkMatchesRow

\* A stream that ended told its client the truth about the row, with one delivery per job
\* and FAILED stored.
THEOREM StreamsTellOutcome ==
  ASSUME MaxDeliveries = 1, "failed" \notin Faults
  PROVE  Spec => []StreamTellsOutcome
<1>1. NoOverlap
  BY DEF NoOverlap
<1>2. TypeOK /\ DeliveryInv /\ StreamInv /\ [Next]_vars => StreamInv'
  BY StreamNext
<1>3. StreamInv => StreamTellsOutcome
  BY DEF StreamInv, Told, StreamTellsOutcome
<1> QED
  BY <1>1, <1>2, <1>3, StreamInit, TypeCorrect, DeliveriesInOrder, PTL DEF Spec
===============================================================================
