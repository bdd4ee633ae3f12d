------------------------ MODULE ScanOrchestratorProofs ------------------------
(***************************************************************************)
(* Theorems about ScanOrchestrator, for any number of scans, scanners,     *)
(* clients and findings and for every choice of faults.                    *)
(***************************************************************************)
EXTENDS ScanOrchestrator, SequenceTheorems, TLAPS

\* The table of scan-state.machine.ts, spelled out.
LEMMA Transitions ==
  ASSUME NEW a \in ScanState, NEW b
  PROVE  ValidTransition(a, b) <=>
           \/ a = "AUTHORIZED" /\ b \in {"PROVISIONING", "FAILED"}
           \/ a = "PROVISIONING" /\ b \in {"SCANNING", "FAILED"}
           \/ a = "SCANNING" /\ b \in {"CORRELATING", "FAILED"}
           \/ a = "CORRELATING" /\ b \in {"REPORTING", "FAILED"}
           \/ a = "REPORTING" /\ b \in {"COMPLETE", "FAILED"}
           \/ a = "COMPLETE" /\ b = "ARCHIVED"
BY DEF ValidTransition, VALID_TRANSITIONS, ScanState

LEMMA RunOfScan == \A r \in Runs : r[1] \in Scans
BY DEF Runs

\* With one delivery per job a run is known by its scan.
LEMMA OneRunPerScan ==
  ASSUME MaxDeliveries = 1
  PROVE  \A r, q \in Runs : r[1] = q[1] => r = q
BY DEF Runs
-------------------------------------------------------------------------------
(* Type correctness.  A scanner that is saving has a finding left to save, or *)
(* the countdown in SaveFinding would leave the naturals.                     *)

SavingHasRows ==
  \A r \in Runs : \A m \in Modules : mods[r][m] = "saving" => left[r][m] >= 1

TypeInv == TypeOK /\ SavingHasRows

LEMMA ChainWritesType == \A found : ChainWrites(found) \in Seq(Write)
<1> SUFFICES ASSUME NEW found PROVE ChainWrites(found) \in Seq(Write)
  OBVIOUS
<1>1. Chain(CredentialChain, "CASCADING_ATTACK_CHAIN") \in Seq(Write)
  BY DEF Chain, Write, Class, IncidentType
<1>2. Chain(SsrfChain, "SSRF_CLOUDMETADATA_LEAK") \in Seq(Write)
  BY DEF Chain, Write, Class, IncidentType
<1>3. << >> \in Seq(Write)
  OBVIOUS
<1> QED
  BY <1>1, <1>2, <1>3, ConcatProperties DEF ChainWrites

LEMMA CertificateWritesType == \A found : CertificateWrites(found) \in Seq(Write)
BY DEF CertificateWrites, Write, Verdict, StandardSet, Standards

LEMMA TypeInit == Init => TypeInv
BY BoundAssumption DEF Init, TypeInv, TypeOK, DbTypeOK, RunTypeOK, BusTypeOK, SavingHasRows,
   ScanState, PcValue, ModState, EventType, Null, StandardSet, Part

\* Whatever a run publishes, the bus stays well typed.
LEMMA BusStep ==
  ASSUME BusTypeOK, NEW s \in Scans, NEW e \in EventType,
         \/ Emit(s, e) \/ EmitAndComplete(s, e) \/ UNCHANGED busVars
  PROVE  BusTypeOK'
<1>1. CASE Emit(s, e)
  BY <1>1 DEF Emit, BusTypeOK
<1>2. CASE EmitAndComplete(s, e)
  BY <1>2 DEF EmitAndComplete, BusTypeOK
<1>3. CASE UNCHANGED busVars
  BY <1>3 DEF busVars, BusTypeOK
<1> QED
  BY <1>1, <1>2, <1>3

LEMMA LogStep ==
  ASSUME DbTypeOK, RunTypeOK, NEW r \in Runs, LogTransition(r)
  PROVE  DbTypeOK'
<1>1. <<from[r], target[r]>> \in ScanState \X ScanState
  BY DEF RunTypeOK
<1> DEFINE move == <<from[r], target[r]>>
           Moves == ScanState \X ScanState
<1>2. logged' = [logged EXCEPT ![r[1]] = @ \cup {move}] \/ logged' = logged
  BY DEF LogTransition
<1>3. logged \in [Scans -> SUBSET Moves] /\ move \in Moves
  BY <1>1 DEF DbTypeOK
<1>4. logged' \in [Scans -> SUBSET Moves]
  <2> HIDE DEF move, Moves
  <2> QED
    BY <1>2, <1>3
<1> QED
  BY <1>4 DEF LogTransition, DbTypeOK

LEMMA WriteStep ==
  ASSUME DbTypeOK, RunTypeOK, NEW r \in Runs, WriteRow(r)
  PROVE  DbTypeOK'
<1> DEFINE w == Head(todo[r])
<1>1. w \in Write
  BY HeadTailProperties DEF WriteRow, RunTypeOK
<1>2. UNCHANGED <<state, completedAt, posture, logged>>
  BY DEF WriteRow
<1>3. CASE w[1] = "finding"
  <2>1. w[2] \in Class
    BY <1>1, <1>3 DEF Write
  <2> QED
    BY <1>2, <1>3, <2>1, RunOfScan DEF WriteRow, WithRow, DbTypeOK
<1>4. CASE w[1] = "incident"
  <2>1. w[2] \in IncidentType
    BY <1>1, <1>4 DEF Write
  <2> QED
    BY <1>2, <1>4, <2>1, RunOfScan DEF WriteRow, DbTypeOK
<1>5. CASE w[1] = "certificate"
  <2>1. w[2] \in StandardSet /\ w[3] \in {"PASSED", "FAILED"}
    BY <1>1, <1>5 DEF Write
  <2> QED
    BY <1>2, <1>5, <2>1, RunOfScan DEF WriteRow, DbTypeOK
<1> QED
  BY <1>1, <1>3, <1>4, <1>5 DEF Write

LEMMA PostureType == \A n \in Nat : PostureOf(n) \in Int
BY DEF PostureOf

LEMMA RunStepType ==
  ASSUME TypeInv, NEW r \in Runs, RunStep(r)
  PROVE  TypeInv'
<1> USE RunOfScan DEF TypeInv, TypeOK, SavingHasRows
<1>1. CASE Start(r)
  <2>1. DbTypeOK'
    BY <1>1 DEF Start, AwaitTransition, Goto, DbTypeOK, RunTypeOK, dbVars, ScanState
  <2>2. RunTypeOK' /\ SavingHasRows'
    BY <1>1 DEF Start, AwaitTransition, Goto, RunTypeOK, PcValue, ModState, ScanState
  <2>3. BusTypeOK'
    BY <1>1, BusStep DEF Start, EventType
  <2> QED
    BY <2>1, <2>2, <2>3
<1>2. CASE CheckTransition(r)
  <2>1. DbTypeOK'
    BY <1>2 DEF CheckTransition, Goto, DbTypeOK, RunTypeOK, dbVars, ScanState
  <2>2. RunTypeOK' /\ SavingHasRows'
    <3>1. state[r[1]] \in ScanState
      BY DEF DbTypeOK
    <3>2. pc' \in [Runs -> PcValue] /\ from' \in [Runs -> ScanState]
      BY <1>2, <3>1 DEF CheckTransition, Goto, RunTypeOK, PcValue
    <3> QED
      BY <1>2, <3>2 DEF CheckTransition, RunTypeOK
  <2>3. BusTypeOK'
    BY <1>2, BusStep DEF CheckTransition, EventType
  <2> QED
    BY <2>1, <2>2, <2>3
<1>3. CASE UpdateState(r)
  <2>1. DbTypeOK'
    BY <1>3 DEF UpdateState, Goto, DbTypeOK, RunTypeOK, dbVars, ScanState
  <2>2. RunTypeOK' /\ SavingHasRows'
    BY <1>3 DEF UpdateState, Goto, RunTypeOK, PcValue, ModState, ScanState
  <2>3. BusTypeOK'
    BY <1>3, BusStep DEF UpdateState, EventType
  <2> QED
    BY <2>1, <2>2, <2>3
<1>4. CASE BeginProvisioning(r)
  <2>1. DbTypeOK'
    BY <1>4, LogStep DEF BeginProvisioning
  <2>2. RunTypeOK' /\ SavingHasRows'
    BY <1>4 DEF BeginProvisioning, LogTransition, Goto, RunTypeOK, PcValue, ModState, ScanState
  <2>3. BusTypeOK'
    BY <1>4, BusStep DEF BeginProvisioning, EventType
  <2> QED
    BY <2>1, <2>2, <2>3
<1>5. CASE MakeWorkspace(r)
  <2>1. DbTypeOK'
    BY <1>5 DEF MakeWorkspace, Goto, DbTypeOK, RunTypeOK, dbVars, ScanState
  <2>2. RunTypeOK' /\ SavingHasRows'
    BY <1>5 DEF MakeWorkspace, Goto, RunTypeOK, PcValue, ModState, ScanState
  <2>3. BusTypeOK'
    BY <1>5, BusStep DEF MakeWorkspace, EventType
  <2> QED
    BY <2>1, <2>2, <2>3
<1>6. CASE CloneSucceeds(r)
  <2>1. DbTypeOK'
    BY <1>6 DEF CloneSucceeds, AwaitTransition, Goto, DbTypeOK, RunTypeOK, dbVars, ScanState
  <2>2. RunTypeOK' /\ SavingHasRows'
    BY <1>6 DEF CloneSucceeds, AwaitTransition, Goto, RunTypeOK, PcValue, ModState, ScanState
  <2>3. BusTypeOK'
    BY <1>6, BusStep DEF CloneSucceeds, EventType
  <2> QED
    BY <2>1, <2>2, <2>3
<1>7. CASE BeginScanning(r)
  <2>1. DbTypeOK'
    BY <1>7, LogStep DEF BeginScanning
  <2>2. RunTypeOK' /\ SavingHasRows'
    BY <1>7 DEF BeginScanning, LogTransition, Goto, RunTypeOK, PcValue, ModState, ScanState
  <2>3. BusTypeOK'
    BY <1>7, BusStep DEF BeginScanning, EventType
  <2> QED
    BY <2>1, <2>2, <2>3
<1>8. CASE AllModulesDone(r)
  <2>1. DbTypeOK'
    BY <1>8 DEF AllModulesDone, AwaitTransition, Goto, DbTypeOK, RunTypeOK, dbVars, ScanState
  <2>2. RunTypeOK' /\ SavingHasRows'
    BY <1>8 DEF AllModulesDone, AwaitTransition, Goto, RunTypeOK, PcValue, ModState, ScanState
  <2>3. BusTypeOK'
    BY <1>8, BusStep DEF AllModulesDone, EventType
  <2> QED
    BY <2>1, <2>2, <2>3
<1>9. CASE BeginAnalysis(r)
  <2>1. DbTypeOK'
    BY <1>9, LogStep DEF BeginAnalysis
  <2>2. RunTypeOK' /\ SavingHasRows'
    BY <1>9 DEF BeginAnalysis, LogTransition, Goto, RunTypeOK, PcValue, ModState, ScanState
  <2>3. BusTypeOK'
    BY <1>9, BusStep DEF BeginAnalysis, EventType
  <2> QED
    BY <2>1, <2>2, <2>3
<1>10. CASE Analyse(r)
  <2>1. DbTypeOK'
    <3>1. stale' = [stale EXCEPT ![r[1]] = @ \ {PartOf(target[r])}]
      BY <1>10 DEF Analyse
    <3>2. stale' \in [Scans -> SUBSET Part]
      BY <3>1 DEF DbTypeOK
    <3> QED
      BY <1>10, <3>2 DEF Analyse, DbTypeOK
  <2>2. RunTypeOK' /\ SavingHasRows'
    BY <1>10, ChainWritesType, CertificateWritesType DEF Analyse, Goto, RunTypeOK, PcValue
  <2>3. BusTypeOK'
    BY <1>10, BusStep DEF Analyse, EventType
  <2> QED
    BY <2>1, <2>2, <2>3
<1>11. CASE WriteRow(r)
  <2>1. DbTypeOK'
    BY <1>11, WriteStep
  <2>2. RunTypeOK' /\ SavingHasRows'
    BY <1>11 DEF WriteRow, RunTypeOK, PcValue, ModState, ScanState
  <2>3. BusTypeOK'
    BY <1>11, BusStep DEF WriteRow, EventType
  <2> QED
    BY <2>1, <2>2, <2>3
<1>12. CASE EndAnalysis(r)
  <2>1. DbTypeOK'
    BY <1>12 DEF EndAnalysis, AwaitTransition, Goto, DbTypeOK, RunTypeOK, dbVars, ScanState
  <2>2. RunTypeOK' /\ SavingHasRows'
    BY <1>12 DEF EndAnalysis, AwaitTransition, Goto, RunTypeOK, PcValue, ModState, ScanState
  <2>3. BusTypeOK'
    BY <1>12, BusStep DEF EndAnalysis, EventType
  <2> QED
    BY <2>1, <2>2, <2>3
<1>13. CASE CountFindings(r)
  <2>1. DbTypeOK'
    BY <1>13 DEF CountFindings, DbTypeOK
  <2>2. RunTypeOK' /\ SavingHasRows'
    BY <1>13, PostureType DEF CountFindings, Goto, DbTypeOK, RunTypeOK, PcValue
  <2>3. BusTypeOK'
    BY <1>13, BusStep DEF CountFindings, EventType
  <2> QED
    BY <2>1, <2>2, <2>3
<1>14. CASE StorePosture(r)
  <2>1. DbTypeOK'
    BY <1>14 DEF StorePosture, AwaitTransition, Goto, DbTypeOK, RunTypeOK, dbVars, ScanState
  <2>2. RunTypeOK' /\ SavingHasRows'
    BY <1>14 DEF StorePosture, AwaitTransition, Goto, RunTypeOK, PcValue, ModState, ScanState
  <2>3. BusTypeOK'
    BY <1>14, BusStep DEF StorePosture, EventType
  <2> QED
    BY <2>1, <2>2, <2>3
<1>15. CASE Complete(r)
  <2>1. DbTypeOK'
    BY <1>15, LogStep DEF Complete
  <2>2. RunTypeOK' /\ SavingHasRows'
    BY <1>15 DEF Complete, LogTransition, Goto, RunTypeOK, PcValue, ModState, ScanState
  <2>3. BusTypeOK'
    BY <1>15, BusStep DEF Complete, EventType
  <2> QED
    BY <2>1, <2>2, <2>3
<1>16. CASE Catch(r)
  <2>0. state' \in [Scans -> ScanState]
    BY <1>16 DEF Catch, DbTypeOK, ScanState
  <2>1. DbTypeOK'
    BY <1>16, <2>0 DEF Catch, DbTypeOK
  <2>2. RunTypeOK' /\ SavingHasRows'
    BY <1>16 DEF Catch, Goto, RunTypeOK, PcValue, ModState, ScanState
  <2>3. BusTypeOK'
    BY <1>16, BusStep DEF Catch, EventType
  <2> QED
    BY <2>1, <2>2, <2>3
<1>17. CASE Cleanup(r)
  <2>1. DbTypeOK'
    BY <1>17 DEF Cleanup, Goto, DbTypeOK, RunTypeOK, dbVars, ScanState
  <2>2. RunTypeOK' /\ SavingHasRows'
    BY <1>17 DEF Cleanup, Goto, RunTypeOK, PcValue, ModState, ScanState
  <2>3. BusTypeOK'
    BY <1>17, BusStep DEF Cleanup, EventType
  <2> QED
    BY <2>1, <2>2, <2>3
<1>18. CASE Acknowledge(r)
  <2>1. DbTypeOK'
    BY <1>18 DEF Acknowledge, Goto, DbTypeOK, RunTypeOK, dbVars, ScanState
  <2>2. RunTypeOK' /\ SavingHasRows'
    BY <1>18 DEF Acknowledge, Goto, RunTypeOK, PcValue, ModState, ScanState
  <2>3. BusTypeOK'
    BY <1>18, BusStep DEF Acknowledge, EventType
  <2> QED
    BY <2>1, <2>2, <2>3
<1> QED
  BY <1>1, <1>2, <1>3, <1>4, <1>5, <1>6, <1>7, <1>8, <1>9, <1>10, <1>11, <1>12, <1>13, <1>14, <1>15, <1>16, <1>17, <1>18 DEF RunStep

LEMMA ModuleStepType ==
  ASSUME TypeInv, NEW r \in Runs, NEW m \in Modules, ModuleStep(r, m)
  PROVE  TypeInv'
<1> USE RunOfScan DEF TypeInv, TypeOK, SavingHasRows
<1>1. CASE ScannerReturns(r, m)
  <2>1. DbTypeOK'
    BY <1>1 DEF ScannerReturns, DbTypeOK, dbVars
  <2>2. RunTypeOK' /\ SavingHasRows'
    <3>1. PICK n \in 0..MaxFindings :
            /\ left' = [left EXCEPT ![r][m] = n]
            /\ mods' = [mods EXCEPT ![r][m] = IF n = 0 THEN "done" ELSE "saving"]
      BY <1>1 DEF ScannerReturns
    <3>2. left' \in [Runs -> [Modules -> Nat]]
      BY <3>1, BoundAssumption DEF RunTypeOK
    <3>3. mods' \in [Runs -> [Modules -> ModState]]
      BY <3>1 DEF RunTypeOK, ModState
    <3>4. SavingHasRows'
      BY <3>1, BoundAssumption DEF RunTypeOK, ModState
    <3> QED
      BY <1>1, <3>2, <3>3, <3>4 DEF ScannerReturns, RunTypeOK
  <2>3. BusTypeOK'
    BY <1>1, BusStep DEF ScannerReturns, EventType
  <2> QED
    BY <2>1, <2>2, <2>3
<1>2. CASE SaveFinding(r, m)
  <2>1. DbTypeOK'
    BY <1>2 DEF SaveFinding, WithRow, DbTypeOK, Class
  <2>2. RunTypeOK' /\ SavingHasRows'
    <3>1. mods[r][m] = "saving" /\ left[r][m] \in Nat /\ left[r][m] >= 1
      BY <1>2 DEF SaveFinding, RunTypeOK
    <3>2. left' = [left EXCEPT ![r][m] = left[r][m] - 1]
      BY <1>2 DEF SaveFinding
    <3>3. left' \in [Runs -> [Modules -> Nat]]
      BY <3>1, <3>2 DEF RunTypeOK
    <3>4. mods' \in [Runs -> [Modules -> ModState]]
      <4>1. mods' = mods \/ mods' = [mods EXCEPT ![r][m] = "done"]
        BY <1>2 DEF SaveFinding
      <4> QED
        <5>1. mods \in [Runs -> [Modules -> ModState]] /\ "done" \in ModState
          BY DEF RunTypeOK, ModState
        <5>2. [mods EXCEPT ![r][m] = "done"] \in [Runs -> [Modules -> ModState]]
          BY <5>1
        <5> QED
          BY <4>1, <5>1, <5>2
    <3>5. SavingHasRows'
      <4>1. CASE left[r][m] = 1
        BY <1>2, <3>1, <3>2, <4>1 DEF SaveFinding, RunTypeOK, ModState
      <4>2. CASE left[r][m] # 1
        BY <1>2, <3>1, <3>2, <4>2 DEF SaveFinding, RunTypeOK, ModState
      <4> QED
        BY <4>1, <4>2
    <3> QED
      BY <1>2, <3>3, <3>4, <3>5 DEF SaveFinding, RunTypeOK
  <2>3. BusTypeOK'
    BY <1>2, BusStep DEF SaveFinding, EventType
  <2> QED
    BY <2>1, <2>2, <2>3
<1> QED
  BY <1>1, <1>2 DEF ModuleStep

LEMMA FaultStepType ==
  ASSUME TypeInv, NEW r \in Runs, FaultStep(r)
  PROVE  TypeInv'
<1> USE DEF TypeInv, TypeOK, SavingHasRows, dbVars, busVars
<1>1. CASE CloneFails(r)
  BY <1>1 DEF CloneFails, Goto, DbTypeOK, RunTypeOK, BusTypeOK, PcValue
<1>2. CASE DatabaseFails(r)
  BY <1>2 DEF DatabaseFails, Goto, DbTypeOK, RunTypeOK, BusTypeOK, PcValue
<1>3. ASSUME NEW m \in Modules, ModuleFails(r, m) PROVE TypeInv'
  <2>1. mods' \in [Runs -> [Modules -> ModState]] /\ left' \in [Runs -> [Modules -> Nat]]
    BY <1>3 DEF ModuleFails, RunTypeOK, ModState
  <2>2. pc' \in [Runs -> PcValue]
    <3>1. pc' = pc \/ pc' = [pc EXCEPT ![r] = "catch"]
      BY <1>3 DEF ModuleFails, Goto
    <3>2. pc \in [Runs -> PcValue] /\ "catch" \in PcValue
      BY <1>3 DEF RunTypeOK, PcValue
    <3> QED
      BY <3>1, <3>2
  <2>3. SavingHasRows'
    BY <1>3 DEF ModuleFails, RunTypeOK
  <2> QED
    BY <1>3, <2>1, <2>2, <2>3 DEF ModuleFails, DbTypeOK, RunTypeOK, BusTypeOK
<1> QED
  BY <1>1, <1>2, <1>3 DEF FaultStep

LEMMA ClientStepType ==
  ASSUME TypeInv, NEW c \in Clients, ClientStep(c)
  PROVE  TypeInv'
<1> USE DEF TypeInv, TypeOK, SavingHasRows, dbVars, runVars
<1>1. DbTypeOK' /\ RunTypeOK' /\ SavingHasRows'
  BY DEF ClientStep, CheckOwnership, Subscribe, Disconnect, DbTypeOK, RunTypeOK
<1>2. BusTypeOK'
  BY DEF ClientStep, CheckOwnership, Subscribe, Disconnect, BusTypeOK
<1> QED
  BY <1>1, <1>2

LEMMA RepositoryStepType ==
  ASSUME TypeInv, RepositoryStep
  PROVE  TypeInv'
<1> USE DEF TypeInv, TypeOK
<1>1. RunTypeOK' /\ BusTypeOK' /\ SavingHasRows'
  BY DEF RepositoryStep, SaveUpload, ClearFindings, RunTypeOK, BusTypeOK, SavingHasRows,
     runVars, busVars
<1>2. ASSUME NEW s \in Scans, SaveUpload(s) PROVE DbTypeOK'
  BY <1>2 DEF SaveUpload, WithRow, DbTypeOK, Class, Part
<1>3. ASSUME NEW tenantScans, ClearFindings(tenantScans) PROVE DbTypeOK'
  BY <1>3 DEF ClearFindings, DbTypeOK
<1> QED
  BY <1>1, <1>2, <1>3 DEF RepositoryStep

LEMMA CrashType == TypeInv /\ Crash => TypeInv'
BY DEF TypeInv, TypeOK, SavingHasRows, Crash, DbTypeOK, RunTypeOK, BusTypeOK, dbVars,
   PcValue, ModState, EventType

LEMMA TypeNext == TypeInv /\ [Next]_vars => TypeInv'
<1> SUFFICES ASSUME TypeInv, [Next]_vars PROVE TypeInv'
  OBVIOUS
<1>1. CASE UNCHANGED vars
  BY <1>1 DEF vars, dbVars, runVars, busVars, TypeInv, TypeOK, SavingHasRows,
     DbTypeOK, RunTypeOK, BusTypeOK
<1> QED
  BY <1>1, RunStepType, FaultStepType, ModuleStepType, ClientStepType, RepositoryStepType,
     CrashType DEF Next

\* Every variable keeps its type, whatever fails and however deliveries overlap.
THEOREM TypeCorrect == Spec => []TypeOK
<1>1. Spec => []TypeInv
  BY TypeInit, TypeNext, PTL DEF Spec
<1>2. TypeInv => TypeOK
  BY DEF TypeInv
<1> QED
  BY <1>1, <1>2, PTL
-------------------------------------------------------------------------------
(* With one delivery per job, a run always finds its row in the state it left *)
(* it in.  RunMatchesRow is inductive once types are known.                   *)

LEMMA MatchInit == Init => RunMatchesRow
BY RunOfScan DEF Init, RunMatchesRow, RunMatches

\* The frame of a step of run r: another run is about another scan.
LEMMA OtherRunsKeep ==
  ASSUME MaxDeliveries = 1, TypeOK, RunMatchesRow, NEW r \in Runs, NEW q \in Runs, q # r,
         pc'[q] = pc[q], target'[q] = target[q], from'[q] = from[q],
         \A s \in Scans : s # r[1] => state'[s] = state[s]
  PROVE  RunMatches(q)'
<1>1. q[1] # r[1] /\ q[1] \in Scans
  BY OneRunPerScan, RunOfScan
<1> QED
  BY <1>1 DEF RunMatchesRow, RunMatches

LEMMA RunStepMatch ==
  ASSUME MaxDeliveries = 1, TypeOK, RunMatchesRow, NEW r \in Runs, RunStep(r)
  PROVE  RunMatchesRow'
<1> USE RunOfScan DEF dbVars
<1> DEFINE Frame == /\ \A q \in Runs : q # r => /\ pc'[q] = pc[q]
                                               /\ target'[q] = target[q]
                                               /\ from'[q] = from[q]
                    /\ \A s \in Scans : s # r[1] => state'[s] = state[s]
<1>0. /\ pc \in [Runs -> PcValue] /\ target \in [Runs -> ScanState]
      /\ from \in [Runs -> ScanState] /\ state \in [Scans -> ScanState]
      /\ r[1] \in Scans /\ state[r[1]] \in ScanState /\ RunMatches(r)
  BY DEF TypeOK, DbTypeOK, RunTypeOK, RunMatchesRow
<1>1. CASE Start(r)
  <2>1. Frame
    BY <1>0, <1>1 DEF Start, MayStart, AwaitTransition, Goto
  <2>2. RunMatches(r)'
    BY <1>0, <1>1, Transitions DEF Start, MayStart, AwaitTransition, Goto, RunMatches, ScanState, TERMINAL_STATES
  <2> QED
    BY <2>1, <2>2, OtherRunsKeep DEF RunMatchesRow
<1>2. CASE CheckTransition(r)
  <2>1. Frame
    BY <1>0, <1>2 DEF CheckTransition, Goto
  <2>2. RunMatches(r)'
    BY <1>0, <1>2, Transitions DEF CheckTransition, Goto, RunMatches, ScanState, TERMINAL_STATES
  <2> QED
    BY <2>1, <2>2, OtherRunsKeep DEF RunMatchesRow
<1>3. CASE UpdateState(r)
  <2>1. Frame
    BY <1>0, <1>3 DEF UpdateState, Goto
  <2>2. RunMatches(r)'
    BY <1>0, <1>3, Transitions DEF UpdateState, Goto, RunMatches, ScanState, TERMINAL_STATES
  <2> QED
    BY <2>1, <2>2, OtherRunsKeep DEF RunMatchesRow
<1>4. CASE BeginProvisioning(r)
  <2>1. Frame
    BY <1>0, <1>4 DEF BeginProvisioning, LogTransition, Goto
  <2>2. RunMatches(r)'
    BY <1>0, <1>4, Transitions DEF BeginProvisioning, LogTransition, Goto, RunMatches, ScanState, TERMINAL_STATES
  <2> QED
    BY <2>1, <2>2, OtherRunsKeep DEF RunMatchesRow
<1>5. CASE MakeWorkspace(r)
  <2>1. Frame
    BY <1>0, <1>5 DEF MakeWorkspace, Goto
  <2>2. RunMatches(r)'
    BY <1>0, <1>5, Transitions DEF MakeWorkspace, Goto, RunMatches, ScanState, TERMINAL_STATES
  <2> QED
    BY <2>1, <2>2, OtherRunsKeep DEF RunMatchesRow
<1>6. CASE CloneSucceeds(r)
  <2>1. Frame
    BY <1>0, <1>6 DEF CloneSucceeds, AwaitTransition, Goto
  <2>2. RunMatches(r)'
    BY <1>0, <1>6, Transitions DEF CloneSucceeds, AwaitTransition, Goto, RunMatches, ScanState, TERMINAL_STATES
  <2> QED
    BY <2>1, <2>2, OtherRunsKeep DEF RunMatchesRow
<1>7. CASE BeginScanning(r)
  <2>1. Frame
    BY <1>0, <1>7 DEF BeginScanning, LogTransition, Goto
  <2>2. RunMatches(r)'
    BY <1>0, <1>7, Transitions DEF BeginScanning, LogTransition, Goto, RunMatches, ScanState, TERMINAL_STATES
  <2> QED
    BY <2>1, <2>2, OtherRunsKeep DEF RunMatchesRow
<1>8. CASE AllModulesDone(r)
  <2>1. Frame
    BY <1>0, <1>8 DEF AllModulesDone, AwaitTransition, Goto
  <2>2. RunMatches(r)'
    BY <1>0, <1>8, Transitions DEF AllModulesDone, AwaitTransition, Goto, RunMatches, ScanState, TERMINAL_STATES
  <2> QED
    BY <2>1, <2>2, OtherRunsKeep DEF RunMatchesRow
<1>9. CASE BeginAnalysis(r)
  <2>1. Frame
    BY <1>0, <1>9 DEF BeginAnalysis, LogTransition, Goto
  <2>2. RunMatches(r)'
    BY <1>0, <1>9, Transitions DEF BeginAnalysis, LogTransition, Goto, RunMatches, ScanState, TERMINAL_STATES
  <2> QED
    BY <2>1, <2>2, OtherRunsKeep DEF RunMatchesRow
<1>10. CASE Analyse(r)
  <2>1. Frame
    BY <1>0, <1>10 DEF Analyse, Goto
  <2>2. RunMatches(r)'
    BY <1>0, <1>10, Transitions DEF Analyse, Goto, RunMatches, ScanState, TERMINAL_STATES
  <2> QED
    BY <2>1, <2>2, OtherRunsKeep DEF RunMatchesRow
<1>11. CASE WriteRow(r)
  <2>1. Frame
    BY <1>0, <1>11 DEF WriteRow
  <2>2. RunMatches(r)'
    BY <1>0, <1>11, Transitions DEF WriteRow, RunMatches, ScanState, TERMINAL_STATES
  <2> QED
    BY <2>1, <2>2, OtherRunsKeep DEF RunMatchesRow
<1>12. CASE EndAnalysis(r)
  <2>1. Frame
    BY <1>0, <1>12 DEF EndAnalysis, AwaitTransition, Goto
  <2>2. RunMatches(r)'
    BY <1>0, <1>12, Transitions DEF EndAnalysis, AwaitTransition, Goto, RunMatches, ScanState, TERMINAL_STATES
  <2> QED
    BY <2>1, <2>2, OtherRunsKeep DEF RunMatchesRow
<1>13. CASE CountFindings(r)
  <2>1. Frame
    BY <1>0, <1>13 DEF CountFindings, Goto
  <2>2. RunMatches(r)'
    BY <1>0, <1>13, Transitions DEF CountFindings, Goto, RunMatches, ScanState, TERMINAL_STATES
  <2> QED
    BY <2>1, <2>2, OtherRunsKeep DEF RunMatchesRow
<1>14. CASE StorePosture(r)
  <2>1. Frame
    BY <1>0, <1>14 DEF StorePosture, AwaitTransition, Goto
  <2>2. RunMatches(r)'
    BY <1>0, <1>14, Transitions DEF StorePosture, AwaitTransition, Goto, RunMatches, ScanState, TERMINAL_STATES
  <2> QED
    BY <2>1, <2>2, OtherRunsKeep DEF RunMatchesRow
<1>15. CASE Complete(r)
  <2>1. Frame
    BY <1>0, <1>15 DEF Complete, LogTransition, Goto
  <2>2. RunMatches(r)'
    BY <1>0, <1>15, Transitions DEF Complete, LogTransition, Goto, RunMatches, ScanState, TERMINAL_STATES
  <2> QED
    BY <2>1, <2>2, OtherRunsKeep DEF RunMatchesRow
<1>16. CASE Catch(r)
  <2>1. Frame
    BY <1>0, <1>16 DEF Catch, Goto
  <2>2. RunMatches(r)'
    BY <1>0, <1>16, Transitions DEF Catch, Goto, RunMatches, ScanState, TERMINAL_STATES
  <2> QED
    BY <2>1, <2>2, OtherRunsKeep DEF RunMatchesRow
<1>17. CASE Cleanup(r)
  <2>1. Frame
    BY <1>0, <1>17 DEF Cleanup, Goto
  <2>2. RunMatches(r)'
    BY <1>0, <1>17, Transitions DEF Cleanup, Goto, RunMatches, ScanState, TERMINAL_STATES
  <2> QED
    BY <2>1, <2>2, OtherRunsKeep DEF RunMatchesRow
<1>18. CASE Acknowledge(r)
  <2>1. Frame
    BY <1>0, <1>18 DEF Acknowledge, Goto
  <2>2. RunMatches(r)'
    BY <1>0, <1>18, Transitions DEF Acknowledge, Goto, RunMatches, ScanState, TERMINAL_STATES
  <2> QED
    BY <2>1, <2>2, OtherRunsKeep DEF RunMatchesRow
<1> QED
  BY <1>1, <1>2, <1>3, <1>4, <1>5, <1>6, <1>7, <1>8, <1>9, <1>10, <1>11, <1>12, <1>13, <1>14, <1>15, <1>16, <1>17, <1>18 DEF RunStep

LEMMA FaultStepMatch ==
  ASSUME MaxDeliveries = 1, TypeOK, RunMatchesRow, NEW r \in Runs, FaultStep(r)
  PROVE  RunMatchesRow'
<1> USE RunOfScan DEF dbVars
<1>0. /\ pc \in [Runs -> PcValue] /\ state \in [Scans -> ScanState]
      /\ r[1] \in Scans /\ state[r[1]] \in ScanState /\ RunMatches(r)
  BY DEF TypeOK, DbTypeOK, RunTypeOK, RunMatchesRow
<1>1. UNCHANGED <<state, target, from>>
  BY DEF FaultStep, CloneFails, DatabaseFails, ModuleFails
<1>2. \A q \in Runs : q # r => pc'[q] = pc[q]
  BY <1>0 DEF FaultStep, CloneFails, DatabaseFails, ModuleFails, Goto
<1>3. RunMatches(r)'
  <2>1. \/ pc'[r] = pc[r]
        \/ /\ pc'[r] = "catch"
           /\ pc[r] \in {"mkdir", "clone", "scan", "check", "update", "analyse", "count",
                         "score", "write"}
    BY <1>0 DEF FaultStep, CloneFails, DatabaseFails, ModuleFails, Goto
  <2>2. CASE pc'[r] = pc[r]
    BY <1>0, <1>1, <2>2 DEF RunMatches
  <2>3. CASE pc'[r] = "catch" /\ pc[r] # "catch"
    BY <1>0, <1>1, <2>1, <2>3, Transitions DEF RunMatches, TERMINAL_STATES
  <2> QED
    BY <2>1, <2>2, <2>3
<1> QED
  BY <1>1, <1>2, <1>3, OtherRunsKeep DEF RunMatchesRow

LEMMA QuietStepMatch ==
  ASSUME RunMatchesRow, UNCHANGED <<state, pc, target, from>>
  PROVE  RunMatchesRow'
BY DEF RunMatchesRow, RunMatches

LEMMA CrashMatch ==
  ASSUME TypeOK, RunMatchesRow, Crash
  PROVE  RunMatchesRow'
<1>1. UNCHANGED <<state, target, from>>
  BY DEF Crash, dbVars
<1>2. \A r \in Runs : pc'[r] = pc[r] \/ pc'[r] = "lost"
  BY DEF Crash
<1> QED
  BY <1>1, <1>2 DEF RunMatchesRow, RunMatches

LEMMA MatchNext ==
  ASSUME MaxDeliveries = 1, TypeOK, RunMatchesRow, [Next]_vars
  PROVE  RunMatchesRow'
<1>1. CASE UNCHANGED vars
  BY <1>1, QuietStepMatch DEF vars, dbVars, runVars
<1>2. ASSUME NEW r \in Runs, NEW m \in Modules, ModuleStep(r, m) PROVE RunMatchesRow'
  BY <1>2, QuietStepMatch DEF ModuleStep, ScannerReturns, SaveFinding, dbVars
<1>3. ASSUME NEW c \in Clients, ClientStep(c) PROVE RunMatchesRow'
  BY <1>3, QuietStepMatch DEF ClientStep, CheckOwnership, Subscribe, Disconnect, dbVars, runVars
<1>4. RepositoryStep => RunMatchesRow'
  BY QuietStepMatch DEF RepositoryStep, SaveUpload, ClearFindings, runVars
<1> QED
  BY <1>1, <1>2, <1>3, <1>4, RunStepMatch, FaultStepMatch, CrashMatch DEF Next

\* RunMatchesRow holds of any number of scans and scanners, whatever fails.
THEOREM RunsMatchRows ==
  ASSUME MaxDeliveries = 1
  PROVE  Spec => []RunMatchesRow
<1>1. TypeOK /\ RunMatchesRow /\ [Next]_vars => RunMatchesRow'
  BY MatchNext
<1> QED
  BY <1>1, MatchInit, TypeCorrect, PTL DEF Spec
-------------------------------------------------------------------------------
(* ScanOrchestrator implements ScanLifecycle: only UpdateState and Catch move *)
(* a row, and RunMatchesRow says that what they do is a move of the table.    *)

LEMMA LifecycleInit == Init => Lifecycle!Init
BY DEF Init, Lifecycle!Init

LEMMA LifecycleMove ==
  ASSUME TypeOK, NEW s \in Scans, NEW to \in ScanState, ValidTransition(state[s], to),
         state' = [state EXCEPT ![s] = to]
  PROVE  Lifecycle!Next
<1>1. Lifecycle!ValidTransition(state[s], to)
  BY DEF ValidTransition, VALID_TRANSITIONS, Lifecycle!ValidTransition,
     Lifecycle!VALID_TRANSITIONS, ScanState, Lifecycle!ScanState
<1> QED
  BY <1>1 DEF Lifecycle!Next, Lifecycle!Move, ScanState, Lifecycle!ScanState

LEMMA LifecycleStep ==
  ASSUME TypeOK, RunMatchesRow, [Next]_vars
  PROVE  [Lifecycle!Next]_state
<1> USE RunOfScan DEF TypeOK, DbTypeOK, RunTypeOK
<1>1. ASSUME NEW r \in Runs, UpdateState(r) PROVE Lifecycle!Next
  <2>1. ValidTransition(state[r[1]], target[r]) /\ target[r] \in ScanState
    BY <1>1 DEF UpdateState, RunMatchesRow, RunMatches
  <2> QED
    BY <1>1, <2>1, LifecycleMove DEF UpdateState
<1>2. ASSUME NEW r \in Runs, Catch(r) PROVE [Lifecycle!Next]_state
  <2>1. state[r[1]] \in ScanState /\ state[r[1]] \notin TERMINAL_STATES
    BY <1>2 DEF Catch, RunMatchesRow, RunMatches
  <2>2. ValidTransition(state[r[1]], "FAILED")
    BY <2>1, Transitions DEF ScanState, TERMINAL_STATES
  <2> QED
    BY <1>2, <2>2, LifecycleMove DEF Catch, ScanState
<1>3. ASSUME NEW r \in Runs, RunStep(r), ~UpdateState(r), ~Catch(r) PROVE UNCHANGED state
  BY <1>3 DEF RunStep, Start, CheckTransition, BeginProvisioning, MakeWorkspace, CloneSucceeds,
     BeginScanning, AllModulesDone, BeginAnalysis, Analyse, WriteRow, EndAnalysis,
     CountFindings, StorePosture, Complete, Cleanup, Acknowledge, LogTransition, dbVars
<1>4. ASSUME NEW r \in Runs, FaultStep(r) PROVE UNCHANGED state
  BY <1>4 DEF FaultStep, CloneFails, DatabaseFails, ModuleFails, dbVars
<1>5. ASSUME NEW r \in Runs, NEW m \in Modules, ModuleStep(r, m) PROVE UNCHANGED state
  BY <1>5 DEF ModuleStep, ScannerReturns, SaveFinding, dbVars
<1>6. ASSUME NEW c \in Clients, ClientStep(c) PROVE UNCHANGED state
  BY <1>6 DEF ClientStep, CheckOwnership, Subscribe, Disconnect, dbVars
<1>7. Crash => UNCHANGED state
  BY DEF Crash, dbVars
<1>8. RepositoryStep => UNCHANGED state
  BY DEF RepositoryStep, SaveUpload, ClearFindings
<1>9. UNCHANGED vars => UNCHANGED state
  BY DEF vars, dbVars
<1> QED
  BY <1>1, <1>2, <1>3, <1>4, <1>5, <1>6, <1>7, <1>8, <1>9 DEF Next

\* No row ever skips a state or leaves a terminal one, with one delivery per job.
THEOREM OrchestratorImplementsLifecycle ==
  ASSUME MaxDeliveries = 1
  PROVE  Spec => ImplementsLifecycle
<1>1. TypeOK /\ RunMatchesRow /\ [Next]_vars => [Lifecycle!Next]_state
  BY LifecycleStep
<1> QED
  BY <1>1, LifecycleInit, TypeCorrect, RunsMatchRows, PTL
     DEF Spec, ImplementsLifecycle, Lifecycle!Spec
===============================================================================
