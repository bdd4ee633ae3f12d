--------------------------- MODULE ScanOrchestrator ---------------------------
(***************************************************************************)
(* ScanOrchestrator.run (scan-orchestrator.service.ts) with the event bus  *)
(* it publishes to and the SSE handler of ScansController that listens.    *)
(*                                                                         *)
(* A run is one delivery of a scan job.  Node executes it in segments      *)
(* between awaits: pc[r] names the await the run is suspended at, and an   *)
(* action is what happens when that await settles, up to the next one.     *)
(* The scanning modules of a run are concurrent (Promise.all), and so are  *)
(* the runs.  Failures are chosen by the environment among Faults:         *)
(*   "clone"  mkdir or git clone rejects                                   *)
(*   "module" a scanner rejects                                            *)
(*   "db"     a database call inside the try block rejects                 *)
(*   "failed" the update to FAILED of the catch block rejects (swallowed)  *)
(*   "audit"  AuditLogService.log fails (swallowed by it)                  *)
(*   "rm"     removing the workspace fails (logged only)                   *)
(*   "crash"  the process dies and restarts                                *)
(*   "stall"  BullMQ takes a job back from a worker that still runs it     *)
(*                                                                         *)
(* FindingsRepository writes the same rows: an uploaded finding is saved   *)
(* under the scan that was the latest when it was looked up, whatever has  *)
(* become of it since, and DELETE /findings deletes the rows of all scans  *)
(* of a tenant.                                                            *)
(***************************************************************************)
EXTENDS ScanStateMachine, Integers, Sequences, FiniteSets

CONSTANTS
  Scans,            \* scan rows, each with one job
  Modules,          \* the scanners run() starts in parallel
  Clients,          \* HTTP clients of GET /scans/:id/stream
  ScannerClass,     \* classes of findings scanners report, and uploads
  SecretClass,      \* those the correlator takes for a secret,
  RouteClass,       \*   an unprotected route,
  SsrfClass,        \*   an SSRF
  CriticalClass,    \* those of severity CRITICAL
  HighClass,        \*   and HIGH
  MaxFindings,      \* bound: findings one scanner reports
  MaxOutside,       \* bound: rows uploaded and times the rows are cleared
  MaxDeliveries,    \* deliveries of a job: 1 in memory, 1 + maxStalledCount in BullMQ
  Durable,          \* jobs survive a crash (BullMQ) or not (REDIS_MOCK)
  Faults            \* the failures that may happen

FaultKinds == {"clone", "module", "db", "failed", "audit", "rm", "crash", "stall"}
CredentialChain == "CHAIN_CREDENTIALS"
SsrfChain == "CHAIN_SSRF"
Class == ScannerClass \cup {CredentialChain, SsrfChain}

ASSUME ClassAssumption ==
  /\ SecretClass \subseteq ScannerClass
  /\ RouteClass \subseteq ScannerClass
  /\ SsrfClass \subseteq ScannerClass
  /\ CriticalClass \subseteq ScannerClass
  /\ HighClass \subseteq ScannerClass
\* No scanner reports a finding of the kinds the correlator creates.
ASSUME ChainAssumption == {CredentialChain, SsrfChain} \cap ScannerClass = {}
ASSUME BoundAssumption ==
  MaxFindings \in Nat /\ MaxOutside \in Nat /\ MaxDeliveries \in Nat \ {0}
ASSUME FaultAssumption == Faults \subseteq FaultKinds /\ Durable \in BOOLEAN
ASSUME MockAssumption == ~Durable => MaxDeliveries = 1

Runs == Scans \X (1..MaxDeliveries)
Standards == <<"SOC2", "PCI", "ISO27001", "NIST", "GDPR">>
StandardSet == {Standards[i] : i \in 1..Len(Standards)}
IncidentType == {"CASCADING_ATTACK_CHAIN", "SSRF_CLOUDMETADATA_LEAK"}
EventType == {"module_start", "finding", "module_complete", "complete", "failed"}
Part == {"chains", "certificates", "posture"}   \* what a report is made of
Null == -1          \* a column that was never written

VARIABLES
  state,       \* Scan.state
  completedAt, \* whether Scan.completedAt is set
  posture,     \* Scan.postureScore
  rows,        \* the Finding rows of a scan: how many (n) and of which classes (of)
  certs,       \* the ZKCertificate rows of a scan: status per standard, or "none"
  incidents,   \* the Incident rows the correlator wrote
  logged,      \* the SCAN_STATE_CHANGED entries of the audit log
  outside,     \* how many rows were uploaded and how often they were cleared
  stale,       \* per scan: parts of the report that were made of rows which
               \*   an upload or a clearing has changed since
  workspace,   \* the directory shield-scan-<id>: absent, empty or cloned
  pc, target, from, \* per run: await it is at, state it moves to, state it read
  held,        \* per run: the local workspacePath is set
  mods,        \* per run and module: what the scanner is doing
  left,        \* per run and module: how many findings it has yet to save
  todo,        \* per run: rows the correlator or the auditor has yet to create
  score,       \* per run: the local postureScore
  subjects,    \* scans with a Subject in ScanEventBus.subjects
  conn, watch, last \* per client: connection, scan watched, last event received

dbVars == <<state, completedAt, posture, rows, certs, incidents, logged, outside, stale>>
runVars == <<pc, target, from, held, mods, left, todo, score>>
busVars == <<subjects, conn, watch, last>>
vars == <<dbVars, workspace, runVars, busVars>>
-------------------------------------------------------------------------------
PcValue == {"queued", "check", "update", "audit", "mkdir", "clone", "scan",
            "analyse", "write", "count", "score", "catch", "cleanup",
            "done", "acked", "lost"}
ModState == {"off", "running", "saving", "done", "failed"}
Write == ({"finding"} \X Class \X {"OPEN"})
           \cup ({"incident"} \X IncidentType \X {"OPEN"})
           \cup ({"certificate"} \X StandardSet \X {"PASSED", "FAILED"})

DbTypeOK ==
  /\ state \in [Scans -> ScanState]
  /\ completedAt \in [Scans -> BOOLEAN]
  /\ posture \in [Scans -> Int]
  /\ rows \in [Scans -> [n : Nat, of : SUBSET Class]]
  /\ certs \in [Scans -> [StandardSet -> {"none", "PASSED", "FAILED"}]]
  /\ incidents \in [Scans -> SUBSET IncidentType]
  /\ logged \in [Scans -> SUBSET (ScanState \X ScanState)]
  /\ outside \in Nat
  /\ stale \in [Scans -> SUBSET Part]

RunTypeOK ==
  /\ workspace \in [Scans -> {"absent", "empty", "cloned"}]
  /\ pc \in [Runs -> PcValue]
  /\ target \in [Runs -> ScanState]
  /\ from \in [Runs -> ScanState]
  /\ held \in [Runs -> BOOLEAN]
  /\ mods \in [Runs -> [Modules -> ModState]]
  /\ left \in [Runs -> [Modules -> Nat]]
  /\ todo \in [Runs -> Seq(Write)]
  /\ score \in [Runs -> Int]

BusTypeOK ==
  /\ subjects \subseteq Scans
  /\ conn \in [Clients -> {"idle", "checked", "open", "ended"}]
  /\ watch \in [Clients -> Scans]
  /\ last \in [Clients -> EventType \cup {"none"}]

TypeOK == DbTypeOK /\ RunTypeOK /\ BusTypeOK

Init ==
  /\ state = [s \in Scans |-> "AUTHORIZED"]
  /\ completedAt = [s \in Scans |-> FALSE]
  /\ posture = [s \in Scans |-> Null]
  /\ rows = [s \in Scans |-> [n |-> 0, of |-> {}]]
  /\ certs = [s \in Scans |-> [d \in StandardSet |-> "none"]]
  /\ incidents = [s \in Scans |-> {}]
  /\ logged = [s \in Scans |-> {}]
  /\ outside = 0
  /\ stale = [s \in Scans |-> {}]
  /\ workspace = [s \in Scans |-> "absent"]
  /\ pc = [r \in Runs |-> "queued"]
  /\ target = [r \in Runs |-> "PROVISIONING"]
  /\ from = [r \in Runs |-> "AUTHORIZED"]
  /\ held = [r \in Runs |-> FALSE]
  /\ mods = [r \in Runs |-> [m \in Modules |-> "off"]]
  /\ left = [r \in Runs |-> [m \in Modules |-> 0]]
  /\ todo = [r \in Runs |-> <<>>]
  /\ score = [r \in Runs |-> Null]
  /\ subjects = {}
  /\ conn = [c \in Clients |-> "idle"]
  /\ watch \in [Clients -> Scans]
  /\ last = [c \in Clients |-> "none"]
-------------------------------------------------------------------------------
(* ScanEventBus *)

Listening(s) == {c \in Clients : s \in subjects /\ conn[c] = "open" /\ watch[c] = s}

\* subject.next: every subscriber of the scan sees the event; no Subject, no effect.
Emit(s, e) ==
  /\ last' = [c \in Clients |-> IF c \in Listening(s) THEN e ELSE last[c]]
  /\ UNCHANGED <<subjects, conn, watch>>

\* Mutant: the closing event without subject.complete().
EmitAndComplete_KeepsOpen(s, e) ==
  /\ last' = [c \in Clients |-> IF c \in Listening(s) THEN e ELSE last[c]]
  /\ subjects' = subjects \ {s}
  /\ UNCHANGED <<conn, watch>>

\* The closing event, then subject.complete() and subjects.delete().
EmitAndComplete(s, e) ==
  /\ last' = [c \in Clients |-> IF c \in Listening(s) THEN e ELSE last[c]]
  /\ conn' = [c \in Clients |-> IF c \in Listening(s) THEN "ended" ELSE conn[c]]
  /\ subjects' = subjects \ {s}
  /\ UNCHANGED watch

Goto(r, there) == pc' = [pc EXCEPT ![r] = there]

\* Start of this.transition(id, to): suspended at findFirst.
AwaitTransition(r, to) ==
  /\ Goto(r, "check")
  /\ target' = [target EXCEPT ![r] = to]
-------------------------------------------------------------------------------
(* ScanOrchestrator.transition *)

\* BullMQ hands out a job again only after it lost the previous delivery.
MayStart(r) ==
  /\ pc[r] = "queued"
  /\ r[2] > 1 => LET before == pc[<<r[1], r[2] - 1>>] IN
                   \/ before = "lost"
                   \/ "stall" \in Faults /\ before \notin {"queued", "acked"}

Start(r) ==
  /\ MayStart(r)
  /\ AwaitTransition(r, "PROVISIONING")
  /\ UNCHANGED <<dbVars, workspace, from, held, mods, left, todo, score, busVars>>

\* Mutant: the new state is written whatever the old one was.
CheckTransition_Unchecked(r) ==
  /\ pc[r] = "check"
  /\ Goto(r, "update")
  /\ from' = [from EXCEPT ![r] = state[r[1]]]
  /\ UNCHANGED <<dbVars, workspace, target, held, mods, left, todo, score, busVars>>

\* Mutant: a delivery that finds the scan already started returns early.
CheckTransition_ReturnsEarly(r) ==
  /\ pc[r] = "check"
  /\ IF ValidTransition(state[r[1]], target[r])
       THEN Goto(r, "update") /\ from' = [from EXCEPT ![r] = state[r[1]]]
       ELSE Goto(r, "cleanup") /\ UNCHANGED from
  /\ UNCHANGED <<dbVars, workspace, target, held, mods, left, todo, score, busVars>>

\* findFirst answers; an illegal move throws into run()'s catch.
CheckTransition(r) ==
  /\ pc[r] = "check"
  /\ IF ValidTransition(state[r[1]], target[r])
       THEN Goto(r, "update") /\ from' = [from EXCEPT ![r] = state[r[1]]]
       ELSE Goto(r, "catch") /\ UNCHANGED from
  /\ UNCHANGED <<dbVars, workspace, target, held, mods, left, todo, score, busVars>>

UpdateState(r) ==
  /\ pc[r] = "update"
  /\ state' = [state EXCEPT ![r[1]] = target[r]]
  /\ completedAt' = [completedAt EXCEPT ![r[1]] = @ \/ target[r] = "COMPLETE"]
  /\ Goto(r, "audit")
  /\ UNCHANGED <<posture, rows, certs, incidents, logged,
                 outside, stale, workspace, target, from,
                 held, mods, left, todo, score, busVars>>

\* Mutant: the entry's "from" is read again after the update.
LogTransition_ReadsAgain(r) ==
  /\ pc[r] = "audit"
  /\ logged' = [logged EXCEPT ![r[1]] = @ \cup {<<state[r[1]], target[r]>>}]
  /\ UNCHANGED <<state, completedAt, posture, rows, certs, incidents,
                 outside, stale, workspace,
                 target, from, held, todo, score>>

\* The audit entry carries the state that was read, not the one overwritten.
LogTransition(r) ==
  /\ pc[r] = "audit"
  /\ \/ logged' = [logged EXCEPT ![r[1]] = @ \cup {<<from[r], target[r]>>}]
     \/ "audit" \in Faults /\ UNCHANGED logged
  /\ UNCHANGED <<state, completedAt, posture, rows, certs, incidents,
                 outside, stale, workspace,
                 target, from, held, todo, score>>
-------------------------------------------------------------------------------
(* The phases of run(): what follows each transition. *)

BeginProvisioning(r) ==
  /\ target[r] = "PROVISIONING"
  /\ LogTransition(r)
  /\ Emit(r[1], "module_start")
  /\ Goto(r, "mkdir")
  /\ UNCHANGED <<mods, left>>

\* rm -rf of a leftover directory, then mkdir.
MakeWorkspace(r) ==
  /\ pc[r] = "mkdir"
  /\ workspace' = [workspace EXCEPT ![r[1]] = "empty"]
  /\ Goto(r, "clone")
  /\ UNCHANGED <<dbVars, target, from, held, mods, left, todo, score, busVars>>

\* workspacePath is assigned only when cloneRepository returns.
CloneSucceeds(r) ==
  /\ pc[r] = "clone"
  /\ workspace' = [workspace EXCEPT ![r[1]] = "cloned"]
  /\ held' = [held EXCEPT ![r] = TRUE]
  /\ AwaitTransition(r, "SCANNING")
  /\ UNCHANGED <<dbVars, from, mods, left, todo, score, busVars>>

\* mkdir rejects, or git does: it empties the directory but leaves it there.
\* git also refuses a directory another delivery of the job has filled.
CloneFails(r) ==
  /\ \/ pc[r] \in {"mkdir", "clone"} /\ "clone" \in Faults
     \/ pc[r] = "clone" /\ workspace[r[1]] = "cloned"
  /\ Goto(r, "catch")
  /\ UNCHANGED <<dbVars, workspace, target, from, held, mods, left, todo, score, busVars>>

\* Promise.all calls every mapped function up to its first await.
BeginScanning(r) ==
  /\ target[r] = "SCANNING"
  /\ LogTransition(r)
  /\ mods' = [mods EXCEPT ![r] = [m \in Modules |-> "running"]]
  /\ Emit(r[1], "module_start")
  /\ Goto(r, "scan")
  /\ UNCHANGED left

\* A scanner resolves; with nothing to save it completes in the same segment.
ScannerReturns(r, m) ==
  /\ mods[r][m] = "running"
  /\ \E n \in 0..MaxFindings :
       /\ left' = [left EXCEPT ![r][m] = n]
       /\ mods' = [mods EXCEPT ![r][m] = IF n = 0 THEN "done" ELSE "saving"]
       /\ IF n = 0 THEN Emit(r[1], "module_complete") ELSE UNCHANGED busVars
  /\ UNCHANGED <<dbVars, workspace, pc, target, from, held, todo, score>>

WithRow(found, c) == [n |-> found.n + 1, of |-> found.of \cup {c}]

\* Mutant: off by one, the loop goes on past the last finding.
SaveFinding_OneMore(r, m) ==
  /\ mods[r][m] = "saving"
  /\ \E c \in ScannerClass : rows' = [rows EXCEPT ![r[1]] = WithRow(@, c)]
  /\ left' = [left EXCEPT ![r][m] = @ - 1]
  /\ IF left[r][m] = 0
       THEN /\ mods' = [mods EXCEPT ![r][m] = "done"]
            /\ Emit(r[1], "module_complete")
       ELSE UNCHANGED mods /\ Emit(r[1], "finding")
  /\ UNCHANGED <<state, completedAt, posture, certs, incidents, logged,
                 outside, stale, workspace,
                 pc, target, from, held, todo, score>>

\* finding.create resolves: announce it, then the next one or the module's end.
SaveFinding(r, m) ==
  /\ mods[r][m] = "saving"
  /\ \E c \in ScannerClass : rows' = [rows EXCEPT ![r[1]] = WithRow(@, c)]
  /\ left' = [left EXCEPT ![r][m] = @ - 1]
  /\ IF left[r][m] = 1
       THEN /\ mods' = [mods EXCEPT ![r][m] = "done"]
            /\ Emit(r[1], "module_complete")
       ELSE UNCHANGED mods /\ Emit(r[1], "finding")
  /\ UNCHANGED <<state, completedAt, posture, certs, incidents, logged,
                 outside, stale, workspace,
                 pc, target, from, held, todo, score>>

\* A mapped function rejects: so does Promise.all, while the others run on.
ModuleFails(r, m) ==
  /\ \/ mods[r][m] = "running" /\ "module" \in Faults
     \/ mods[r][m] = "saving" /\ "db" \in Faults
  /\ mods' = [mods EXCEPT ![r][m] = "failed"]
  /\ left' = [left EXCEPT ![r][m] = 0]
  /\ IF pc[r] = "scan" THEN Goto(r, "catch") ELSE UNCHANGED pc
  /\ UNCHANGED <<dbVars, workspace, target, from, held, todo, score, busVars>>

\* Mutant: Promise.race instead of Promise.all.
AllModulesDone_First(r) ==
  /\ pc[r] = "scan"
  /\ \E m \in Modules : mods[r][m] = "done"
  /\ AwaitTransition(r, "CORRELATING")
  /\ UNCHANGED <<dbVars, workspace, from, held, mods, left, todo, score, busVars>>

AllModulesDone(r) ==
  /\ pc[r] = "scan"
  /\ \A m \in Modules : mods[r][m] = "done"
  /\ AwaitTransition(r, "CORRELATING")
  /\ UNCHANGED <<dbVars, workspace, from, held, mods, left, todo, score, busVars>>

BeginAnalysis(r) ==
  /\ target[r] \in {"CORRELATING", "REPORTING"}
  /\ LogTransition(r)
  /\ Emit(r[1], "module_start")
  /\ Goto(r, "analyse")
  /\ UNCHANGED <<mods, left>>
-------------------------------------------------------------------------------
(* FindingCorrelator and ComplianceAuditor: one read, then one row at a time. *)

Has(found, classes) == found.of \cap classes # {}

Chain(c, type) == <<<<"finding", c, "OPEN">>, <<"incident", type, "OPEN">>>>

ChainWrites(found) ==
  LET secrets == Has(found, SecretClass) IN
    (IF secrets /\ Has(found, RouteClass)
       THEN Chain(CredentialChain, "CASCADING_ATTACK_CHAIN") ELSE <<>>)
    \o (IF secrets /\ Has(found, SsrfClass \cup {SsrfChain})
          THEN Chain(SsrfChain, "SSRF_CLOUDMETADATA_LEAK") ELSE <<>>)

Verdict(std, found) ==
  LET critical == Has(found, CriticalClass \cup {CredentialChain, SsrfChain})
      high == Has(found, HighClass)
  IN  IF (std = "PCI" /\ (critical \/ high)) \/ (std = "SOC2" /\ critical)
        THEN "FAILED" ELSE "PASSED"

CertificateWrites(found) ==
  [i \in 1..Len(Standards) |-> <<"certificate", Standards[i], Verdict(Standards[i], found)>>]

PartOf(phase) == IF phase = "CORRELATING" THEN "chains" ELSE "certificates"

Analyse(r) ==
  /\ pc[r] = "analyse"
  /\ todo' = [todo EXCEPT ![r] = IF target[r] = "CORRELATING" THEN ChainWrites(rows[r[1]])
                                                            ELSE CertificateWrites(rows[r[1]])]
  /\ stale' = [stale EXCEPT ![r[1]] = @ \ {PartOf(target[r])}]
  /\ Goto(r, "write")
  /\ UNCHANGED <<state, completedAt, posture, rows, certs, incidents, logged, outside,
                 workspace, target, from, held, mods, left, score, busVars>>

WriteRow(r) ==
  /\ pc[r] = "write"
  /\ todo[r] # <<>>
  /\ LET w == Head(todo[r]) s == r[1] IN
       /\ rows' = IF w[1] = "finding" THEN [rows EXCEPT ![s] = WithRow(@, w[2])] ELSE rows
       /\ incidents' = IF w[1] = "incident"
                         THEN [incidents EXCEPT ![s] = @ \cup {w[2]}] ELSE incidents
       /\ certs' = IF w[1] = "certificate" THEN [certs EXCEPT ![s][w[2]] = w[3]] ELSE certs
  /\ todo' = [todo EXCEPT ![r] = Tail(@)]
  /\ UNCHANGED <<state, completedAt, posture, logged,
                 outside, stale, workspace, pc, target, from,
                 held, mods, left, score, busVars>>

\* Mutant: from CORRELATING straight to COMPLETE.
EndAnalysis_SkipsReporting(r) ==
  /\ pc[r] = "write"
  /\ todo[r] = <<>>
  /\ AwaitTransition(r, "COMPLETE")
  /\ UNCHANGED <<dbVars, workspace, from, held, mods, left, todo, score, busVars>>

\* All rows are written and the one-second sleep is over.
EndAnalysis(r) ==
  /\ pc[r] = "write"
  /\ todo[r] = <<>>
  /\ IF target[r] = "CORRELATING"
       THEN AwaitTransition(r, "REPORTING")
       ELSE Goto(r, "count") /\ UNCHANGED target
  /\ UNCHANGED <<dbVars, workspace, from, held, mods, left, todo, score, busVars>>

PostureOf(n) == IF 100 - n * 12 > 10 THEN 100 - n * 12 ELSE 10

CountFindings(r) ==
  /\ pc[r] = "count"
  /\ score' = [score EXCEPT ![r] = PostureOf(rows[r[1]].n)]
  /\ stale' = [stale EXCEPT ![r[1]] = @ \ {"posture"}]
  /\ Goto(r, "score")
  /\ UNCHANGED <<state, completedAt, posture, rows, certs, incidents, logged, outside,
                 workspace, target, from, held, mods, left, todo, busVars>>

\* Mutant: the posture update completes the row too.
StorePosture_CompletesRow(r) ==
  /\ pc[r] = "score"
  /\ posture' = [posture EXCEPT ![r[1]] = score[r]]
  /\ state' = [state EXCEPT ![r[1]] = "COMPLETE"]
  /\ AwaitTransition(r, "COMPLETE")
  /\ UNCHANGED <<completedAt, rows, certs, incidents, logged,
                 outside, stale, workspace, from,
                 held, mods, left, todo, score, busVars>>

StorePosture(r) ==
  /\ pc[r] = "score"
  /\ posture' = [posture EXCEPT ![r[1]] = score[r]]
  /\ AwaitTransition(r, "COMPLETE")
  /\ UNCHANGED <<state, completedAt, rows, certs, incidents, logged,
                 outside, stale, workspace, from,
                 held, mods, left, todo, score, busVars>>

Complete(r) ==
  /\ target[r] = "COMPLETE"
  /\ LogTransition(r)
  /\ EmitAndComplete(r[1], "complete")
  /\ Goto(r, "cleanup")
  /\ UNCHANGED <<mods, left>>
-------------------------------------------------------------------------------
(* The failure path, the finally block and the end of the job. *)

DatabaseFails(r) ==
  /\ "db" \in Faults
  /\ \/ pc[r] \in {"check", "update", "analyse", "count", "score"}
     \/ pc[r] = "write" /\ todo[r] # <<>>
  /\ Goto(r, "catch")
  /\ UNCHANGED <<dbVars, workspace, target, from, held, mods, left, todo, score, busVars>>

\* Mutant: the failure is announced and the stream is left open.
Catch_KeepsStream(r) ==
  /\ pc[r] = "catch"
  /\ state' = [state EXCEPT ![r[1]] = "FAILED"]
  /\ Emit(r[1], "failed")
  /\ Goto(r, "cleanup")
  /\ UNCHANGED <<completedAt, posture, rows, certs, incidents, logged,
                 outside, stale, workspace,
                 target, from, held, mods, left, todo, score>>

\* catch: state := FAILED without asking the state machine, errors swallowed.
Catch(r) ==
  /\ pc[r] = "catch"
  /\ \/ state' = [state EXCEPT ![r[1]] = "FAILED"]
     \/ "failed" \in Faults /\ UNCHANGED state
  /\ EmitAndComplete(r[1], "failed")
  /\ Goto(r, "cleanup")
  /\ UNCHANGED <<completedAt, posture, rows, certs, incidents, logged,
                 outside, stale, workspace,
                 target, from, held, mods, left, todo, score>>

\* Mutant: the directory is removed at the end of the try block.
Cleanup_OnSuccess(r) ==
  /\ pc[r] = "cleanup"
  /\ workspace' = IF held[r] /\ target[r] = "COMPLETE"
                    THEN [workspace EXCEPT ![r[1]] = "absent"] ELSE workspace
  /\ Goto(r, "done")
  /\ UNCHANGED <<dbVars, target, from, held, mods, left, todo, score, busVars>>

\* finally: only a workspace this run holds is removed.
Cleanup(r) ==
  /\ pc[r] = "cleanup"
  /\ \/ workspace' = IF held[r] THEN [workspace EXCEPT ![r[1]] = "absent"] ELSE workspace
     \/ "rm" \in Faults /\ UNCHANGED workspace
  /\ Goto(r, "done")
  /\ UNCHANGED <<dbVars, target, from, held, mods, left, todo, score, busVars>>

\* The queue learns that process() resolved.
Acknowledge(r) ==
  /\ pc[r] = "done"
  /\ Goto(r, "acked")
  /\ UNCHANGED <<dbVars, workspace, target, from, held, mods, left, todo, score, busVars>>

\* The process dies: rows, directories and BullMQ's jobs survive, nothing else does.
Crash ==
  /\ "crash" \in Faults
  /\ pc' = [r \in Runs |-> IF pc[r] = "acked" \/ (pc[r] = "queued" /\ Durable)
                             THEN pc[r] ELSE "lost"]
  /\ mods' = [r \in Runs |-> [m \in Modules |-> "off"]]
  /\ left' = [r \in Runs |-> [m \in Modules |-> 0]]
  /\ todo' = [r \in Runs |-> <<>>]
  /\ subjects' = {}
  /\ conn' = [c \in Clients |-> IF conn[c] = "ended" THEN "ended" ELSE "idle"]
  /\ last' = [c \in Clients |-> IF conn[c] = "ended" THEN last[c] ELSE "none"]
  /\ UNCHANGED <<dbVars, workspace, target, from, held, score, watch>>
-------------------------------------------------------------------------------
(* ScansController.stream *)

\* findById found the scan; the handler has yet to subscribe.
CheckOwnership(c) ==
  /\ conn[c] = "idle"
  /\ \E s \in Scans : watch' = [watch EXCEPT ![c] = s]
  /\ conn' = [conn EXCEPT ![c] = "checked"]
  /\ last' = [last EXCEPT ![c] = "none"]
  /\ UNCHANGED <<dbVars, workspace, runVars, subjects>>

\* getObservable: getOrCreate, whatever has become of the scan meanwhile.
Subscribe(c) ==
  /\ conn[c] = "checked"
  /\ subjects' = subjects \cup {watch[c]}
  /\ conn' = [conn EXCEPT ![c] = "open"]
  /\ UNCHANGED <<dbVars, workspace, runVars, watch, last>>

\* The client goes away; the Subject stays in the map.
Disconnect(c) ==
  /\ conn[c] = "open"
  /\ conn' = [conn EXCEPT ![c] = "idle"]
  /\ UNCHANGED <<dbVars, workspace, runVars, subjects, watch, last>>
-------------------------------------------------------------------------------
(* FindingsRepository, on behalf of requests that have nothing to do with runs. *)

\* finding.create of save(): s was the latest scan two awaits ago.
SaveUpload(s) ==
  /\ outside < MaxOutside
  /\ \E c \in ScannerClass : rows' = [rows EXCEPT ![s] = WithRow(@, c)]
  /\ stale' = [stale EXCEPT ![s] = @ \cup {"certificates", "posture"}]
  /\ outside' = outside + 1
  /\ UNCHANGED <<state, completedAt, posture, certs, incidents, logged, workspace,
                 runVars, busVars>>

\* deleteMany of clear(): the findings of all scans of a tenant, and findings only.
ClearFindings(tenantScans) ==
  /\ outside < MaxOutside
  /\ rows' = [s \in Scans |-> IF s \in tenantScans THEN [n |-> 0, of |-> {}] ELSE rows[s]]
  /\ stale' = [s \in Scans |-> IF s \in tenantScans THEN Part ELSE stale[s]]
  /\ outside' = outside + 1
  /\ UNCHANGED <<state, completedAt, posture, certs, incidents, logged, workspace,
                 runVars, busVars>>
-------------------------------------------------------------------------------
RunStep(r) ==
  \/ Start(r) \/ CheckTransition(r) \/ UpdateState(r)
  \/ BeginProvisioning(r) \/ MakeWorkspace(r) \/ CloneSucceeds(r)
  \/ BeginScanning(r) \/ AllModulesDone(r) \/ BeginAnalysis(r)
  \/ Analyse(r) \/ WriteRow(r) \/ EndAnalysis(r)
  \/ CountFindings(r) \/ StorePosture(r) \/ Complete(r)
  \/ Catch(r) \/ Cleanup(r) \/ Acknowledge(r)

ModuleStep(r, m) == ScannerReturns(r, m) \/ SaveFinding(r, m)

FaultStep(r) ==
  CloneFails(r) \/ DatabaseFails(r) \/ \E m \in Modules : ModuleFails(r, m)

RepositoryStep ==
  \/ \E s \in Scans : SaveUpload(s)
  \/ \E tenantScans \in SUBSET Scans \ {{}} : ClearFindings(tenantScans)

ClientStep(c) == CheckOwnership(c) \/ Subscribe(c) \/ Disconnect(c)

Next ==
  \/ \E r \in Runs : RunStep(r) \/ FaultStep(r) \/ \E m \in Modules : ModuleStep(r, m)
  \/ \E c \in Clients : ClientStep(c)
  \/ RepositoryStep
  \/ Crash

Spec == Init /\ [][Next]_vars

\* Every await settles: clone, scanners and queries have timeouts, and Node runs
\* the continuation of a settled promise.
Fairness ==
  \A r \in Runs : /\ WF_vars(RunStep(r))
                  /\ \A m \in Modules : WF_vars(ModuleStep(r, m))

FairSpec == Spec /\ Fairness
-------------------------------------------------------------------------------
(* Properties *)

Path == <<"AUTHORIZED", "PROVISIONING", "SCANNING", "CORRELATING", "REPORTING", "COMPLETE">>
RunsOf(s) == {r \in Runs : r[1] = s}
Finished == {"cleanup", "done", "acked", "lost"}

(* A run never loses track of its row: between awaits, the row is in the      *)
(* state the run put it in, so no check of the state machine ever rejects a   *)
(* run, and the catch block only overwrites the state of an active scan.      *)
(* (One delivery per job.)                                                    *)
RunMatches(r) ==
  LET now == state[r[1]] IN
    /\ pc[r] = "queued" => now = "AUTHORIZED"
    /\ pc[r] \in {"check", "update"} => /\ ValidTransition(now, target[r])
                                        /\ target[r] \notin {"FAILED", "ARCHIVED"}
    /\ pc[r] = "update" => from[r] = now
    /\ pc[r] = "audit" => now = target[r]
    /\ pc[r] \in {"mkdir", "clone"} => now = "PROVISIONING" /\ target[r] = now
    /\ pc[r] = "scan" => now = "SCANNING" /\ target[r] = now
    /\ pc[r] \in {"analyse", "write"} => now \in {"CORRELATING", "REPORTING"} /\ target[r] = now
    /\ pc[r] \in {"count", "score"} => now = "REPORTING" /\ target[r] = now
    /\ pc[r] = "catch" => now \notin TERMINAL_STATES

RunMatchesRow == \A r \in Runs : RunMatches(r)

(* What a COMPLETE scan shows is about all of its findings, uploaded ones too, *)
(* as far as they were there when it looked: the posture score counts every   *)
(* row, and each of the five certificates has the verdict those rows give,    *)
(* unless somebody uploaded or cleared findings of the scan after the score,  *)
(* or the verdicts, were drawn from them.  An attack-chain finding always has *)
(* its incident, and an incident its finding unless they were cleared.        *)
ReportIsFinal ==
  \A s \in Scans : state[s] = "COMPLETE" =>
    /\ "posture" \notin stale[s] => posture[s] = PostureOf(rows[s].n)
    /\ "certificates" \notin stale[s] =>
         \A d \in StandardSet : certs[s][d] = Verdict(d, rows[s])
    /\ Has(rows[s], {CredentialChain}) => "CASCADING_ATTACK_CHAIN" \in incidents[s]
    /\ Has(rows[s], {SsrfChain}) => "SSRF_CLOUDMETADATA_LEAK" \in incidents[s]
    /\ "chains" \notin stale[s] =>
         /\ "CASCADING_ATTACK_CHAIN" \in incidents[s] => Has(rows[s], {CredentialChain})
         /\ "SSRF_CLOUDMETADATA_LEAK" \in incidents[s] => Has(rows[s], {SsrfChain})

(* Nothing a run started outlives its success, and what it cloned outlives it *)
(* not at all: scanners start in the clone, none runs or saves once the run   *)
(* is past the scanning phase unless it is on its way to FAILED, whatever     *)
(* order they finished in, and a run that got a clone leaves none behind.     *)
(* (Unless rm itself fails.)                                                  *)
NothingOutlivesTheRun ==
  \A r \in Runs :
    /\ pc[r] = "scan" => held[r] /\ workspace[r[1]] = "cloned"
    /\ (\E m \in Modules : mods[r][m] \in {"running", "saving"})
         => pc[r] \in {"scan", "catch"} \/ state[r[1]] = "FAILED"
    /\ pc[r] \in {"done", "acked"} /\ held[r] => workspace[r[1]] = "absent"

(* A stream that ended told its client how the scan ended, and told the truth *)
(* about the row; an open stream has a Subject to hear from and has not been  *)
(* told of an end.  (One delivery per job, FAILED is stored.)                 *)
StreamTellsOutcome ==
  \A c \in Clients :
    /\ conn[c] = "ended" => /\ last[c] = "complete" => state[watch[c]] = "COMPLETE"
                            /\ last[c] = "failed" => state[watch[c]] = "FAILED"
                            /\ last[c] \in {"complete", "failed"}
    /\ conn[c] = "open" => watch[c] \in subjects /\ last[c] \notin {"complete", "failed"}

(* The orchestrator moves a row only as the lifecycle promises.  (One         *)
(* delivery per job.)                                                         *)
Lifecycle == INSTANCE ScanLifecycle
ImplementsLifecycle == Lifecycle!Spec

(* However often a crash makes BullMQ hand a job out again, its scanners run  *)
(* in one delivery only: the state check is what keeps a retry from saving    *)
(* every finding twice.                                                       *)
ScannedOnce ==
  \A s \in Scans : \A r1, r2 \in RunsOf(s) : held[r1] /\ held[r2] /\ pc[r1] = "scan" => r1 = r2

(* The audit trail has no gap: the moves logged for a scan are the first      *)
(* moves of the path to COMPLETE, and at most the last move made is missing,  *)
(* even over a crash between the update and the entry.                        *)
AuditTrailHasNoGap ==
  \A s \in Scans : \E n \in 0..5 :
    /\ logged[s] = {<<Path[i], Path[i + 1]>> : i \in 1..n}
    /\ state[s] # "FAILED" => state[s] = Path[n + 1] \/ (n < 5 /\ state[s] = Path[n + 2])

(* No run changes the report of a scan that was COMPLETE, not even another    *)
(* delivery of its job: certificates, incidents and posture stay what they    *)
(* were, and findings come and go by uploads and clearings only.              *)
ReportFrozen ==
  [][\A s \in Scans : completedAt[s] =>
       /\ UNCHANGED <<certs[s], incidents[s], posture[s]>>
       /\ rows'[s] # rows[s] => outside' # outside]_vars

(* Every scan comes to rest in a terminal state, whatever fails inside its    *)
(* runs and even when two deliveries of its job overlap, unless a crash cuts  *)
(* the last delivery short: the one BullMQ makes after a crash takes the scan *)
(* to its end wherever the crash left it.  (FAILED is stored.)                *)
ScansEnd ==
  /\ \A s \in Scans : <>[](\/ state[s] \in TERMINAL_STATES
                           \/ \E r \in RunsOf(s) : pc[r] = "lost")
  /\ \A r \in Runs : (r[2] > 1 /\ pc[r] = "queued" /\ pc[<<r[1], r[2] - 1>>] = "lost")
                      ~> (state[r[1]] \in TERMINAL_STATES \/ pc[r] = "lost")

(* A stream opened before its run has published the end does not stay open.   *)
StreamEnds ==
  \A c \in Clients, r \in Runs :
    (conn[c] = "open" /\ r = <<watch[c], 1>> /\ pc[r] \notin Finished) ~> conn[c] # "open"

(* Claims of the repository that the code does not keep; see the findings.    *)

(* scan-orchestrator.service.ts:224: the directory is removed in a finally    *)
(* block regardless of scan outcome.                                          *)
WorkspaceAlwaysRemoved ==
  \A r \in Runs : pc[r] \in {"done", "acked"} => workspace[r[1]] = "absent"

(* scan-state.machine.ts:15: a COMPLETE scan can only be archived.            *)
CompleteIsTerminal ==
  [][\A s \in Scans : state[s] = "COMPLETE" => state'[s] \in {"COMPLETE", "ARCHIVED"}]_vars
===============================================================================
