----------------------------- MODULE ScansService -----------------------------
(***************************************************************************)
(* ScansService.create (scans.service.ts) in front of the in-memory queue: *)
(* concurrent requests of tenants count their scans, are admitted or       *)
(* refused, insert a scan row and hand its job to the queue.  A job is     *)
(* named by the request that creates it.  Of a run only its effect on the  *)
(* row is kept -- ScanOrchestrator has the rest.                           *)
(***************************************************************************)
EXTENDS ScanQueue

CONSTANTS
  Tenants,
  TenantOf,                        \* the tenant a request is authenticated for
  MAX_CONCURRENT_SCANS_PER_TENANT,
  MAX_SCANS_PER_HOUR_PER_TENANT,
  MaxInFlight,                     \* bound: requests of a tenant inside create() at once
  MaxRestarts                      \* bound: restarts of the process

ASSUME TenantAssumption == TenantOf \in [Jobs -> Tenants] /\ IsFiniteSet(Jobs)
ASSUME LimitAssumption ==
  /\ MAX_CONCURRENT_SCANS_PER_TENANT \in Nat \ {0}
  /\ MAX_SCANS_PER_HOUR_PER_TENANT \in Nat \ {0}
  /\ MaxInFlight \in Nat \ {0}
  /\ MaxRestarts \in Nat

VARIABLES
  request,     \* where create() is suspended, idle before and over after it
  activeCount, \* what the first count answered, or Unknown
  hourlyCount, \* what the second count answered, or Unknown
  row,         \* the scan row: none, active (not in TERMINAL_STATES) or terminal
  recent,      \* scans with startedAt within the last hour
  restarts     \* restarts so far

requestVars == <<request, activeCount, hourlyCount>>
vars == <<queueVars, requestVars, row, recent, restarts>>

Unknown == -1
InFlight == {"counting", "insert", "enqueue"}
RequestState == InFlight \cup {"idle", "over"}

AdmissionTypeOK ==
  /\ request \in [Jobs -> RequestState]
  /\ activeCount \in [Jobs -> Nat \cup {Unknown}]
  /\ hourlyCount \in [Jobs -> Nat \cup {Unknown}]
  /\ row \in [Jobs -> {"none", "active", "terminal"}]
  /\ recent \in SUBSET Jobs
  /\ restarts \in 0..MaxRestarts

TypeOK == QueueTypeOK /\ AdmissionTypeOK

Init ==
  /\ QueueInit
  /\ request = [r \in Jobs |-> "idle"]
  /\ activeCount = [r \in Jobs |-> Unknown]
  /\ hourlyCount = [r \in Jobs |-> Unknown]
  /\ row = [r \in Jobs |-> "none"]
  /\ recent = {}
  /\ restarts = 0

RequestsOf(t) == {r \in Jobs : TenantOf[r] = t}
ActiveScans(t) == {r \in RequestsOf(t) : row[r] = "active"}
RecentScans(t) == RequestsOf(t) \cap recent
InFlightRequests(t) == {r \in RequestsOf(t) : request[r] \in InFlight}
-------------------------------------------------------------------------------
Goto(r, there) == request' = [request EXCEPT ![r] = there]

\* The URL resolved to a public address: both counts are sent (Promise.all).
Ask(r) ==
  /\ request[r] = "idle"
  /\ Cardinality(InFlightRequests(TenantOf[r])) < MaxInFlight
  /\ Goto(r, "counting")
  /\ UNCHANGED <<queueVars, activeCount, hourlyCount, row, recent, restarts>>

CountActive(r) ==
  /\ request[r] = "counting"
  /\ activeCount[r] = Unknown
  /\ activeCount' = [activeCount EXCEPT ![r] = Cardinality(ActiveScans(TenantOf[r]))]
  /\ UNCHANGED <<queueVars, request, hourlyCount, row, recent, restarts>>

\* Mutant: the hourly count leaves out the scans that have ended.
CountHourly_ActiveOnly(r) ==
  /\ request[r] = "counting"
  /\ hourlyCount[r] = Unknown
  /\ hourlyCount' = [hourlyCount EXCEPT ![r] =
       Cardinality(RecentScans(TenantOf[r]) \cap ActiveScans(TenantOf[r]))]
  /\ UNCHANGED <<queueVars, request, activeCount, row, recent, restarts>>

CountHourly(r) ==
  /\ request[r] = "counting"
  /\ hourlyCount[r] = Unknown
  /\ hourlyCount' = [hourlyCount EXCEPT ![r] = Cardinality(RecentScans(TenantOf[r]))]
  /\ UNCHANGED <<queueVars, request, activeCount, row, recent, restarts>>

\* The counts are locals of assertScanRateLimit.
ForgetCounts(r) ==
  /\ activeCount' = [activeCount EXCEPT ![r] = Unknown]
  /\ hourlyCount' = [hourlyCount EXCEPT ![r] = Unknown]

\* Mutant: off by one against the limit on concurrent scans.
AssertScanRateLimit_OneMore(r) ==
  /\ request[r] = "counting"
  /\ Unknown \notin {activeCount[r], hourlyCount[r]}
  /\ IF \/ activeCount[r] > MAX_CONCURRENT_SCANS_PER_TENANT
        \/ hourlyCount[r] >= MAX_SCANS_PER_HOUR_PER_TENANT
       THEN Goto(r, "over") ELSE Goto(r, "insert")
  /\ ForgetCounts(r)
  /\ UNCHANGED <<queueVars, row, recent, restarts>>

\* assertScanRateLimit decides on what was counted.
AssertScanRateLimit(r) ==
  /\ request[r] = "counting"
  /\ Unknown \notin {activeCount[r], hourlyCount[r]}
  /\ IF \/ activeCount[r] >= MAX_CONCURRENT_SCANS_PER_TENANT
        \/ hourlyCount[r] >= MAX_SCANS_PER_HOUR_PER_TENANT
       THEN Goto(r, "over") ELSE Goto(r, "insert")
  /\ ForgetCounts(r)
  /\ UNCHANGED <<queueVars, row, recent, restarts>>

\* A query of create() rejects, up to scan.create: the client gets a 500.
QueryFails(r) ==
  /\ request[r] \in {"counting", "insert"}
  /\ Goto(r, "over")
  /\ ForgetCounts(r)
  /\ UNCHANGED <<queueVars, row, recent, restarts>>

\* repository.upsert (or its fallback), then scan.create with startedAt = now.
InsertScan(r) ==
  /\ request[r] = "insert"
  /\ row' = [row EXCEPT ![r] = "active"]
  /\ recent' = recent \cup {r}
  /\ Goto(r, "enqueue")
  /\ UNCHANGED <<queueVars, activeCount, hourlyCount, restarts>>

\* scan.create resolves: setImmediate, whatever the limits say by now.  Only the
\* audit entry is left to do, and auditLog.log never throws.
Enqueue(r) ==
  /\ request[r] = "enqueue"
  /\ AddScanJob(r)
  /\ Goto(r, "over")
  /\ UNCHANGED <<activeCount, hourlyCount, row, recent, restarts>>

-------------------------------------------------------------------------------
\* orchestrator.run stores COMPLETE or FAILED.
StoreOutcome(r) ==
  /\ r \in running
  /\ row[r] = "active"
  /\ row' = [row EXCEPT ![r] = "terminal"]
  /\ UNCHANGED <<queueVars, requestVars, recent, restarts>>

\* It settles after that, or with the row still active: when the catch block
\* cannot store FAILED either, the error is swallowed.
RunSettles(r) ==
  /\ FinishRun(r)
  /\ UNCHANGED <<requestVars, row, recent, restarts>>

QueueStep ==
  /\ Arrive \/ Resume
  /\ UNCHANGED <<requestVars, row, recent, restarts>>

\* An hour has passed since the scan started.  (Which scan goes first is left open.)
HourPasses(r) ==
  /\ r \in recent
  /\ recent' = recent \ {r}
  /\ UNCHANGED <<queueVars, requestVars, row, restarts>>

\* The process restarts: the rows survive, requests and the whole queue do not.
Restart ==
  /\ restarts < MaxRestarts
  /\ restarts' = restarts + 1
  /\ request' = [r \in Jobs |-> IF request[r] \in InFlight THEN "over" ELSE request[r]]
  /\ immediates' = <<>>
  /\ mockPending' = <<>>
  /\ micro' = <<>>
  /\ mockRunning' = 0
  /\ running' = {}
  /\ activeCount' = [r \in Jobs |-> Unknown]
  /\ hourlyCount' = [r \in Jobs |-> Unknown]
  /\ UNCHANGED <<row, recent>>
-------------------------------------------------------------------------------
RequestStep(r) ==
  \/ CountActive(r) \/ CountHourly(r) \/ AssertScanRateLimit(r)
  \/ InsertScan(r) \/ Enqueue(r)

RunStep(r) == StoreOutcome(r) \/ RunSettles(r)

Next ==
  \/ \E r \in Jobs : Ask(r) \/ RequestStep(r) \/ QueryFails(r) \/ RunStep(r) \/ HourPasses(r)
  \/ QueueStep \/ Restart

Spec == Init /\ [][Next]_vars

\* Every await of create() and run() settles, and Node runs what is due.
Fairness ==
  /\ \A r \in Jobs : WF_vars(RequestStep(r)) /\ WF_vars(RunStep(r))
  /\ WF_vars(QueueStep)

FairSpec == Spec /\ Fairness
-------------------------------------------------------------------------------
(* Properties *)

(* However requests, restarts and ends of scans interleave, a tenant has at   *)
(* most MAX_CONCURRENT_SCANS_PER_TENANT active scans plus one for each        *)
(* further request that was inside create() at the same time: what is still   *)
(* to come are the requests that hold a count below the limit.                *)
MayInsert(r, count, limit) ==
  \/ request[r] = "insert"
  \/ request[r] = "counting" /\ count[r] # Unknown /\ count[r] < limit

PassedActive(t) ==
  {r \in RequestsOf(t) : MayInsert(r, activeCount, MAX_CONCURRENT_SCANS_PER_TENANT)}

ActiveScansBounded ==
  \A t \in Tenants :
    Cardinality(ActiveScans(t)) + Cardinality(PassedActive(t))
      <= MAX_CONCURRENT_SCANS_PER_TENANT - 1 + MaxInFlight

(* The same for the scans a tenant starts within an hour, ended or not.       *)
PassedHourly(t) ==
  {r \in RequestsOf(t) : MayInsert(r, hourlyCount, MAX_SCANS_PER_HOUR_PER_TENANT)}

HourlyScansBounded ==
  \A t \in Tenants :
    Cardinality(RecentScans(t)) + Cardinality(PassedHourly(t))
      <= MAX_SCANS_PER_HOUR_PER_TENANT - 1 + MaxInFlight

(* The counter is the number of scans that run, it never exceeds the limit,   *)
(* and a job waits only while every slot is taken or about to be.             *)
SlotsInUse ==
  /\ mockRunning = Cardinality(running)
  /\ mockRunning + Len(micro) <= MOCK_QUEUE_CONCURRENCY
  /\ mockPending # <<>> => mockRunning + Len(micro) = MOCK_QUEUE_CONCURRENCY

(* The queue is a bounded first-come-first-served pool.                       *)
Pool == INSTANCE BoundedPool WITH
          Limit <- MOCK_QUEUE_CONCURRENCY,
          queue <- micro \o mockPending \o immediates
ImplementsPool == Pool!FairSpec

(* A scan that was handed to the queue gets its slot and leaves it, behind    *)
(* however many others: no resume is lost (or a restart wipes the queue).     *)
InQueue(r) ==
  \/ r \in running
  \/ \E i \in 1..Len(immediates) : immediates[i] = r
  \/ \E i \in 1..Len(mockPending) : mockPending[i] = r
  \/ \E i \in 1..Len(micro) : micro[i] = r

QueuedScanLeaves ==
  \A r \in Jobs : InQueue(r) ~> ~InQueue(r)

(* Claim of the repository that the code does not keep: scans.service.ts:70   *)
(* caps how many scans a tenant can have in flight.                           *)
ConcurrentScansCapped ==
  \A t \in Tenants : Cardinality(ActiveScans(t)) <= MAX_CONCURRENT_SCANS_PER_TENANT
===============================================================================
