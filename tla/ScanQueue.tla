------------------------------ MODULE ScanQueue ------------------------------
(***************************************************************************)
(* The in-memory queue of ScanQueueService (scan-queue.service.ts, mode    *)
(* REDIS_MOCK=true) on Node's event loop.  A job is handed over with       *)
(* setImmediate, waits in mockPending while MOCK_QUEUE_CONCURRENCY scans   *)
(* run, and is resumed by the scan that ends: next() resolves the promise  *)
(* the job awaits, and the continuation -- which counts the job as running *)
(* -- is a microtask of its own.                                           *)
(***************************************************************************)
EXTENDS Integers, Sequences, FiniteSets

CONSTANTS
  Jobs,                    \* scan jobs
  MOCK_QUEUE_CONCURRENCY   \* parseInt(SCAN_MOCK_CONCURRENCY)

\* parseInt also gives NaN, 0 or a negative number for a bad setting: with NaN no
\* job ever waits, with the others every job waits forever.
ASSUME ConcurrencyAssumption == MOCK_QUEUE_CONCURRENCY \in Nat \ {0}

VARIABLES
  immediates,   \* jobs in setImmediate callbacks that have not run, in order
  mockPending,  \* jobs that wait for a slot: the resolve functions, in order
  micro,        \* jobs whose promise was resolved and that have not resumed
  mockRunning,  \* the counter
  running       \* jobs inside orchestrator.run

queueVars == <<immediates, mockPending, micro, mockRunning, running>>

QueueTypeOK ==
  /\ immediates \in Seq(Jobs)
  /\ mockPending \in Seq(Jobs)
  /\ micro \in Seq(Jobs)
  /\ mockRunning \in Nat
  /\ running \in SUBSET Jobs

QueueInit ==
  /\ immediates = <<>>
  /\ mockPending = <<>>
  /\ micro = <<>>
  /\ mockRunning = 0
  /\ running = {}

\* addScanJob: every scan is submitted once, under a new id.
AddScanJob(j) ==
  /\ immediates' = Append(immediates, j)
  /\ UNCHANGED <<mockPending, micro, mockRunning, running>>

\* mockRunning++, and orchestrator.run up to its first await.
StartRun(j) ==
  /\ mockRunning' = mockRunning + 1
  /\ running' = running \cup {j}

\* Mutant: the limit is compared with > instead of >=.
Arrive_OneTooMany ==
  /\ micro = <<>>
  /\ immediates # <<>>
  /\ immediates' = Tail(immediates)
  /\ IF mockRunning > MOCK_QUEUE_CONCURRENCY
       THEN /\ mockPending' = Append(mockPending, Head(immediates))
            /\ UNCHANGED <<mockRunning, running>>
       ELSE StartRun(Head(immediates)) /\ UNCHANGED mockPending
  /\ UNCHANGED micro

\* Mutant: a waiter that was resumed does not run before the next callback.
Arrive_BeforeMicrotasks ==
  /\ immediates # <<>>
  /\ immediates' = Tail(immediates)
  /\ IF mockRunning >= MOCK_QUEUE_CONCURRENCY
       THEN /\ mockPending' = Append(mockPending, Head(immediates))
            /\ UNCHANGED <<mockRunning, running>>
       ELSE StartRun(Head(immediates)) /\ UNCHANGED mockPending
  /\ UNCHANGED micro

\* A setImmediate callback: Node empties the microtask queue before it runs one.
Arrive ==
  /\ micro = <<>>
  /\ immediates # <<>>
  /\ immediates' = Tail(immediates)
  /\ IF mockRunning >= MOCK_QUEUE_CONCURRENCY
       THEN /\ mockPending' = Append(mockPending, Head(immediates))
            /\ UNCHANGED <<mockRunning, running>>
       ELSE StartRun(Head(immediates)) /\ UNCHANGED mockPending
  /\ UNCHANGED micro

\* The continuation of the await: the limit is not looked at again.
Resume ==
  /\ micro # <<>>
  /\ micro' = Tail(micro)
  /\ StartRun(Head(micro))
  /\ UNCHANGED <<immediates, mockPending>>

\* Mutant: no waiter is resumed.
FinishRun_WakesNobody(j) ==
  /\ j \in running
  /\ running' = running \ {j}
  /\ mockRunning' = mockRunning - 1
  /\ UNCHANGED <<immediates, mockPending, micro>>

\* Mutant: the slot is given back on failure and again in finally.
FinishRun_DecrementsTwice(j) ==
  /\ j \in running
  /\ running' = running \ {j}
  /\ mockRunning' = mockRunning - 2
  /\ UNCHANGED <<immediates, mockPending, micro>>

\* orchestrator.run settles: resolved or rejected, the finally block is the same.
\* It gives the slot back and resolves the oldest waiter.
FinishRun(j) ==
  /\ j \in running
  /\ running' = running \ {j}
  /\ mockRunning' = mockRunning - 1
  /\ IF mockPending = <<>>
       THEN UNCHANGED <<mockPending, micro>>
       ELSE /\ mockPending' = Tail(mockPending)
            /\ micro' = Append(micro, Head(mockPending))
  /\ UNCHANGED immediates
===============================================================================
