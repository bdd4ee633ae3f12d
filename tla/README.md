# Verification of the CyPee backend

CyPee is a NestJS service: it clones a customer's repository, runs scanners over
it, stores what they find, keeps a hash-chained audit log, and defends itself
with a request shield, decoys and an automated breach response. This directory
holds TLA+ modules of it, the TLC configurations that check them and proofs for
TLAPS. Paths below are relative to the repository.

Node runs one piece of JavaScript at a time, so what interleaves here are the
*segments between two awaits*. A state of a model is a moment when every handler
in progress is suspended at an await; an action is what the program does when
one of them settles, up to the next await, with every call that changes state.

## Inventory

| Component | Source | State it keeps | Operations | Hard part | What makes it correct |
|---|---|---|---|---|---|
| Scan state machine | `src/scans/scan-state.machine.ts`, `types.ts` | -- | check of a move | -- | no state skipped, terminal states final |
| Scan orchestrator | `src/scans/scan-orchestrator.service.ts`, `scan.worker.ts`, `modules/ai-correlator.ts`, `modules/compliance-auditor.ts` | rows of scans, findings, certificates, incidents; a directory per scan | `run`: provision, clone, scan in parallel, correlate, report, complete; catch; finally | parallel scanners, failure at any await, crash and redelivery | lifecycle, report about all findings, nothing scanned twice, workspace removed |
| Event bus and stream | `src/scans/scan-event-bus.service.ts`, `scans.controller.ts` | one Subject per watched scan | emit, complete, subscribe | subscribing while a run ends | a stream ends, and with the truth |
| Scan queue | `src/scans/scan-queue.service.ts` | counter, waiting jobs | submit, start, resume, finish | wake-ups are microtasks | limit, order, no lost job |
| Scan admission | `src/scans/scans.service.ts` | scan rows | create | count, then insert later | limits per tenant |
| Scanning modules | the other files of `src/scans/modules` | -- | walk a tree, report on its lines, packages and history | links that lead nowhere, excluded names inside other names, guards above and below a route | nothing missed, nothing invented |
| Audit log | `src/audit/audit-log.service.ts` | a hash chain per tenant | `log`, `verifyChainIntegrity` | read, then append; two clocks | chain linear, verdict right |
| Forensic report | `src/audit/forensics.service.ts` | -- | verify, then read a timeline | two reads | the timeline says what was verified |
| Authentication | `src/auth` | users, sessions, TOTP secrets | register, login, MFA set-up and confirmation, logout | check, hash for a while, write | one account per address, MFA of the stored secret |
| Field encryption | `src/database/db-crypto.service.ts` | keys by version | encrypt, decrypt, re-encrypt, shred, restore | shredding between two calls | what was written can be read |
| Database access | `src/database/prisma.service.ts`, `storage-attestor.service.ts` | connection | safe tenant id, back-up, metrics | I/O | -- |
| Findings ingestion | `src/queue`, `src/remediation/findings.repository.ts`, `src/compliance` | findings, under the latest scan | upload, save, list, clear | duplicates; writes into scans in any state, finished ones too | no finding twice; what a report is out of date about is known |
| Auto-fix | `src/remediation/auto-fix.service.ts` | a directory per finding | clone, locate, patch, commit, clean up | two fixes of one finding; lines that moved | the defect repaired and no other line, no directory left |
| Breach response, fleet | `src/shield/breach-response.service.ts`, `fleet.service.ts`, `federated-defense.service.ts` | DEFCON level, blacklist, tarpit, isolation | respond, isolate, restore, reset | resets between the steps of a response | level and lists agree |
| Request shield, gateway | `src/shield/shield.service.ts`, `shield.middleware.ts`, `gateway.service.ts`, `attacker-recon.service.ts` | challenges, request history, rate windows | issue, verify, rate-limit, proxy | expiry, eviction, single use | a challenge counts once |
| Key locks | `src/shield/security-hardening.service.ts` | Redis keys, local sets | acquire, release, revoke | expiry while held, fall-back to memory | one holder |
| Deception | `src/deception/deception.service.ts` | honeytokens | hit | a handler that fails half-way | incident and dossier of a hit |
| Report clients | `scan.js`, `test-ingestion.js`, `frontend/src/App.tsx`, `Dropzone.tsx` | -- | scan a working copy, upload findings | what of a report the API takes and the database keeps | stored once, not lost |
| Rest of the frontend, SDK | `frontend`, `sdk` | -- | -- | -- | not modelled: a user interface over the API, client libraries |

How they interact: the controller calls `ScansService.create`, which inserts a
row and hands a job to `ScanQueueService` (in memory with `REDIS_MOCK=true`,
BullMQ otherwise); the queue calls `ScanOrchestrator.run`, which moves the row,
writes the findings, appends to the audit log and publishes to `ScanEventBus`;
the SSE handler subscribes to the bus. Uploaded findings, auto-fix and the
forensic report read and write the same tables. The shield sits in front of all
of it and calls breach response, which calls fleet, encryption and the audit log.

The hazards the models are aimed at are listed in `PROJECT.json`, each at its line.

## Modules

| Module | What it is |
|---|---|
| `ScanStateMachine` | states and moves, pure operators |
| `ScanLifecycle` | abstract: what may happen to the state of a scan row |
| `ScanOrchestrator` | `run()`, the bus and the SSE handler |
| `ScanOrchestratorProofs` | theorems about it: types, one delivery of a job |
| `ScanDeliveryProofs` | theorems about it: deliveries of a job, reports and streams |
| `BoundedPool` | abstract: a first-come-first-served pool |
| `ScanQueue` | the in-memory queue, on Node's event loop |
| `ScansService` | `create()` composed with the queue and a restart |
| `ScansServiceProofs` | theorems about it |
| `AuditLog` | `log()` and `verifyChainIntegrity()` |
| `Forensics` | the attribution report, beside the writers of the audit log |
| `AuditLogProofs` | theorems about both |
| `FleetService`, `BreachResponse` | segments of the breach response; what they keep in memory |
| `PayloadInspection` | what the gateway makes of a payload, pure operators |
| `Gateway` | requests, decoys, drills and operators, composed with the three above |
| `GatewayProofs` | theorems about it |
| `DbCrypto`, `ShieldService`, `KeyLock` | keys of the vault, proof-of-work challenges, the lock of a user |
| `AuthService` | the account routes behind the middleware, composed with the three above |
| `AuthServiceProofs` | theorems about it |
| `Scanners` | the seven scanning modules as operators on a tree |
| `ScannersProofs` | theorems about them, for every tree |
| `AutoFix`, `ReportClients` | the patch and the shared directory; who uploads, and what |
| `Findings` | scans, uploads and fixes on one table of findings, composed with the three above |
| `FindingsProofs` | theorems about it |
| `MC...` | what TLC needs: symmetry, constants, the trees of `Findings` |

Composition follows EXTENDS: a module such as `FleetService` defines its state and
what each method does to it in one segment, and the module that composes it says
who runs that segment and when.

### ScanOrchestrator

A *run* is one delivery of a job: `<<scan, k>>`. `pc[r]` names the await it is
suspended at. `check`, `update` and `audit` are the awaits of
`transition()`, used five times with `target[r]` the state to move to; what
follows a transition is an action of its own (`BeginProvisioning`,
`BeginScanning`, `BeginAnalysis`, `Complete`). `mkdir` and `clone` are the
awaits of `cloneRepository`; `scan` is the `Promise.all`, whose branches are
`mods[r][m]` and go on by themselves after it has rejected; `analyse` and
`write` are the read and the writes of correlator and auditor; `count` and
`score` store the posture; `catch` and `cleanup` are the catch and finally
blocks. `held[r]` is the local `workspacePath`: it is set when
`cloneRepository` returns, so a clone that fails is never cleaned up.

The database is a handful of functions of the scan: state, whether
`completedAt` is set, posture, finding rows (how many and of which classes),
certificates, incidents and the moves in the audit log. A class stands for the
module, severity and title of a finding, as far as correlator and auditor ask:
secret, unprotected route, SSRF, CRITICAL, HIGH. (The title of the second chain
finding contains "SSRF", so its class is in `SsrfClass` for a second
correlation.) The first `mkdir` is preceded by an `rm` of a leftover directory.

Two more writers reach these rows, whatever state the scan is in:
`FindingsRepository.save` adds an uploaded finding to the scan that was the latest
two awaits ago (`SaveUpload`, for any scan at any moment), and `clear` deletes the
findings of all scans of a tenant (`ClearFindings`), but no certificate, incident or
posture. `outside` counts these writes. `stale[s]` is kept for the properties: it holds
the parts of the report (`Part`) that were read from rows such a write has changed
since, and a part leaves it when the run reads the rows for it. A report of a COMPLETE
scan does go out of date this way; `ReportIsFinal` says that it does in no other, and
`ReportFrozen` that no run rewrites it. How an upload comes to its scan is `Findings`.

Failures are chosen by the environment among `Faults`; the list is at the head
of the module. A crash loses everything in memory, keeps rows and directories,
and leaves a delivery `lost`; with BullMQ (`Durable`) the next delivery may then
start. `run()` catches every error, so the three `attempts` of a job are never
used: redelivery comes from crashes and stalls only.

### ScanQueue and ScansService

`addScanJob` hands the job to `setImmediate` (`immediates`). The callback
(`Arrive`) starts the run or pushes a `resolve` function (`mockPending`); a run
that ends shifts one and calls it, and the continuation is a microtask (`micro`,
`Resume`), which counts the job as running without looking at the limit
again. Node empties the microtask queue before the next callback: that is the
guard `micro = <<>>` of `Arrive`, and the mutant without it shows that the
limit rests on it. An abstract pool (`BoundedPool`) is implemented under the
mapping `queue <- micro \o mockPending \o immediates`.

A request is at an await of `create()`: `counting` (both counts, answered in
either order), `insert` (repository and scan rows, of which only the scan
matters) and `enqueue`. Of a run only its effect on the row is kept; it may also
settle with the row still active, as the catch block swallows a failed update. A
restart ends requests, empties the queue and keeps the rows.

### AuditLog

A call of `log()` is suspended at `find` and then at `create`; nothing joins the
two. Hashes are the tuples they were computed from, which is SHA-256 without
collisions. `clock` is the millisecond; the hashed `timestamp` is read with the
answer of `findFirst`, `createdAt` is set with the insert. Entries with equal
`createdAt` have no order: `findFirst` may return any of them (`Newest`) and
`findMany` any order (`Orders`).

What an entry says is a record: `hashed` stands for action, actor and metadata,
`resource` is not part of the hash. Whoever writes the database file outside the
service (`Tamper`) may change what an entry says, the resource alone included, its
time or its tenant (`Alter`), give it other contents *and* a hash computed for them
(`Rewrite`), add an entry (`Insert`) or remove one (`Remove`): SHA-256 has no key, so
only the unique index on the hash is in his way. `original` remembers what `log()`
wrote of chains that nobody had touched. `IntactChainIsGenuine` is what is left of
"as it was written": an entry that still has the hash `log()` gave it vouches for
action, actor and metadata of all entries before it down to the second. A resource, the
oldest entry, and a chain whose hashes were rewritten up to the newest are verified
without being genuine, and the property says so by its premise.

### Forensics

`generateAttributionReport` reads the incident (`FindIncident`), the whole chain
(`VerifyChain`), then the oldest entries again (`DrawTimeline`); between these
awaits the writers of `AuditLog` go on (`LogStep`). `TamperVerified` is the flag
`brokenReached` of its loop, set at the entry whose id is `brokenAt`. `seen` and
`steady` remember which entries the verification saw, by their ids, and whether
somebody altered the table after it: an entry appended in between is listed as
verified although nobody verified it, and so is what is listed behind one that is
dated in the future. `VerifiedIsGenuine` names these exceptions beside those of an
intact chain.

### FleetService, BreachResponse, PayloadInspection and Gateway

A request is a handler: a proxied request, a decoy hit or a drill. Its `pc` names
the await: `held` in the tarpit, `isolating` (the audit entry of the quarantine),
`revoking`, `incident` (the insert that freezes the evidence), `lookup` of the
decoy, `recon` (the reverse DNS of the dossier). Between two of them everything
is one action: `Screen` is tier 1, the rate limit and the inspection, down to the
next await. When the response throws -- an incident that cannot be stored, an
alias the fleet does not know -- the gateway catches it and goes on with the
dossier. A bucket of the rate limit is the set of the arrivals it holds: the code
keeps them in an array, of which it uses the times and the length only. `apps` holds what is
registered: the entities and the aliases from the start, and whatever `Register`
adds or replaces, with the default limit; ids the fleet does not know are aliases
and such newcomers. Urls are left out, as nothing but the forwarding itself depends
on them: whether an application is reached that an operator has quarantined is
therefore not a question the model answers (the status is asked for the id, before
the tarpit, whatever its url). A request keeps the object of its application, here
its `limit`, through the tarpit. A payload is its number of encodings,
whether a pattern is in it, and its bigrams; the cosine is compared without the
square root. `resetsSeen` and `restoresSeen` remember what an operator did since
a response began, which is what the properties are stated with.

### DbCrypto, ShieldService, KeyLock and AuthService

All requests are about one address. `pc` again names the await: `edge` is the
middleware, `guard` the session look-up of `JwtStrategy`, `find`, `compare`,
`hash`, `update`, `session` the queries and bcrypt, `lock` and `hold` the
transaction. `user[r]` is the row as it was read, `users` as it is. A secret
stands for its codes; a ciphertext keeps the version and key it was made with.
Challenges are numbered by issue and swept as `generateChallenge` sweeps;
`KeyLock` has Redis or not, a Redis that may fail at each command, and the expiry
of the key. `during` remembers which rival handlers overlapped.

### Scanners, AutoFix, ReportClients and Findings

A tree is its directories, kinds of files, lines, links, history and packages,
and a line the set of patterns that are on it, one per regular expression or
substring of the source that some rule, exception or fix asks for. Rules are
grouped where nothing tells them apart: the other eighteen provider rules of
`SecretExcavator` are two, as auto-fix asks whether a title has KEY or SECRET in it. A tree
is what `statSync` shows: below a link to a directory is what is in that directory, and
a link to a directory above it leads back through itself as often as the system follows
links on one path, and then nowhere (ELOOP). Walking is by `statSync` (a link that leads
nowhere ends the directory, other links are gone through) or by `Dirent`, which passes
links over (`Skipped`, `ThroughLink`).
`SoughtIn` says what should be reported without walking or scanning upwards.

In `Findings`, `scans` are the rows by `startedAt`; a scan's own findings are
filed and cleared together and appear in `Rows` while `filed` is "yes", uploads
one by one in `uploaded`. An upload is a list (`IsArray`, checked by the validation
of the body) and is accepted (`Upload`), queued, and saved
query by query (`FindLatestScan`, `CreateDefaultScan`, `FindDuplicate`,
`CreateFinding`); `QueryFails` is the error `save()` logs and swallows;
the path of a finding is `Sane` or it is passed over, where `Rejected` are the names
that have two dots or a colon in them. When `updateProgress` rejects, or the worker dies
at any await, the job begins again (`AttemptAgain`); when a worker does not renew its
lock in time it goes on, and the job is handed to a second one as well (`Stall`: another
request, with the same report, becomes that worker). A crash ends the job of one
upload only: the scans and fixes of the model are in other processes, so to speak. A fix goes
`find`, `rm`, `git`, `cloning`, perhaps `ai`, `audit`, `cleanup`; what it patches
is decided by `Locate` and `Replacement` on the tree it has cloned, which a push
may have changed since the scan. A file reached through a link has several paths, and a
fix of it changes what is found under each of them; `FixIsOfItsFinding` is about files
with one (`OnePath`), and `Patched` about these only.

## Runs

| Run | Bounds | What it shows |
|---|---|---|
| `orchestrator_safety` | 1 scan, 2 scanners of up to 3 findings in all classes, 1 client, 1 delivery, 1 upload or clearing | lifecycle, a report about all findings it could see, streams, workspace, under failures at every await |
| `orchestrator_redelivery` | 2 scanners of 1 finding, 1 client, 2 deliveries, 1 upload or clearing | a crash anywhere, then the job again: nothing twice, no gap, nothing rewritten, streams end |
| `orchestrator_overlap` | 1 scanner, 2 deliveries, stalls | the scan comes to rest in a terminal state even when two workers run it |
| `orchestrator_workspace` | 1 delivery, clone may fail | **violated**: the directory of a failed clone stays |
| `orchestrator_demotion` | 2 deliveries, crash | **violated**: COMPLETE becomes FAILED |
| `scans_admission` | 3 requests, 2 at once, limits and slots 1, 1 restart | how far limits are exceeded, the queue is a pool, no lost wake-up |
| `scans_cap` | 3 requests, limit 2 as in the code | **violated**: more active scans than the cap |
| `audit_chain` | 3 calls, 1 known and 1 unknown tenant and the system, 3 ms, 1 tampering of any kind, 2 forgeries, 1 report | forks, when a chain verifies, what a verdict and a timeline are worth |
| `audit_untampered` | 2 calls, 3 ms | **violated**: an untouched chain reported broken |
| `gateway_defence` | 3 requests, 2 addresses, 1 entity with 1 alias and 1 id to register, 3 payloads, limits 1 and 2, window 2, 2 ticks, 1 act of an operator | an intercepted origin stays out, level and lists agree, isolation lasts until a restore, the rate is bounded by a limit that was in force, traces are left |
| `accounts` | 3 requests, 2 ticks, 2 acts on the vault, 2 versions and keys | one account per address, MFA of the confirmed secret, MFA asked for, the vault can write, and read all but what was written with keys that were shredded or overwritten and not restored, one transaction at a time, challenges counted once: each up to the race that breaks it |
| `findings` | 3 requests on 3 trees, 1 scan, 2 uploads or workers of one, 2 fixes, 1 push, 2 attempts, 2 links on one path | scanners complete and exact, fixes repair their defect, uploads stored once up to jobs that overlap, directories removed |

Why the bounds are enough. Two scanners are the least that can finish, fail and
outlive each other in every order, and the third would only repeat one of them;
three classes tell every branch of correlator and auditor apart; three findings
make the posture score change with each and let a scanner be caught between two
saves. Two deliveries are BullMQ's default (`maxStalledCount` 1). Runs of different scans
share the bus and the audit log, both keyed by scan, and the steps of a clearing,
which touches each of a tenant's scans as if it were the only one; so one scan
suffices. One write from outside can fall before, between or after the three reads a
report is made of; the runs whose question it does not bear on have none.
Three requests exceed a limit of 1 by more than `MaxInFlight` 2 would allow if
the bound were wrong, and fill slot, microtask queue and waiting list at once.
Three calls of `log()` are a predecessor and two that compete for it; of two forgeries
one differs in the resource alone. A timeline
of 2 instead of 25 is one that is cut off. In `gateway_defence` one request is
intercepted while a second waits in the tarpit and a third asks at the door; two
addresses tell an origin from a bystander; a second act of an operator undoes the
first. In `accounts` two handlers race and a third observes. The three trees of
`findings` hold each rule with and without what excuses it, excluded and
look-alike names, links that lead to a file, nowhere, and to the directory they
are in, guards above, below and between routes; two uploads
duplicate each other while a scan runs; the first push moves every line by one.
A job gets 2 attempts, the code gives it 3: the third repeats the second. On one path 2
links are followed, and 40 on Linux: the first leads to a directory that is in the tree
once more, the second to one whose link leads nowhere, and the others repeat the first.

`CHECK_DEADLOCK FALSE`: every model comes to rest when all jobs, requests or
calls are over.

Symmetry is used where scanners or calls differ only in their names, and only
in runs without liveness.

### Fairness

Every await of the modelled handlers settles: `git clone` has a timeout of three
minutes, semgrep of five, HTTP look-ups are aborted, SQLite has a
`busy_timeout`, and Node runs the continuation of a settled promise. So each run
and scanner is weakly fair (`RunStep`, `ModuleStep`), and so are requests, runs
and the queue in `ScansService`. Nothing is assumed of clients, faults, crashes
or time.

### Findings

1. *Workspace* (`scan-orchestrator.service.ts:76`). The comment at 224-225 has
   the directory removed "regardless of scan outcome"; a clone that fails leaves it.
2. *Demotion* (`scan-orchestrator.service.ts:202`). The catch block writes FAILED
   without the state machine, which allows COMPLETE only to be archived
   (`scan-state.machine.ts:15`). With one delivery this cannot happen, and that
   is proved (`RunsMatchRows`).
3. *Cap* (`scans.service.ts:76`). Concurrent requests pass the limit together.
   The bound that does hold is `limit - 1 + requests at once`, and it is proved.
4. *Untouched chain* (`audit-log.service.ts:83`). The hashed timestamp is not the
   stored one. A chain verifies if each call takes less than a millisecond and
   no two share one (`TimelyChainVerifies`).

Two more divergences were met that have no run of their own.

* `forensics.service.ts:12` says that `suspectedGroups` is always empty, line 134
  fills it with the groups of the technique: the text of a report only.
* The comment at `auto-fix.service.ts:320` speaks of "a verification pattern to check
  if the target line is the correct vulnerable line". For a title with KEY or SECRET the
  pattern (line 325 ff.) is a private key block or an assignment, and an access key on
  a line that assigns nothing (`aws_access_key_id: AKIA...` in YAML) matches neither: the
  fix looks up to ten lines around, and where a private key block is near, patches that
  and reports success. In the same way a port of MySQL next to one of PostgreSQL.
  `FixIsOfItsFinding` therefore excepts these two findings; a tree of the run `findings`
  holds such a key seven lines from a block, and without the exception the run fails.

## Proofs

Every invariant and action property of the passing runs is proved, for any values
of the constants that satisfy the modules' `ASSUME`s, `FixIsOfItsFinding` for trees
that are plain besides. A theorem about
a property relates what is in memory between two awaits to what is stored, by an
inductive invariant; its per-handler part says what a `pc` means, its shared part
what the rows keep. The recurring argument is that a step of one handler leaves
the others alone (`StepsAreLocal`, `RequestStep`, `OtherJobsKept`) and only adds to
what is shared.

`ScanOrchestratorProofs`, for any sets of scans, scanners, clients and classes,
any number of findings and deliveries and any set of faults:

* `TypeCorrect`: `Spec => []TypeOK`, one lemma per group of actions.
* `RunsMatchRows`: with `MaxDeliveries = 1`, `[]RunMatchesRow`. The invariant
  relates what a run is about to do to the row's state; it is inductive together
  with type correctness, because with one delivery no other run moves the row.
* `OrchestratorImplementsLifecycle`: with `MaxDeliveries = 1`, the specification
  implements `ScanLifecycle`. Only `UpdateState` and `Catch` change a state;
  `RunMatchesRow` says that the first makes a legal move and that the second
  overwrites an active state, which may fail from anywhere.

`ScanDeliveryProofs` assumes `NoOverlap`: one delivery per job, or deliveries after crashes only. A stall, where a worker loses its lock to a second one
and goes on, is excluded because the properties fail there (two workers scan twice).

* `DeliveriesInOrder` (`DeliveryInv`): a delivery has begun only if the earlier ones
  were lost (`InOrder`), a scanner at work means SCANNING or a failed run
  (`ScannersAtWork`), and from its first move on a run finds its row where it left
  it (`WorkMatchesRow`): what `RunMatchesRow` becomes when a job is delivered again.
* `ScansOnce`: a directory is handed to one run of a scan only (`OneClone`), as a
  delivery that finds its row past AUTHORIZED gets no further.
* `RunsLeaveNothing` (`Workspaces`), if an `rm` and the update to FAILED succeed: what
  the finally block does not remove or the catch block not store stays, visibly.
* `AuditTrailsHaveNoGap` (`AuditInv`), if entries can be appended: `log()` swallows
  its error, so a failed one is a gap by design.
* `ReportsFrozen` (`FrozenInv`): once `completedAt` is set, every run of the scan is
  past its writes, so that only uploads and clearings touch the findings.
* `ReportsAreFinal` (`ReportInv`): `ReportSoFar` says at each `pc` which chains,
  certificates and posture are stored already; `PendingChains` and `PendingCerts`
  that what is missing is in the list still to be written. All of it holds of the
  parts that are not `stale` (`RepositoryReports`): an upload or a clearing makes
  stale what was read before it, and what is read after it knows of it.
* `StreamsTellOutcome` (`StreamInv`), with one delivery and if the update to FAILED
  succeeds (otherwise the stream says "failed" of a row that is not): an ended stream
  belongs to a finished run, which never changes its row (`FinishedRun`).

`ScansServiceProofs`, for any finite set of requests, any tenants and limits:

* `ActiveScansAlwaysBounded`, `HourlyScansAlwaysBounded`. The bound on scans is
  not inductive: it needs the requests that hold a favourable count and may
  still insert (`PassedActive`). Lemma `CountingStep` is the argument: a step
  shrinks both sets, or turns one such request into a scan, or admits a
  request at a moment when the count was exact and below the limit -- then all of
  them together are at most `MaxInFlight`. `CountsAreLocal` and `InFlightBounded`
  complete the invariant.
* `CapKeptWithoutConcurrency`: with `MaxInFlight = 1` the cap of the comment holds.
* `SlotsAlwaysInUse` and `QueueImplementsPool`, from `QueueInv`: besides the types, a
  job waits in one place or runs (`OnePlace`), so that the job a run wakes up is not in
  the queue twice. Each step of the event loop is a step of `BoundedPool` or a
  stutter; `QueueImplementsPool` is `ImplementsPool` without the fairness of the pool.
* `AdmissionTypesOK` is the type invariant.

`AuditLogProofs`, for any calls, tenants and clock and any number of tamperings of
every kind the model has:

* `ReportsOnlyRead`: `ForensicsSpec => Spec`, so that what is proved of the log holds
  beside reports.
* `ForksNeedOverlapOrTie`, `TimelyChainsVerify`, `IntactChainsAreGenuine`, from
  `ChainInv`: what a call has found, or an entry of an untouched chain follows, was
  the newest there was when it looked (`FoundAt`), up to entries of one millisecond.
  The order of `findMany` is any order by `createdAt`, so the last two speak of
  neighbours in time; `LeastNat` and induction by least counterexample stand in for
  induction over the sequence. `IntactChainsAreGenuine` rests on `OriginalsLinked`: what
  `log()` wrote before anybody touched the chain follows what it wrote before that. So
  from an entry with an original hash the links of an intact chain lead back through
  original hashes only (`OriginalVouches`), whatever else was done to the table;
  `TamperKeeps` covers every kind of tampering at once.
* `VerifiedEntriesAreGenuine` (`ReportInv`): what the verification has seen still
  matches when the timeline is drawn, if nobody altered the table between the two
  (`VerifiedSoFar`, `TimelineGenuine`); an id is used once (`IdsTaken`), so that an
  entry appended in between is not mistaken for one that was seen.
* `ForensicsTypesOK` is the type invariant of log and reports.

`GatewayProofs`, for any entities, aliases, addresses, requests and payloads and
for every limit:

* `OriginsStayOut`. The address of a request that is found out is shared with
  the peers in the very step that passes the rate limit, before the response can
  fail, and nothing takes it off that list (`FoundOutIsShared`); a request is
  forwarded only by a step that reads the list.
* `LevelAndListsAlwaysAgree`, `AirgapLasts`, `TracesAreLeft` share the invariant
  `DefenceInv`. Per request, it says what its `pc` means (`PlaceTells`) and what a
  response has done already and an operator has not undone since (`ListsKeep`,
  `AirgapKeeps`, `TracesKeep`); for all of them, why an address is blacklisted under
  a normal level and an entity airgapped. Lemma `RequestStep` is the argument: a
  step of one request only adds to what is shared, so that it takes nothing from
  the others; `OperatorKeeps` covers the steps that do take something away, and
  those are counted in `resets` and `restores`.
* `RatesBounded` (`RateInv`): a request that passed is on record in its bucket until it
  leaves the window, so those that passed in one window are no more than the bucket
  holds at the last of them (`EntriesCount`, an injection), and that one was let pass by
  its own limit, whatever was registered since it came (`HeldNotPassed`: nobody passes
  twice).
* `GatewayTypesOK` is the type invariant.

`AuthServiceProofs`, for any requests and versions, every time to live and limit:

* `ChallengesAreHonoured`: the map holds exactly the challenges not yet accepted
  and not expired, up to a sweep of expired ones (`ChallengeInv`).
* `MfaIsAskedFor` (`MfaInv`): MFA is never turned off, so a login that arrived when
  it was on reads a row where it is on, and has its code compared with that row.
* `AddressesAreTakenOnce` (`RegisterInv`): a registration past its look-up overlapped
  with whoever has made a row since, as the look-up found none.
* `SecretsAreConfirmed` (`SecretInv`): the secret a confirmation has checked is
  still in the row when it turns MFA on, and a set-up replaces no secret MFA is
  on for -- or the two overlapped, which both of them then know (`SetupsKnown`).
* `VaultStaysUsable` (`VaultInv`): what was encrypted was so with a key loaded under its
  version at the time, and a key that was loaded is loaded still or in `lostKeys`: it was
  shredded, or overwritten by another under its version, and not restored since. So
  exactly the secrets under such keys cannot be read.
* `TransactionsWorkAlone` (`LockInv`): while Redis answers and no lock expires under
  its holder, the key is kept in one place, and it is there exactly while somebody holds it.
* `AccountTypesOK` is the type invariant.

`ScannersProofs`, for every tree (`IsTree`), every text and any two names. The walks,
the searches upwards and the matrix are recursive functions, and what they compute is
proved without induction over them. A least number that fails leads to a smaller one
(`LeastNat`, from the well-foundedness of `<`): the recursion terminates on trees of
bounded depth and on numbers, so its equation has one solution (`WalkIsUnique`,
`TrackWritten`), and the closed form is shown to be one.

* `WalksComeToAll`: a walk comes to a file unless a directory on the way is skipped, its
  path has an excluded name, or a dangling link comes before it or an ancestor of it:
  `statSync` throws at the link and the catch is outside the loop (`WalkByStat`). By
  `Dirent` it comes to no link and to nothing behind one. A cycle of links is no
  exception: it is unfolded in the tree, and its end is a dangling link.
* `ReportsExposedRoutes`: the searches for a guard above a route and above the first class
  (`AboveRoute`, `AboveClass`) decide what `Exposed` says with quantifiers.
* `DistanceOneIsOneEdit`: a cell of the matrix is 0 when the prefixes are equal and at most
  1 when they are no more than one edit apart, and only then (`TrackFits`).
* `ScansFindWhatIsSought`, by rule (`SecretsFound` and the lemmas after it): what the
  five modules that depend on the tree alone report is `SoughtIn(tree)`, which names
  the defects and where they are, and no walk: a defect in a file that links lead to is
  sought under each of its paths.

`FindingsProofs`, for any trees, scans, uploads and fixes:

* `ScansMissNothing` (`FiledInv`): a scan that has filed is of a version that was cloned,
  and what the report of that version is, `ScansFindWhatIsSought` says; and every
  uploaded row says `MANUAL_INGESTION`, so that none is mistaken for a scanner's.
* `FixesAreOfTheirFindings`: `FixIsOfItsFinding` for trees with `PlainLines`. The
  invariant (`FixesKnown`) is what a fix knows from the clone on: that its finding has
  a line, and where `Locate` led in the version it cloned. The rest is about one
  patch. A defect is located where it is reported (`LocatesDefect`), because what its
  rule looks for is what the title makes the fix look for. A scan of the patched tree
  finds on each line what was found on the line it was (`SoughtBefore`,
  `SoughtElsewhere`), a route with a guard above it is no longer exposed, and no other
  becomes so (`ExposedBefore`); hence `AfterWithin`, by way of `SoughtIn`, as
  `ScansFindWhatIsSought` makes the two the same.
* `FixesStayNear`, for any trees: whoever wrote the replacement, the line that was
  changed is the reported one or the first within ten of it that has the pattern, and
  it is one of the version that was cloned.
* `WorkspacesEndWithTheirFixes` (`Owned`): every directory has a fix that will still
  come to its finally block. The proof needs nothing of the other components: they
  are not at work on a directory (`OutsideStep`).
* `UploadsStoredOnce` (`UploadInv`): jobs that are there together know of each other,
  the two workers of a stalled one included, and since a job looked for a duplicate only
  those have stored one (`LookedFor`); what a job has been past is in the table (`Progress`), as rows go only when they are
  cleared (`Grows`, `RowsGrow`), and a job whose query failed is excepted by name.
* `FindingsTypesOK` is the type invariant.

The assumptions are those of the modules' `ASSUME`s, which TLC evaluates in every
run, and the `ASSUME` of the theorem. They say of the constants what the code does:
limits and bounds are numbers, a title of a chain is given by `ai-correlator.ts`
only and by no scanner (`ChainAssumption`), every entity is an application
the constructor registers, the first user comes from no request. A clone is a
tree (`TreesAssumption`) as `statSync` shows it: finitely many directories, each with its
entries once, which are directories, files, links to these, or links that lead nowhere.
Links are unfolded, and since the system follows a bounded number of them on one path
that is finite for cycles, too; what a link leads to outside the clone is taken to stay
as it is during a scan. A file has a line, if an empty one, and a tree has
dependencies only by a package.json at its root. A text is the sequence of its own lines,
and no entry is named `..`, as no directory lists it under that name.

`PlainLines` is a hypothesis of `FixesAreOfTheirFindings` alone. Without it the property
is false of trees one can write down: a line that two rules speak of may be found by one
and rewritten for the other (a raw query on the line of a route only gets a guard above
it), a line that is replaced may also have held the guard or the class another route
rests on, and what is found of a whole Dockerfile or compose file is reported at line 1,
as is a dependency at line 1 of package.json. So it says of every line: nothing else is
looked for on the line of a route, a line that is replaced holds neither a guard nor a
route nor what excuses a container file, and no line 1 of such a file is rewritten.
`MCFindings` assumes it of the trees of the run, so that TLC evaluates it, on trees that
have every defect a fix is for.

Only model-checked:

* Liveness -- `ScansEnd`, `StreamEnds`, `QueuedScanLeaves` and the fairness part of
  `ImplementsPool` -- which is out of TLAPS's reach.
* `FixIsOfItsFinding` for a tree that is not plain: it may fail there, as said above.

## Plan

The model covers the components it can cover, and all of the runs' properties that
TLAPS can reach are proved. What may be added is about operators alone: that
`PostureOf` stays between 0 and 100, that a bucket of the rate limit never holds more
than its limit when a request has passed, and `ScanLifecycle`'s own invariants, from
which those of its implementation follow.

## Not modelled, and why

The rest of the frontend shows what the API returns and keeps nothing another
part reads back; the SDKs are libraries of other programs. Remediation guides, the
text of findings, severities and scores, the country and the contents of a dossier
are wording. Bots are told by the statistics of intervals between requests and
countries by a data file: their verdicts are nondeterministic. The verdict on
the session graph is not used by the middleware; the mTLS guard and the API key
guard decide one request and keep no state. Back-ups, pragmas and metrics are
I/O. Of BullMQ only redelivery and attempts are modelled; its Redis data
structures are its own. The expiry of tokens and the windows of TOTP codes are
left out, as a code stands for its secret. `accessCount` of a honeytoken is never
touched: the decoy routes look up fixed values, which no generated token has.
`OSV` and `git` are external and answer or fail as they please.

## Checking it

    tlc -config <run>.cfg <module>     # module and cfg of each run: PROJECT.json
    tlapm ScanOrchestratorProofs.tla
    tlapm ScanDeliveryProofs.tla
    tlapm ScansServiceProofs.tla
    tlapm AuditLogProofs.tla
    tlapm GatewayProofs.tla
    tlapm AuthServiceProofs.tla
    tlapm ScannersProofs.tla
    tlapm FindingsProofs.tla
