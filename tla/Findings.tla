------------------------------- MODULE Findings -------------------------------
(***************************************************************************)
(* The table of findings and all who write it: scans that file what the    *)
(* scanners report, uploads (ed25519-signature.guard.ts, queue,            *)
(* sast-processor.ts, findings.repository.ts), clear, and fixes, which     *)
(* read it (findings.controller.ts, auto-fix.service.ts).                  *)
(*                                                                         *)
(* A request is one handler, suspended at the await pc names.  There is    *)
(* one tenant, the one uploads are filed for, and one repository: its HEAD *)
(* is a tree and the number of lines pushed into it since.  All fixes are  *)
(* of one finding: those of different findings share nothing.              *)
(***************************************************************************)
EXTENDS AutoFix, ReportClients

CONSTANTS
  Requests, First,  \* First: the scan that may have been made before the model starts
  Trees,            \* names of trees the repository may start with
  TreeAt,           \* [tree, pushed] -> the tree
  Lookups,          \* what the resolver may answer for the host of the repository
  Answers,          \* what OSV may answer, and whether semgrep is there
  ScanRuns,         \* per tree: where scan.js may be run, and on what
  Dropped,          \* per tree: what the dashboard may be given to scan
  Typed,            \* per tree: title, path and line of the findings that may be typed in
  Rejected,         \* names with two dots or a colon in them
  MaxAttempts,      \* how often one worker begins a job: attempts, and crashes that it outlives
  FixTitles,        \* bound: titles of the findings a fix is requested for
  MaxScans, MaxPushes, MaxUploads, MaxFixes  \* bounds

ASSUME FirstIsOver == First \notin Requests
ASSUME RejectedAssumption == ".." \in Rejected
ASSUME BoundsAssumption == MaxAttempts \in Nat \ {0} /\ MaxPushes \in Nat

VARIABLES
  pc, op,
  during,     \* history, per upload: the jobs that ran while its job did
  head,       \* what a clone gets
  scans,      \* the scan rows by startedAt: who made it, of which version, with which
              \* answer of OSV and semgrep, and whether its findings are in the table
  uploaded,   \* the rows of the table that uploads have made
  findings, index, attempt, latest,  \* per upload: its job as one worker runs it, and save()
  skipped,    \* history: uploads a query of which failed
  wiped,      \* history: findings were cleared
  target,     \* per fix: the row it is about
  fixed       \* per fix: what it replied, and the version it cloned

jobVars == <<findings, index, attempt, latest, skipped>>
vars == <<pc, op, during, head, scans, uploaded, jobVars, wiped, target, fixed, fixVars>>

None == "none"
Versions == [tree : Trees, pushed : 0..MaxPushes]

\* Whatever is in a clone, and wherever its links lead, statSync shows a tree.
ASSUME TreesAssumption == \A v \in Versions : IsTree(TreeAt[v])

NoVersion == [tree |-> None, pushed |-> 0]
NoFix == [at |-> 0, method |-> None, version |-> NoVersion]
NoRow == [by |-> None, nth |-> 0, scan |-> 0, finding |-> None]

NoAnswer == [advisories |-> {}, details |-> {}, semgrep |-> FALSE]

\* Of each version with each pair of answers, what the scanners report and should
\* report; a constant, so computed once.
Reports == {[version |-> v, answer |-> a, found |-> ScanTree(TreeAt[v], a),
             sought |-> SoughtIn(TreeAt[v])] : v \in Versions, a \in Answers \cup {NoAnswer}}

ReportOf(scan) == CHOOSE x \in Reports : x.version = scan.version /\ x.answer = scan.answer

Scan(r, v, a, d) == [by |-> r, version |-> v, answer |-> a, filed |-> d]

Row(r, n, s, f) == [by |-> r, nth |-> n, scan |-> s, finding |-> f]

\* The table: a scan's findings are filed as one and cleared as one.
Rows ==
  uploaded \cup UNION {{Row(scans[s].by, 0, s, f) : f \in ReportOf(scans[s]).found}
                       : s \in {s \in DOMAIN scans : scans[s].filed = "yes"}}

\* What process() makes of a reported finding.
Manual(f) == Finding("MANUAL_INGESTION", f.title, f.path, f.line)

\* sanitizePath throws on two dots and on a colon anywhere, and on a path whose first name
\* is empty: it starts with a slash.
Sane(f) == \A i \in DOMAIN f.path : f.path[i] \notin Rejected /\ (i = 1 => f.path[i] # "")

TypeOK ==
  /\ pc \in [Requests -> {"idle", "over", "clone", "file", "queued", "latest", "create scan", "duplicate",
                          "create", "progress", "clear", "find", "rm", "git", "cloning", "ai",
                          "audit", "cleanup"}]
  /\ op \in [Requests -> {None, "scan", "upload", "clear", "push", "fix"}]
  /\ during \in [Requests -> SUBSET Requests]
  /\ head \in Versions
  /\ \A s \in DOMAIN scans :
       /\ scans[s].by \in Requests \cup {First} /\ scans[s].filed \in {"not yet", "yes", "cleared", "no findings"}
       /\ scans[s].version \in Versions \cup {NoVersion}
  /\ \A x \in uploaded : x.scan \in DOMAIN scans /\ x.by \in Requests
  /\ \A r \in Requests :
       /\ index[r] \in 0..(Len(findings[r]) + 1) /\ attempt[r] \in 0..MaxAttempts
       /\ latest[r] \in 0..Len(scans)
       /\ fixed[r].method \in {None, "deterministic", "ai-suggested"}
       /\ fixed[r].version \in Versions \cup {NoVersion}
  /\ skipped \subseteq Requests /\ wiped \in BOOLEAN
  /\ \A x \in DOMAIN workspace : workspace[x] \in [by : Requests, state : {"cloning", "cloned", "branched"}]

\* A repository that was never scanned, or scanned before; nothing is in progress.
Init ==
  /\ FixInit
  /\ \E t \in Trees : head = [tree |-> t, pushed |-> 0]
  /\ scans \in {<<>>, <<Scan(First, head, NoAnswer, "yes")>>}
  /\ uploaded = {}
  /\ pc = [r \in Requests |-> "idle"]
  /\ op = [r \in Requests |-> None]
  /\ during = [r \in Requests |-> {}]
  /\ findings = [r \in Requests |-> <<>>]
  /\ index = [r \in Requests |-> 0]
  /\ attempt = [r \in Requests |-> 0]
  /\ latest = [r \in Requests |-> 0]
  /\ skipped = {} /\ wiped = FALSE
  /\ target = [r \in Requests |-> NoRow]
  /\ fixed = [r \in Requests |-> NoFix]
-------------------------------------------------------------------------------
Goto(r, there) == pc' = [pc EXCEPT ![r] = there]
Begin(r, what, there) == /\ pc[r] = "idle"
                         /\ op' = [op EXCEPT ![r] = what]
                         /\ Goto(r, there)

\* A push of the customer's: a line more in a file of the repository.
Push(r) ==
  /\ Begin(r, "push", "over")
  /\ head.pushed < MaxPushes
  /\ head' = [head EXCEPT !.pushed = @ + 1]
  /\ UNCHANGED <<during, scans, uploaded, jobVars, wiped, target, fixed, fixVars>>

\* clear: deleteMany, or the error is logged.
Clear(r) ==
  /\ Begin(r, "clear", "over")
  /\ \/ /\ uploaded' = {}
        /\ scans' = [s \in DOMAIN scans |->
                       IF scans[s].filed = "yes" THEN [scans[s] EXCEPT !.filed = "cleared"]
                       ELSE scans[s]]
        /\ wiped' = TRUE
     \/ UNCHANGED <<scans, uploaded, wiped>>
  /\ UNCHANGED <<during, head, jobVars, target, fixed, fixVars>>
-------------------------------------------------------------------------------
(* A scan: ScansService and ScanOrchestrator, as far as the findings go *)

\* An address is its octets, or how it starts; what cannot be parsed counts as private.
IsPrivateOrLoopback(ip) ==
  IF ip.version = 6 THEN ip.groups[1] \in {"::1", "fc", "fd", "fe80"}
  ELSE \/ Len(ip.groups) # 4
       \/ ip.groups[1] \in {0, 10, 127}
       \/ ip.groups[1] = 172 /\ ip.groups[2] \in 16..31
       \/ <<ip.groups[1], ip.groups[2]>> \in {<<192, 168>>, <<169, 254>>}

\* assertPublicRepositoryUrl throws, also when the host is not resolved; or there is a scan.
StartScan(r) ==
  /\ Cardinality({s \in DOMAIN scans : scans[s].version # NoVersion}) < MaxScans
  /\ \E ip \in Lookups, resolved \in BOOLEAN :
       IF ~resolved \/ IsPrivateOrLoopback(ip) THEN Begin(r, "scan", "over") /\ UNCHANGED scans
       ELSE Begin(r, "scan", "clone") /\ scans' = Append(scans, Scan(r, head, NoAnswer, "not yet"))
  /\ UNCHANGED <<during, head, uploaded, jobVars, wiped, target, fixed, fixVars>>

\* The clone is of HEAD as it is by then, and OSV and semgrep answer or do not.
CloneForScan(r) ==
  /\ pc[r] = "clone" /\ op[r] = "scan"
  /\ \E s \in DOMAIN scans, a \in Answers :
       /\ scans[s].by = r
       /\ scans' = [scans EXCEPT ![s] = Scan(r, head, a, "not yet")]
  /\ Goto(r, "file")
  /\ UNCHANGED <<op, during, head, uploaded, jobVars, wiped, target, fixed, fixVars>>

\* The modules' findings, without a look at what is there; then COMPLETE.
FileFindings(r) ==
  /\ pc[r] = "file"
  /\ \E s \in DOMAIN scans :
       /\ scans[s].by = r
       /\ scans' = [scans EXCEPT ![s].filed = "yes"]
  /\ Goto(r, "over")
  /\ UNCHANGED <<op, during, head, uploaded, jobVars, wiped, target, fixed, fixVars>>
-------------------------------------------------------------------------------
(* An upload *)

InJob == {"queued", "latest", "create scan", "duplicate", "create", "progress"}
OtherJobs(r) == {s \in Requests : s # r /\ pc[s] \in InJob}

\* The reports on each version that may be sent, without those nobody sends.
Uploads ==
  [v \in Versions |->
     ({RunScan(TreeAt[v], x[1], x[2]) : x \in ScanRuns[v.tree]}
      \cup {Ingest(x) : x \in Dropped[v.tree]}
      \cup {Manually(x[1], x[2], x[3]) : x \in Typed[v.tree]}) \ {<<>>}]

\* The job of an upload, or the end of one that is refused.
BeginJob(r, u, accepted) ==
  /\ Begin(r, "upload", IF accepted THEN "queued" ELSE "over")
  /\ findings' = [findings EXCEPT ![r] = IF accepted THEN u ELSE <<>>]
  /\ attempt' = [attempt EXCEPT ![r] = IF accepted THEN 1 ELSE 0]
  /\ during' = [s \in Requests |->
                  IF ~accepted THEN during[s]
                  ELSE IF s = r THEN OtherJobs(r)
                  ELSE IF s \in OtherJobs(r) THEN during[s] \cup {r} ELSE during[s]]
  /\ Cardinality({s \in Requests : op[s] = "upload"}) < MaxUploads
  /\ UNCHANGED <<head, scans, uploaded, index, latest, skipped, wiped, target, fixed, fixVars>>

\* canActivate: the same signed body counts again for two minutes either way, solved
\* challenge or not; then the body is validated.
Upload(r) ==
  \E u \in Uploads[head], present \in BOOLEAN, recent \in BOOLEAN, verified \in BOOLEAN :
    BeginJob(r, u, present /\ recent /\ verified /\ UploadReport(u))

\* A worker that does not renew its lock in time goes on, and the job is handed to another:
\* from now on r is the job too.
Stall(r) == \E s \in OtherJobs(r) : BeginJob(r, findings[s], TRUE)

\* The loop of process(): findings that sanitizePath throws on are passed over.
NextFinding(r, i) ==
  LET left == {j \in DOMAIN findings[r] : j > i /\ Sane(findings[r][j])}
  IN  IF left = {} THEN index' = [index EXCEPT ![r] = 0] /\ Goto(r, "progress")
      ELSE /\ \E j \in left : (\A k \in left : j <= k) /\ index' = [index EXCEPT ![r] = j]
           /\ Goto(r, "latest")

StartJob(r) ==
  /\ pc[r] = "queued"
  /\ NextFinding(r, 0)
  /\ UNCHANGED <<op, during, head, scans, uploaded, findings, attempt, latest, skipped, wiped, target, fixed, fixVars>>

\* Mutant: there is taken to be a scan.
FindLatestScan_Assumed(r) ==
  /\ pc[r] = "latest"
  /\ latest' = [latest EXCEPT ![r] = Len(scans)]
  /\ Goto(r, "duplicate")
  /\ UNCHANGED <<op, during, head, scans, uploaded, findings, index, attempt, skipped, wiped, target, fixed, fixVars>>

\* save(): the latest scan, or a new one,
FindLatestScan(r) ==
  /\ pc[r] = "latest"
  /\ latest' = [latest EXCEPT ![r] = Len(scans)]
  /\ Goto(r, IF scans = <<>> THEN "create scan" ELSE "duplicate")
  /\ UNCHANGED <<op, during, head, scans, uploaded, findings, index, attempt, skipped, wiped, target, fixed, fixVars>>

CreateDefaultScan(r) ==
  /\ pc[r] = "create scan"
  /\ scans' = Append(scans, Scan(r, NoVersion, NoAnswer, "no findings"))
  /\ latest' = [latest EXCEPT ![r] = Len(scans')]
  /\ Goto(r, "duplicate")
  /\ UNCHANGED <<op, during, head, uploaded, findings, index, attempt, skipped, wiped, target, fixed, fixVars>>

Same(f, g) == f.title = g.title /\ f.path = g.path /\ f.line = g.line

\* Mutant: the duplicate is looked for among uploaded findings of the request only.
FindDuplicate_Own(r) ==
  /\ pc[r] = "duplicate"
  /\ IF \E x \in Rows : x.by = r /\ Same(x.finding, findings[r][index[r]])
       THEN NextFinding(r, index[r])
       ELSE Goto(r, "create") /\ UNCHANGED index
  /\ UNCHANGED <<op, during, head, scans, uploaded, findings, attempt, latest, skipped, wiped, target, fixed, fixVars>>

\* the finding of the same path, line and title, whichever module reported it,
FindDuplicate(r) ==
  /\ pc[r] = "duplicate"
  /\ IF \E x \in Rows : x.scan = latest[r] /\ Same(x.finding, findings[r][index[r]])
       THEN NextFinding(r, index[r])
       ELSE Goto(r, "create") /\ UNCHANGED index
  /\ UNCHANGED <<op, during, head, scans, uploaded, findings, attempt, latest, skipped, wiped, target, fixed, fixVars>>

\* and the new row.
CreateFinding(r) ==
  /\ pc[r] = "create"
  /\ uploaded' = uploaded \cup
       {Row(r, index[r] + attempt[r] * Len(findings[r]), latest[r], Manual(findings[r][index[r]]))}
  /\ NextFinding(r, index[r])
  /\ UNCHANGED <<op, during, head, scans, findings, attempt, latest, skipped, wiped, target, fixed, fixVars>>

\* Any of the queries rejects: the error is logged and the finding lost.
QueryFails(r) ==
  /\ pc[r] \in {"latest", "create scan", "duplicate", "create"}
  /\ skipped' = skipped \cup {r}
  /\ NextFinding(r, index[r])
  /\ UNCHANGED <<op, during, head, scans, uploaded, findings, attempt, latest, wiped, target, fixed, fixVars>>

\* updateProgress ends the job.
UpdateProgress(r) ==
  /\ pc[r] = "progress"
  /\ Goto(r, "over")
  /\ UNCHANGED <<op, during, head, scans, uploaded, jobVars, wiped, target, fixed, fixVars>>

\* updateProgress rejects, or the worker dies at any await: the job begins again, all of it.
AttemptAgain(r) ==
  /\ pc[r] \in InJob \ {"queued"} /\ attempt[r] < MaxAttempts
  /\ attempt' = [attempt EXCEPT ![r] = @ + 1]
  /\ Goto(r, "queued")
  /\ UNCHANGED <<op, during, head, scans, uploaded, findings, index, latest, skipped, wiped, target, fixed, fixVars>>
-------------------------------------------------------------------------------
(* A fix *)

RequestFix(r) ==
  /\ Cardinality({s \in Requests : op[s] = "fix"}) < MaxFixes
  /\ \E x \in Rows :
       /\ x.finding.title \in FixTitles
       /\ \A s \in Requests : op[s] = "fix" => target[s] = x
       /\ Begin(r, "fix", "find")
       /\ target' = [target EXCEPT ![r] = x]
  /\ UNCHANGED <<during, head, scans, uploaded, jobVars, wiped, fixed, fixVars>>

\* Not found, no place, no repository to clone, or on to rm.
FindFinding(r) ==
  /\ pc[r] = "find"
  /\ LET x == target[r]
     IN  Goto(r, IF x \in Rows /\ x.finding.line # 0 /\ scans[x.scan].version # NoVersion
                   THEN "rm" ELSE "over")
  /\ UNCHANGED <<op, during, head, scans, uploaded, jobVars, wiped, target, fixed, fixVars>>

RemoveOld(r) ==
  /\ pc[r] = "rm"
  /\ Rm(target[r])
  /\ Goto(r, "git")
  /\ UNCHANGED <<op, during, head, scans, uploaded, jobVars, wiped, target, fixed>>

StartClone(r) ==
  /\ pc[r] = "git"
  /\ IF target[r] \in DOMAIN workspace THEN Goto(r, "cleanup") /\ UNCHANGED fixVars
     ELSE GitCreates(target[r], r) /\ Goto(r, "cloning")
  /\ UNCHANGED <<op, during, head, scans, uploaded, jobVars, wiped, target, fixed>>

CloneFails(r) ==
  /\ pc[r] = "cloning"
  /\ GitFails(target[r])
  /\ Goto(r, "cleanup")
  /\ UNCHANGED <<op, during, head, scans, uploaded, jobVars, wiped, target, fixed>>

\* The branch, the patch and the commit, in whatever clone is there by now; checkout -b
\* fails where the branch exists.
Commit(r, n, method, v) ==
  LET x == target[r]
  IN  IF x \in DOMAIN workspace /\ workspace[x].state # "branched"
        THEN /\ Become(x, "branched")
             /\ fixed' = [fixed EXCEPT ![r] = [at |-> n, method |-> method, version |-> v]]
             /\ Goto(r, "audit")
        ELSE Goto(r, "cleanup") /\ UNCHANGED <<fixed, fixVars>>

\* The clone is there: up to the commit without an await, or to the question to Claude.
Patch(r) ==
  /\ pc[r] = "cloning" /\ ClonedBy(target[r], r)
  /\ LET f == target[r].finding
         tree == TreeAt[head]
         inside == f.path \in DOMAIN tree.text  \* not outside the root, and not missing
         n == IF inside THEN Locate(tree.text[f.path], f.title, f.line) ELSE 0
     IN  \/ n = 0 /\ Become(target[r], "cloned") /\ Goto(r, "cleanup") /\ UNCHANGED fixed
         \/ /\ n # 0 /\ Replacement(LineOf(tree.text[f.path], n)) # <<>>
            /\ Commit(r, n, "deterministic", head)
         \/ /\ n # 0 /\ Replacement(LineOf(tree.text[f.path], n)) = <<>>
            /\ Become(target[r], "cloned")
            /\ fixed' = [fixed EXCEPT ![r] = [at |-> n, method |-> None, version |-> head]]
            /\ Goto(r, "ai")
  /\ UNCHANGED <<op, during, head, scans, uploaded, jobVars, wiped, target>>

\* No key, an error, no text -- or a replacement.
SuggestReplacement(r) ==
  /\ pc[r] = "ai"
  /\ \/ Goto(r, "cleanup") /\ UNCHANGED <<fixed, fixVars>>
     \/ Commit(r, fixed[r].at, "ai-suggested", fixed[r].version)
  /\ UNCHANGED <<op, during, head, scans, uploaded, jobVars, wiped, target>>

LogRemediation(r) ==
  /\ pc[r] = "audit"
  /\ Goto(r, "cleanup")
  /\ UNCHANGED <<op, during, head, scans, uploaded, jobVars, wiped, target, fixed, fixVars>>

\* Mutant: only the clone that was patched is removed.
Cleanup_OnSuccess(r) ==
  /\ pc[r] = "cleanup"
  /\ IF fixed[r].method # None THEN Rm(target[r]) ELSE UNCHANGED fixVars
  /\ Goto(r, "over")
  /\ UNCHANGED <<op, during, head, scans, uploaded, jobVars, wiped, target, fixed>>

\* The finally block.
Cleanup(r) ==
  /\ pc[r] = "cleanup"
  /\ Rm(target[r])
  /\ Goto(r, "over")
  /\ UNCHANGED <<op, during, head, scans, uploaded, jobVars, wiped, target, fixed>>

Handle(r) ==
  \/ Push(r) \/ Clear(r) \/ StartScan(r) \/ CloneForScan(r) \/ FileFindings(r)
  \/ Upload(r) \/ StartJob(r) \/ FindLatestScan(r) \/ CreateDefaultScan(r)
  \/ FindDuplicate(r) \/ CreateFinding(r) \/ QueryFails(r) \/ UpdateProgress(r)
  \/ Stall(r) \/ AttemptAgain(r)
  \/ RequestFix(r) \/ FindFinding(r) \/ RemoveOld(r) \/ StartClone(r) \/ CloneFails(r)
  \/ Patch(r) \/ SuggestReplacement(r) \/ LogRemediation(r) \/ Cleanup(r)

Next == \E r \in Requests : Handle(r)

Spec == Init /\ [][Next]_vars
-------------------------------------------------------------------------------
(* Properties *)

(* A finished scan has filed what its tree deserves, no less and no more:     *)
(* every line with a defect some module looks for, in every file of the kinds *)
(* it audits that is not under an excluded name or behind a dangling link,    *)
(* every typosquatted package and every one whose installed version has an    *)
(* advisory that OSV answered with, in full -- until findings are cleared.    *)
ScannersMissNothing ==
  \A s \in DOMAIN scans : scans[s].filed = "yes" =>
    LET filed == {x.finding : x \in {x \in Rows \ uploaded : x.scan = s}}
        deps == TreeAt[scans[s].version].deps
        answer == scans[s].answer
    IN  /\ {f \in filed : f.module \notin {"CVE_INTELLIGENCE", "SEMGREP_SAST"}}
             = ReportOf(scans[s]).sought
        /\ {f.title : f \in {f \in filed : f.module = "CVE_INTELLIGENCE"}} =
             {a.id : a \in {a \in answer.advisories : a.id \in answer.details /\ \E d \in deps :
                a.name = d.name /\ a.version = IF d.locked = None THEN d.range ELSE d.locked}}

\* Where a finding is after new lines have replaced line n of p.
Shifted(f, p, n, new) ==
  IF f.path \in {p, ToRoot \o p} /\ f.line >= n /\ f.line > 1
    THEN [f EXCEPT !.line = @ + Len(new) - 1] ELSE f

\* The file is not to be had through a link: the same text would be there.
OnePath(tree, p) ==
  /\ ~ThroughLink(tree, p)
  /\ \A q \in Files(tree) : ThroughLink(tree, q) => tree.text[q] # tree.text[p]

\* What the rules look for.
Patterns ==
  {u.pattern : u \in SecretRules \cup EntropyRules \cup ComposeRules \cup {Rule("Raw Query", "rawQuery", {})}
                     \cup ResidentRules \cup GruvsRules \cup ExcelencyRules \cup VGruvsRules}

\* What a tree must be like for FixIsOfItsFinding to hold of it: no rule looks for anything
\* on the line of a route, a line that is replaced bears nothing a finding elsewhere depends
\* on, and it is not where what is found of a whole file is reported.
PlainLines(tree) ==
  \A p \in Files(tree) : \A i \in DOMAIN tree.text[p] :
    LET line == tree.text[p][i]
    IN  /\ "dbPort" \in line => "port" \in line
        /\ "route" \in line => line \cap Patterns = {}
        /\ line \cap {"dbPort", "privateKey", "rsaKey"} # {} =>
             line \cap {"@", "guard", "class", "route", "otherRoute", "USER", "limits"} = {}
        /\ i = 1 /\ Replacement(line) # <<>> =>
             tree.kind[p] \notin {"dockerfile", "yaml", "compose"} /\ p # PackageJson

(* A deterministic fix of a defect that is in the tree it clones, whoever     *)
(* reported it, patches the line of the defect and not another one; a scan of *)
(* the patched tree does not report it again and reports nothing new.  (Not   *)
(* for a port of MySQL, nor for a key on a line that assigns nothing: the fix *)
(* looks for the ports of PostgreSQL and Redis, and for assignments.  And not *)
(* for a file that is reached through a link as well: its defects are then    *)
(* reported under each of its paths, and fixed under all of them.)            *)
FixIsOfItsFinding ==
  \A r \in Requests : pc[r] = "audit" /\ fixed[r].method = "deterministic" =>
    LET f == target[r].finding
        tree == TreeAt[fixed[r].version]
        n == fixed[r].at
        new == Replacement(tree.text[f.path][n])
        before == ScanTree(tree, NoAnswer)
        defects == {g \in before : g.title = f.title /\ g.path \in {f.path, ToRoot \o f.path}
                                   /\ g.line = f.line}
        after == ScanTree(Patched(tree, f.path, n, new), NoAnswer)
        line == LineOf(tree.text[f.path], f.line)
    IN  defects # {} /\ OnePath(tree, f.path) /\ "mysqlPort" \notin line
          /\ (f.title \in {"Access Key", "High-Entropy Secret"} => "assign" \in line) =>
          /\ n = f.line
          /\ after \subseteq {Shifted(g, f.path, n, new) : g \in before \ defects}

(* An upload is stored once and not lost: two rows of one scan for the same   *)
(* uploaded finding come of jobs that overlapped, or of one that stalled and  *)
(* was run by two workers, not of a report repeated or a job begun again      *)
(* after a crash or an error; and when a worker is done with a job, each      *)
(* finding with a sane path is in the table, unless a query failed or         *)
(* findings were cleared.                                                     *)
UploadStoredOnce ==
  /\ \A x, y \in uploaded :
       x # y /\ x.finding = y.finding /\ x.scan = y.scan
         => x.by # y.by /\ y.by \in during[x.by]
  /\ \A r \in Requests : op[r] = "upload" /\ pc[r] = "over" /\ r \notin skipped /\ ~wiped =>
       \A i \in DOMAIN findings[r] : Sane(findings[r][i]) =>
         \E x \in Rows : Same(x.finding, findings[r][i])

(* A directory of a fix is there only while a fix of its finding runs, or     *)
(* after rm failed, however many fixes of it share it.                        *)
WorkspaceRemoved ==
  \A x \in DOMAIN workspace :
    x \in stuck \/ \E r \in Requests : target[r] = x /\ pc[r] \notin {"idle", "over"}
===============================================================================
