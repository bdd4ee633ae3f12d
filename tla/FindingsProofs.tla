---------------------------- MODULE FindingsProofs ----------------------------
(***************************************************************************)
(* Theorems about Findings, for any trees, scans, uploads and fixes.       *)
(***************************************************************************)
EXTENDS Findings, ScannersProofs

Places == {"idle", "over", "clone", "file", "queued", "latest", "create scan", "duplicate",
           "create", "progress", "clear", "find", "rm", "git", "cloning", "ai", "audit",
           "cleanup"}

\* From here on a fix passes through the finally block.
Working == {"cloning", "ai", "audit", "cleanup"}

FixFunctions ==
  /\ pc \in [Requests -> Places]
  /\ target = [r \in Requests |-> target[r]]

\* Each directory has a fix that will still come to the finally block.
Owned ==
  \A x \in DOMAIN workspace :
    x \in stuck \/ \E r \in Requests : target[r] = x /\ pc[r] \in Working

WorkspaceInv == FixFunctions /\ Owned
-------------------------------------------------------------------------------
(* A step of a request that is not at work on a directory and makes none.     *)
LEMMA OutsideStep ==
  ASSUME WorkspaceInv, NEW r \in Requests, pc[r] \notin Working,
         NEW there \in Places, pc' = [pc EXCEPT ![r] = there],
         NEW x, target' = target \/ target' = [target EXCEPT ![r] = x],
         DOMAIN workspace' \subseteq DOMAIN workspace,
         stuck \subseteq stuck'
  PROVE  WorkspaceInv'
<1>1. FixFunctions'
  BY DEF WorkspaceInv, FixFunctions
<1>2. ASSUME NEW q \in Requests, pc[q] \in Working
      PROVE  q # r /\ target'[q] = target[q] /\ pc'[q] = pc[q]
  BY <1>2 DEF WorkspaceInv, FixFunctions
<1>3. Owned'
  BY <1>2 DEF WorkspaceInv, Owned
<1> QED
  BY <1>1, <1>3 DEF WorkspaceInv

(* A step of a fix that is at work and will still come to the finally block.  *)
LEMMA WorkingStep ==
  ASSUME WorkspaceInv, NEW r \in Requests,
         NEW there \in Working, pc' = [pc EXCEPT ![r] = there],
         target' = target,
         DOMAIN workspace' \subseteq DOMAIN workspace \cup {target[r]},
         stuck \subseteq stuck'
  PROVE  WorkspaceInv'
<1>1. FixFunctions'
  BY DEF WorkspaceInv, FixFunctions, Working, Places
<1>2. /\ pc'[r] \in Working
      /\ \A q \in Requests : pc[q] \in Working => pc'[q] \in Working
  BY DEF WorkspaceInv, FixFunctions
<1>3. Owned'
  BY <1>2 DEF WorkspaceInv, Owned
<1> QED
  BY <1>1, <1>3 DEF WorkspaceInv

(* The finally block: the directory is gone, or it is one that is stuck.      *)
LEMMA CleanupStep ==
  ASSUME WorkspaceInv, NEW r \in Requests, Cleanup(r)
  PROVE  WorkspaceInv'
<1>1. pc' = [pc EXCEPT ![r] = "over"] /\ target' = target
  BY DEF Cleanup, Goto
<1>2. /\ DOMAIN workspace' \subseteq DOMAIN workspace /\ stuck \subseteq stuck'
      /\ target[r] \in DOMAIN workspace' => target[r] \in stuck'
  <2>1. CASE Removed(target[r]) /\ UNCHANGED stuck
    <3>1. DOMAIN workspace' = DOMAIN workspace \ {target[r]}
      BY <2>1 DEF Removed
    <3> QED
      BY <2>1, <3>1
  <2>2. CASE stuck' = stuck \cup {target[r]} /\ UNCHANGED workspace
    BY <2>2
  <2> QED
    BY <2>1, <2>2 DEF Cleanup, Rm
<1>3. FixFunctions'
  BY <1>1 DEF WorkspaceInv, FixFunctions, Places
<1>4. \A q \in Requests : pc[q] \in Working => q = r \/ pc'[q] \in Working
  BY <1>1 DEF WorkspaceInv, FixFunctions
<1>5. Owned'
  BY <1>1, <1>2, <1>4 DEF WorkspaceInv, Owned
<1> QED
  BY <1>3, <1>5 DEF WorkspaceInv
-------------------------------------------------------------------------------
(* Scans, uploads, pushes and clearing have nothing to do with directories.   *)
LEMMA ScanAndUploadSteps ==
  ASSUME WorkspaceInv, NEW r \in Requests,
         \/ Push(r) \/ Clear(r) \/ StartScan(r) \/ CloneForScan(r) \/ FileFindings(r)
         \/ Upload(r) \/ Stall(r) \/ StartJob(r) \/ FindLatestScan(r) \/ CreateDefaultScan(r)
         \/ FindDuplicate(r) \/ CreateFinding(r) \/ QueryFails(r) \/ UpdateProgress(r)
         \/ AttemptAgain(r)
  PROVE  WorkspaceInv'
<1>1. /\ pc[r] \notin Working /\ UNCHANGED <<target, fixVars>>
      /\ \E there \in Places : pc' = [pc EXCEPT ![r] = there]
  <2>1. CASE Push(r) \/ Clear(r) \/ CloneForScan(r) \/ FileFindings(r)
    BY <2>1 DEF Push, Clear, CloneForScan, FileFindings, Begin, Goto, Places, Working
  <2>2. CASE StartScan(r)
    BY <2>2 DEF StartScan, Begin, Goto, Places, Working
  <2>3. CASE Upload(r) \/ Stall(r)
    BY <2>3 DEF Upload, Stall, BeginJob, Begin, Goto, Places, Working
  <2>4. CASE StartJob(r) \/ FindDuplicate(r) \/ CreateFinding(r) \/ QueryFails(r)
    BY <2>4 DEF StartJob, FindDuplicate, CreateFinding, QueryFails, NextFinding, Goto, Places,
                Working
  <2>5. CASE FindLatestScan(r) \/ CreateDefaultScan(r) \/ UpdateProgress(r) \/ AttemptAgain(r)
    BY <2>5 DEF FindLatestScan, CreateDefaultScan, UpdateProgress, AttemptAgain, InJob, Goto,
                Places, Working
  <2> QED
    BY <2>1, <2>2, <2>3, <2>4, <2>5
<1> QED
  BY <1>1, OutsideStep DEF fixVars

(* A fix before git has made its directory.                                   *)
LEMMA EarlyFixSteps ==
  ASSUME WorkspaceInv, NEW r \in Requests,
         RequestFix(r) \/ FindFinding(r) \/ RemoveOld(r) \/ StartClone(r)
  PROVE  WorkspaceInv'
<1>1. CASE RequestFix(r)
  <2>1. PICK x : /\ pc[r] = "idle" /\ pc' = [pc EXCEPT ![r] = "find"]
                 /\ target' = [target EXCEPT ![r] = x] /\ UNCHANGED fixVars
    BY <1>1 DEF RequestFix, Begin, Goto
  <2> QED
    BY <2>1, OutsideStep DEF fixVars, Places, Working
<1>2. CASE FindFinding(r)
  <2>1. /\ pc[r] = "find" /\ UNCHANGED <<target, fixVars>>
        /\ \E there \in {"rm", "over"} : pc' = [pc EXCEPT ![r] = there]
    BY <1>2 DEF FindFinding, Goto
  <2> QED
    BY <2>1, OutsideStep DEF fixVars, Places, Working
<1>3. CASE RemoveOld(r)
  <2>1. /\ pc[r] = "rm" /\ pc' = [pc EXCEPT ![r] = "git"] /\ UNCHANGED target
        /\ DOMAIN workspace' \subseteq DOMAIN workspace /\ stuck \subseteq stuck'
    BY <1>3 DEF RemoveOld, Goto, Rm, Removed
  <2> QED
    BY <2>1, OutsideStep DEF Places, Working
<1>4. CASE StartClone(r)
  <2>1. /\ UNCHANGED <<target, stuck>>
        /\ \E there \in Working : pc' = [pc EXCEPT ![r] = there]
        /\ DOMAIN workspace' \subseteq DOMAIN workspace \cup {target[r]}
    BY <1>4 DEF StartClone, Goto, GitCreates, fixVars, Working
  <2> QED
    BY <2>1, WorkingStep
<1> QED
  BY <1>1, <1>2, <1>3, <1>4

(* A fix in its directory: no step makes another, and all lead on to finally. *)
LEMMA LateFixSteps ==
  ASSUME WorkspaceInv, NEW r \in Requests,
         CloneFails(r) \/ Patch(r) \/ SuggestReplacement(r) \/ LogRemediation(r)
  PROVE  WorkspaceInv'
<1>1. ASSUME NEW n, NEW method, NEW v, Commit(r, n, method, v)
      PROVE  /\ DOMAIN workspace' \subseteq DOMAIN workspace /\ stuck' = stuck
             /\ \E there \in Working : pc' = [pc EXCEPT ![r] = there]
  BY <1>1 DEF Commit, Become, Goto, fixVars, Working
<1>2. /\ UNCHANGED target
      /\ DOMAIN workspace' \subseteq DOMAIN workspace /\ stuck' = stuck
      /\ \E there \in Working : pc' = [pc EXCEPT ![r] = there]
  <2>1. CASE CloneFails(r)
    BY <2>1 DEF CloneFails, GitFails, Removed, Goto, Working
  <2>2. CASE Patch(r)
    <3>1. \/ \E n, method, v : Commit(r, n, method, v)
          \/ Become(target[r], "cloned") /\ (Goto(r, "cleanup") \/ Goto(r, "ai"))
      BY <2>2 DEF Patch
    <3>2. CASE Become(target[r], "cloned") /\ (Goto(r, "cleanup") \/ Goto(r, "ai"))
      BY <2>2, <3>2 DEF Patch, Become, Goto, Working
    <3> QED
      BY <1>1, <2>2, <3>1, <3>2 DEF Patch
  <2>3. CASE SuggestReplacement(r)
    BY <1>1, <2>3 DEF SuggestReplacement, Goto, fixVars, Working
  <2>4. CASE LogRemediation(r)
    BY <2>4 DEF LogRemediation, Goto, fixVars, Working
  <2> QED
    BY <2>1, <2>2, <2>3, <2>4
<1> QED
  BY <1>2, WorkingStep

(* However many fixes share a directory, and wherever they fail, a directory  *)
(* that no rm has failed on outlives none of them: what is there belongs to a *)
(* fix that has yet to run its finally block.                                 *)
THEOREM WorkspacesEndWithTheirFixes == Spec => []WorkspaceRemoved
<1>1. Init => WorkspaceInv
  BY DEF Init, FixInit, WorkspaceInv, FixFunctions, Owned, Places
<1>2. WorkspaceInv /\ [Next]_vars => WorkspaceInv'
  <2> SUFFICES ASSUME WorkspaceInv, [Next]_vars PROVE WorkspaceInv'
    OBVIOUS
  <2>1. CASE UNCHANGED vars
    BY <2>1 DEF vars, fixVars, WorkspaceInv, FixFunctions, Owned
  <2>2. ASSUME NEW r \in Requests, Handle(r) PROVE WorkspaceInv'
    BY <2>2, ScanAndUploadSteps, EarlyFixSteps, LateFixSteps, CleanupStep DEF Handle
  <2> QED
    BY <2>1, <2>2 DEF Next
<1>3. WorkspaceInv => WorkspaceRemoved
  BY DEF WorkspaceInv, Owned, WorkspaceRemoved, Working
<1> QED
  BY <1>1, <1>2, <1>3, PTL DEF Spec
-------------------------------------------------------------------------------
(* Uploads: what is stored is stored once                                     *)

\* The functions of requests are functions of requests.
JobFunctions ==
  /\ pc \in [Requests -> Places]
  /\ op = [r \in Requests |-> op[r]]
  /\ during \in [Requests -> SUBSET Requests]
  /\ findings = [r \in Requests |-> findings[r]]
  /\ index = [r \in Requests |-> index[r]]
  /\ latest = [r \in Requests |-> latest[r]]

\* Jobs that are there together know of each other.
JobsKnown ==
  \A q, r \in Requests : q # r /\ pc[q] \in InJob /\ pc[r] \in InJob => q \in during[r]

MakersBegan == \A x \in uploaded : x.by \in Requests /\ pc[x.by] # "idle"

Overlapping(q, r) == q # r /\ q \in during[r] /\ r \in during[q]

\* A row of the finding r is about to store, in the scan it has found.
StoredFor(x, r) == x.scan = latest[r] /\ x.finding = Manual(findings[r][index[r]])

\* Since its duplicate was looked for, only jobs that overlap have stored one.
LookedFor(r) == pc[r] = "create" => \A x \in uploaded : StoredFor(x, r) => Overlapping(x.by, r)

OncePerScan ==
  \A x, y \in uploaded :
    x # y /\ x.finding = y.finding /\ x.scan = y.scan => Overlapping(y.by, x.by)

StoreInv ==
  /\ JobFunctions /\ JobsKnown /\ MakersBegan /\ OncePerScan
  /\ \A r \in Requests : LookedFor(r)

\* What a step of r does to the jobs of the others.
OtherJobsKept(r) ==
  \A q \in Requests \ {r} : /\ pc'[q] = pc[q] /\ findings'[q] = findings[q]
                            /\ index'[q] = index[q] /\ latest'[q] = latest[q]

(* A step that stores nothing and ends at no point where it is about to.      *)
LEMMA StoresNothing ==
  ASSUME StoreInv, NEW r \in Requests, JobFunctions', OtherJobsKept(r),
         UNCHANGED during, uploaded' \subseteq uploaded,
         pc'[r] \notin {"idle", "create"}, pc'[r] \in InJob => pc[r] \in InJob
  PROVE  StoreInv'
<1>1. JobsKnown'
  BY DEF StoreInv, JobsKnown, OtherJobsKept
<1>2. MakersBegan'
  BY DEF StoreInv, MakersBegan, OtherJobsKept
<1>3. OncePerScan'
  BY DEF StoreInv, OncePerScan, Overlapping
<1>4. ASSUME NEW q \in Requests PROVE LookedFor(q)'
  <2>1. CASE q = r
    BY <2>1 DEF LookedFor
  <2>2. CASE q # r
    BY <2>2 DEF StoreInv, LookedFor, StoredFor, Overlapping, OtherJobsKept
  <2> QED
    BY <2>1, <2>2
<1> QED
  BY <1>1, <1>2, <1>3, <1>4 DEF StoreInv

LEMMA OneBegins ==
  ASSUME NEW r \in Requests, Upload(r) \/ Stall(r)
  PROVE  \E u : \E accepted \in BOOLEAN :
           /\ BeginJob(r, u, accepted)
           /\ accepted /\ (\A s \in Requests : IsArray(findings[s])) => IsArray(u)
<1>1. CASE Upload(r)
  <2>1. PICK u \in Uploads[head], present \in BOOLEAN, recent \in BOOLEAN, verified \in BOOLEAN :
          BeginJob(r, u, present /\ recent /\ verified /\ UploadReport(u))
    BY <1>1 DEF Upload
  <2> DEFINE A == present /\ recent /\ verified /\ UploadReport(u)
  <2>2. A \in BOOLEAN /\ (A => IsArray(u))
    BY DEF UploadReport
  <2> HIDE DEF A
  <2> QED
    BY <2>1, <2>2 DEF A
<1>2. CASE Stall(r)
  <2>1. PICK s \in Requests : BeginJob(r, findings[s], TRUE)
    BY <1>2 DEF Stall, OtherJobs
  <2> QED
    BY <2>1
<1> QED
  BY <1>1, <1>2

(* A job begins, of an upload or of a worker that was handed a stalled one:   *)
(* it is new to those that are there, and known to them from now on.          *)
LEMMA UploadStep ==
  ASSUME StoreInv, NEW r \in Requests, Upload(r) \/ Stall(r)
  PROVE  StoreInv'
<1> DEFINE Seen(accepted) ==
             [s \in Requests |->
                IF ~accepted THEN during[s]
                ELSE IF s = r THEN OtherJobs(r)
                ELSE IF s \in OtherJobs(r) THEN during[s] \cup {r} ELSE during[s]]
<1>1. PICK accepted \in BOOLEAN :
        /\ pc[r] = "idle" /\ op' = [op EXCEPT ![r] = "upload"]
        /\ pc' = [pc EXCEPT ![r] = IF accepted THEN "queued" ELSE "over"]
        /\ \E u : findings' = [findings EXCEPT ![r] = u]
        /\ during' = Seen(accepted)
        /\ UNCHANGED <<uploaded, index, latest>>
  <2>1. PICK u : \E accepted \in BOOLEAN : BeginJob(r, u, accepted)
    <3> HIDE DEF Seen
    <3> QED
      BY OneBegins
  <2> QED
    BY <2>1 DEF BeginJob, Begin, Goto
<1>2. /\ JobFunctions' /\ OtherJobsKept(r)
      /\ pc'[r] \in {"queued", "over"}
      /\ \A q \in Requests : during[q] \subseteq during'[q] \/ q = r
  BY <1>1 DEF StoreInv, JobFunctions, OtherJobsKept, OtherJobs, Places
<1>3. JobsKnown'
  <2> SUFFICES ASSUME NEW q \in Requests, NEW s \in Requests, q # s,
                      pc'[q] \in InJob, pc'[s] \in InJob
               PROVE  q \in during'[s]
    BY DEF JobsKnown
  <2>1. CASE q # r /\ s # r
    BY <1>2, <2>1 DEF StoreInv, JobsKnown, OtherJobsKept
  <2>2. CASE q = r \/ s = r
    <3>1. accepted
      BY <1>1, <2>2 DEF StoreInv, JobFunctions, InJob
    <3>2. q # r => pc[q] \in InJob
      BY <1>2 DEF OtherJobsKept
    <3>3. s # r => pc[s] \in InJob
      BY <1>2 DEF OtherJobsKept
    <3> QED
      BY <1>1, <2>2, <3>1, <3>2, <3>3 DEF OtherJobs
  <2> QED
    BY <2>1, <2>2
<1>4. \A x \in uploaded : x.by # r
  BY <1>1 DEF StoreInv, MakersBegan
<1>5. MakersBegan'
  BY <1>1, <1>2, <1>4 DEF StoreInv, MakersBegan, OtherJobsKept
<1>6. OncePerScan'
  BY <1>1, <1>2, <1>4 DEF StoreInv, OncePerScan, Overlapping, MakersBegan
<1>7. ASSUME NEW q \in Requests PROVE LookedFor(q)'
  <2>1. CASE q = r
    BY <1>2, <2>1 DEF LookedFor
  <2>2. CASE q # r
    BY <1>1, <1>2, <1>4, <2>2 DEF StoreInv, LookedFor, StoredFor, Overlapping, OtherJobsKept,
                                  MakersBegan
  <2> QED
    BY <2>1, <2>2
<1> QED
  BY <1>2, <1>3, <1>5, <1>6, <1>7 DEF StoreInv

(* A new row: another of the finding can only come of a job that overlaps.    *)
LEMMA CreateStep ==
  ASSUME StoreInv, NEW r \in Requests, CreateFinding(r)
  PROVE  StoreInv'
<1> DEFINE new == Row(r, index[r] + attempt[r] * Len(findings[r]), latest[r],
                      Manual(findings[r][index[r]]))
<1>1. /\ pc[r] = "create" /\ UNCHANGED <<op, during, findings, latest>>
      /\ uploaded' = uploaded \cup {new}
      /\ \E j : index' = [index EXCEPT ![r] = j]
      /\ \E there \in {"latest", "progress"} : pc' = [pc EXCEPT ![r] = there]
  BY DEF CreateFinding, NextFinding, Goto
<1>2. new.by = r /\ StoredFor(new, r)
  BY DEF Row, StoredFor
<1> HIDE DEF new
<1>3. /\ JobFunctions' /\ OtherJobsKept(r)
      /\ pc'[r] \in {"latest", "progress"}
  BY <1>1, ZenonT(30) DEF StoreInv, JobFunctions, OtherJobsKept, Places
<1>4. JobsKnown'
  BY <1>1, <1>3 DEF StoreInv, JobsKnown, OtherJobsKept, InJob
<1>5. MakersBegan'
  BY <1>1, <1>2, <1>3 DEF StoreInv, MakersBegan, OtherJobsKept
<1>6. \A x \in uploaded : StoredFor(x, r) => Overlapping(x.by, r)
  BY <1>1 DEF StoreInv, LookedFor
<1>7. OncePerScan'
  <2> SUFFICES ASSUME NEW x \in uploaded', NEW y \in uploaded', x # y,
                      x.finding = y.finding, x.scan = y.scan
               PROVE  Overlapping(y.by, x.by)
    BY <1>1 DEF OncePerScan, Overlapping
  <2>1. CASE x \in uploaded /\ y \in uploaded
    BY <2>1 DEF StoreInv, OncePerScan
  <2>2. CASE x = new /\ y \in uploaded
    BY <1>2, <1>6, <2>2 DEF StoredFor
  <2>3. CASE x \in uploaded /\ y = new
    <3>1. Overlapping(x.by, r)
      BY <1>2, <1>6, <2>3 DEF StoredFor
    <3> QED
      BY <1>2, <2>3, <3>1 DEF Overlapping
  <2> QED
    BY <1>1, <2>1, <2>2, <2>3
<1>8. ASSUME NEW q \in Requests PROVE LookedFor(q)'
  <2>1. CASE q = r
    BY <1>3, <2>1 DEF LookedFor
  <2>2. CASE q # r
    <3> SUFFICES ASSUME pc[q] = "create", NEW x \in uploaded', StoredFor(x, q)
                 PROVE  Overlapping(x.by, q)
      BY <1>1, <1>3, <2>2 DEF LookedFor, StoredFor, Overlapping, OtherJobsKept
    <3>1. CASE x \in uploaded
      BY <3>1 DEF StoreInv, LookedFor
    <3>2. CASE x = new
      BY <1>1, <1>2, <2>2, <3>2 DEF StoreInv, JobsKnown, InJob, Overlapping
    <3> QED
      BY <1>1, <3>1, <3>2
  <2> QED
    BY <2>1, <2>2
<1> QED
  BY <1>3, <1>4, <1>5, <1>7, <1>8 DEF StoreInv

(* The duplicate is looked for in the scan the row would go to.               *)
LEMMA DuplicateStep ==
  ASSUME StoreInv, NEW r \in Requests, FindDuplicate(r)
  PROVE  StoreInv'
<1>1. /\ pc[r] = "duplicate" /\ UNCHANGED <<op, during, uploaded, findings, latest>>
      /\ \E j : index' = [index EXCEPT ![r] = j]
      /\ \E there \in {"latest", "progress", "create"} : pc' = [pc EXCEPT ![r] = there]
  <2>1. index' = index => index' = [index EXCEPT ![r] = index[r]]
    BY DEF StoreInv, JobFunctions
  <2> QED
    BY <2>1 DEF FindDuplicate, NextFinding, Goto
<1>2. /\ JobFunctions' /\ OtherJobsKept(r)
      /\ pc'[r] \in {"latest", "progress", "create"}
  BY <1>1, ZenonT(40) DEF StoreInv, JobFunctions, OtherJobsKept, Places
<1>3. CASE pc'[r] # "create"
  BY <1>1, <1>2, <1>3, StoresNothing DEF InJob
<1>4. CASE pc'[r] = "create"
  <2>1. /\ index' = index
        /\ \A x \in Rows : ~(x.scan = latest[r] /\ Same(x.finding, findings[r][index[r]]))
    BY <1>1, <1>2, <1>4 DEF FindDuplicate, NextFinding, Goto, StoreInv, JobFunctions
  <2>2. \A x \in uploaded : ~StoredFor(x, r)
    <3> SUFFICES ASSUME NEW x \in uploaded, StoredFor(x, r) PROVE FALSE
      OBVIOUS
    <3>1. x \in Rows /\ x.scan = latest[r]
      BY DEF Rows, StoredFor
    <3>2. Same(x.finding, findings[r][index[r]])
      BY DEF StoredFor, Manual, Finding, Same
    <3> QED
      BY <2>1, <3>1, <3>2
  <2>3. JobsKnown'
    BY <1>1, <1>2 DEF StoreInv, JobsKnown, OtherJobsKept, InJob
  <2>4. MakersBegan' /\ OncePerScan'
    BY <1>1, <1>2, <1>4 DEF StoreInv, MakersBegan, OncePerScan, Overlapping, OtherJobsKept
  <2>5. ASSUME NEW q \in Requests PROVE LookedFor(q)'
    <3>1. CASE q = r
      BY <1>1, <2>1, <2>2, <3>1 DEF LookedFor, StoredFor
    <3>2. CASE q # r
      BY <1>1, <1>2, <3>2 DEF StoreInv, LookedFor, StoredFor, Overlapping, OtherJobsKept
    <3> QED
      BY <3>1, <3>2
  <2> QED
    BY <1>2, <2>3, <2>4, <2>5 DEF StoreInv
<1> QED
  BY <1>3, <1>4

(* All the rest stores nothing.                                               *)
LEMMA OtherStoreSteps ==
  ASSUME StoreInv, NEW r \in Requests, Handle(r),
         ~Upload(r), ~Stall(r), ~FindDuplicate(r), ~CreateFinding(r)
  PROVE  StoreInv'
<1>1. /\ UNCHANGED <<during, findings>> /\ uploaded' \subseteq uploaded
      /\ op' = op \/ \E what : op' = [op EXCEPT ![r] = what]
      /\ index' = index \/ \E j : index' = [index EXCEPT ![r] = j]
      /\ latest' = latest \/ \E j : latest' = [latest EXCEPT ![r] = j]
      /\ \E there \in Places \ {"idle", "create"} :
           /\ pc' = [pc EXCEPT ![r] = there]
           /\ there \in InJob => pc[r] \in InJob
  <2>1. CASE Push(r) \/ Clear(r) \/ StartScan(r)
    <3>1. \E there \in {"over", "clone"} : pc' = [pc EXCEPT ![r] = there]
      BY <2>1 DEF Push, Clear, StartScan, Begin, Goto
    <3>2. \E what : op' = [op EXCEPT ![r] = what]
      BY <2>1 DEF Push, Clear, StartScan, Begin
    <3>3. UNCHANGED <<during, findings, index, latest>> /\ uploaded' \subseteq uploaded
      BY <2>1 DEF Push, Clear, StartScan, jobVars
    <3> QED
      BY <3>1, <3>2, <3>3 DEF Places, InJob
  <2>2. CASE CloneForScan(r) \/ FileFindings(r)
    <3>1. \E there \in {"file", "over"} : pc' = [pc EXCEPT ![r] = there]
      BY <2>2 DEF CloneForScan, FileFindings, Goto
    <3>2. UNCHANGED <<during, findings, uploaded, op, index, latest>>
      BY <2>2 DEF CloneForScan, FileFindings, jobVars
    <3> QED
      BY <3>1, <3>2 DEF Places, InJob
  <2>3. CASE FindLatestScan(r) \/ CreateDefaultScan(r)
    <3>1. \E there \in {"create scan", "duplicate"} : pc' = [pc EXCEPT ![r] = there]
      BY <2>3 DEF FindLatestScan, CreateDefaultScan, Goto
    <3>2. /\ \E j : latest' = [latest EXCEPT ![r] = j]
          /\ pc[r] \in InJob /\ UNCHANGED <<during, findings, uploaded, op, index>>
      BY <2>3 DEF FindLatestScan, CreateDefaultScan, InJob
    <3> QED
      BY <3>1, <3>2 DEF Places, InJob
  <2>4. CASE UpdateProgress(r) \/ AttemptAgain(r)
    <3>1. pc[r] \in InJob /\ \E there \in {"over", "queued"} : pc' = [pc EXCEPT ![r] = there]
      BY <2>4 DEF UpdateProgress, AttemptAgain, Goto, InJob
    <3>2. UNCHANGED <<during, findings, uploaded, op, index, latest>>
      BY <2>4 DEF UpdateProgress, AttemptAgain, jobVars
    <3> QED
      BY <3>1, <3>2 DEF Places, InJob
  <2>5. CASE StartJob(r) \/ QueryFails(r)
    BY <2>5 DEF StartJob, QueryFails, NextFinding, Goto, Places, InJob
  <2>6. CASE RequestFix(r) \/ FindFinding(r) \/ RemoveOld(r) \/ StartClone(r) \/ CloneFails(r)
    BY <2>6, ZenonT(30) DEF RequestFix, FindFinding, RemoveOld, StartClone, CloneFails, Begin,
                            Goto, jobVars, Places, InJob
  <2>7. CASE Patch(r) \/ SuggestReplacement(r) \/ LogRemediation(r) \/ Cleanup(r)
    <3>1. \E there \in {"audit", "cleanup", "ai", "over"} : pc' = [pc EXCEPT ![r] = there]
      BY <2>7 DEF Patch, SuggestReplacement, LogRemediation, Cleanup, Commit, Goto
    <3>2. UNCHANGED <<during, findings, uploaded, op, index, latest>>
      BY <2>7 DEF Patch, SuggestReplacement, LogRemediation, Cleanup, jobVars
    <3> QED
      BY <3>1, <3>2 DEF Places, InJob
  <2> QED
    BY <2>1, <2>2, <2>3, <2>4, <2>5, <2>6, <2>7 DEF Handle
<1>2. /\ JobFunctions' /\ OtherJobsKept(r)
      /\ pc'[r] \notin {"idle", "create"} /\ (pc'[r] \in InJob => pc[r] \in InJob)
  BY <1>1 DEF StoreInv, JobFunctions, OtherJobsKept
<1> QED
  BY <1>1, <1>2, StoresNothing

LEMMA StoreStep ==
  ASSUME StoreInv, [Next]_vars
  PROVE  StoreInv'
<1>1. CASE UNCHANGED vars
  BY <1>1 DEF vars, jobVars, StoreInv, JobFunctions, JobsKnown, MakersBegan, OncePerScan,
              LookedFor, StoredFor, Overlapping
<1>2. ASSUME NEW r \in Requests, Handle(r) PROVE StoreInv'
  BY <1>2, UploadStep, CreateStep, DuplicateStep, OtherStoreSteps
<1> QED
  BY <1>1, <1>2 DEF Next

LEMMA StoreHolds == Spec => []StoreInv
<1>1. Init => StoreInv
  BY DEF Init, StoreInv, JobFunctions, JobsKnown, MakersBegan, OncePerScan, LookedFor, Places, InJob
<1> QED
  BY <1>1, StoreStep, PTL DEF Spec
-------------------------------------------------------------------------------
(* The table: what is in it stays until it is cleared                         *)

ScanRow == [by : Requests \cup {First}, version : Versions \cup {NoVersion},
            answer : Answers \cup {NoAnswer},
            filed : {"not yet", "yes", "cleared", "no findings"}]

\* A scan row is made by a request that has begun, and by a scan in progress nothing is filed.
ScansOwned ==
  \A s \in DOMAIN scans : scans[s].by \in Requests =>
    /\ pc[scans[s].by] # "idle"
    /\ pc[scans[s].by] \in {"clone", "file"} => scans[s].filed = "not yet"

TableTypes ==
  /\ head \in Versions /\ scans \in Seq(ScanRow) /\ ScansOwned
  /\ \A x \in uploaded : x.scan \in 1..Len(scans) /\ x.by \in Requests

\* What a step may do to the scans and the uploaded rows without a row being lost.
Grows ==
  /\ DOMAIN scans \subseteq DOMAIN scans' /\ Len(scans) <= Len(scans')
  /\ wiped' = wiped
  /\ uploaded \subseteq uploaded'
  /\ \A s \in DOMAIN scans : scans[s].filed = "yes" => scans'[s] = scans[s]

LEMMA RowsGrow ==
  ASSUME Grows
  PROVE  Rows \subseteq Rows'
<1> SUFFICES ASSUME NEW x \in Rows PROVE x \in Rows'
  OBVIOUS
<1>1. CASE x \in uploaded
  BY <1>1 DEF Grows, Rows
<1>2. CASE x \notin uploaded
  <2>1. PICK s \in DOMAIN scans : scans[s].filed = "yes"
                                  /\ x \in {Row(scans[s].by, 0, s, f) : f \in ReportOf(scans[s]).found}
    BY <1>2 DEF Rows
  <2>2. s \in DOMAIN scans' /\ scans'[s] = scans[s]
    BY <2>1 DEF Grows
  <2> QED
    BY <2>1, <2>2 DEF Rows
<1> QED
  BY <1>1, <1>2

(* Pushes, and a step of anybody that leaves the table alone.                 *)
LEMMA TableLeftAlone ==
  ASSUME JobFunctions, TableTypes, NEW r \in Requests,
         UNCHANGED <<scans, uploaded, wiped>>, head' \in Versions,
         NEW there, pc' = [pc EXCEPT ![r] = there],
         there \notin {"idle", "clone", "file"}
  PROVE  TableTypes' /\ Grows
<1>1. ScansOwned'
  BY DEF JobFunctions, TableTypes, ScansOwned
<1>2. Len(scans) \in Nat
  BY DEF TableTypes
<1> QED
  BY <1>1, <1>2 DEF TableTypes, Grows

LEMMA ClearTypes ==
  ASSUME JobFunctions, TableTypes, NEW r \in Requests, Clear(r)
  PROVE  TableTypes' /\ (wiped' \/ Grows) /\ Len(scans) = Len(scans')
<1>1. pc[r] = "idle" /\ pc' = [pc EXCEPT ![r] = "over"] /\ head' = head
  BY DEF Clear, Begin, Goto
<1>2. CASE UNCHANGED <<scans, uploaded, wiped>>
  BY <1>1, <1>2, TableLeftAlone DEF TableTypes
<1>3. CASE /\ uploaded' = {} /\ wiped' = TRUE
           /\ scans' = [s \in DOMAIN scans |->
                          IF scans[s].filed = "yes" THEN [scans[s] EXCEPT !.filed = "cleared"]
                          ELSE scans[s]]
  <2>1. /\ scans \in Seq(ScanRow) /\ DOMAIN scans = 1..Len(scans) /\ Len(scans) \in Nat
        /\ \A s \in DOMAIN scans : scans[s] \in ScanRow
    BY DEF TableTypes
  <2>2. \A s \in DOMAIN scans : scans'[s] \in ScanRow /\ scans'[s].by = scans[s].by
                                /\ (scans[s].filed = "not yet" => scans'[s].filed = "not yet")
    BY <1>3, <2>1 DEF ScanRow
  <2>3. DOMAIN scans' = DOMAIN scans
    BY <1>3
  <2>4. scans' \in [1..Len(scans) -> ScanRow]
    <3>1. scans' = [s \in 1..Len(scans) |-> scans'[s]]
      BY <1>3, <2>1
    <3> QED
      BY <2>1, <2>2, <3>1
  <2>5. scans' \in Seq(ScanRow) /\ Len(scans') = Len(scans)
    BY <2>1, <2>4
  <2>6. ScansOwned'
    BY <1>1, <2>2, <2>3 DEF JobFunctions, TableTypes, ScansOwned
  <2> QED
    BY <1>1, <1>3, <2>5, <2>6 DEF TableTypes
<1> QED
  BY <1>2, <1>3 DEF Clear, TableTypes, Grows

LEMMA Appending ==
  ASSUME NEW S, NEW seq \in Seq(S), NEW x \in S
  PROVE  /\ Append(seq, x) \in Seq(S) /\ Len(Append(seq, x)) = Len(seq) + 1
         /\ \A i \in 1..Len(seq) : Append(seq, x)[i] = seq[i]
         /\ Append(seq, x)[Len(seq) + 1] = x
BY AppendProperties

LEMMA AppendedNotEmpty ==
  ASSUME NEW S, NEW seq \in Seq(S), NEW x
  PROVE  Append(seq, x) # <<>>
<1>1. seq \in Seq(S \cup {x}) /\ x \in S \cup {x}
  OBVIOUS
<1>2. Len(Append(seq, x)) = Len(seq) + 1 /\ Len(seq) \in Nat
  BY <1>1, Appending, LenProperties
<1>3. Len(<<>>) = 0
  OBVIOUS
<1>4. Len(Append(seq, x)) # 0
  BY <1>2
<1> QED
  BY <1>3, <1>4, Zenon

LEMMA OneMore ==
  ASSUME NEW n \in Nat
  PROVE  /\ 1..n \subseteq 1..(n + 1) /\ n <= n + 1 /\ n <= n
         /\ \A s \in 1..(n + 1) : s \in 1..n \/ s = n + 1
OBVIOUS

(* A new scan row, at the end.                                                *)
LEMMA RowAppended ==
  ASSUME JobFunctions, TableTypes, NEW r \in Requests, NEW row \in ScanRow, row.by = r,
         scans' = Append(scans, row), UNCHANGED <<head, uploaded, wiped>>,
         NEW there, pc' = [pc EXCEPT ![r] = there], there # "idle",
         there \in {"clone", "file"} => pc[r] = "idle" /\ row.filed = "not yet"
  PROVE  TableTypes' /\ Grows /\ Len(scans') = Len(scans) + 1
<1>1. /\ scans' \in Seq(ScanRow) /\ Len(scans') = Len(scans) + 1
      /\ Len(scans) \in Nat /\ DOMAIN scans = 1..Len(scans)
      /\ DOMAIN scans' = 1..(Len(scans) + 1)
      /\ \A s \in DOMAIN scans : scans'[s] = scans[s]
      /\ scans'[Len(scans) + 1] = row
      /\ DOMAIN scans \subseteq DOMAIN scans' /\ Len(scans) <= Len(scans')
      /\ \A s \in DOMAIN scans' : s \in DOMAIN scans \/ s = Len(scans) + 1
  <2>1. scans \in Seq(ScanRow)
    BY DEF TableTypes
  <2>2. Len(scans) \in Nat /\ DOMAIN scans = 1..Len(scans)
    BY <2>1, LenProperties
  <2>3. /\ scans' \in Seq(ScanRow) /\ Len(scans') = Len(scans) + 1
        /\ \A s \in 1..Len(scans) : scans'[s] = scans[s]
        /\ scans'[Len(scans) + 1] = row
    <3>1. /\ Append(scans, row) \in Seq(ScanRow) /\ Len(Append(scans, row)) = Len(scans) + 1
          /\ \A s \in 1..Len(scans) : Append(scans, row)[s] = scans[s]
          /\ Append(scans, row)[Len(scans) + 1] = row
      BY <2>1, Appending, ZenonT(30)
    <3> QED
      BY <3>1, Zenon
  <2>4. DOMAIN scans' = 1..(Len(scans) + 1)
    BY <2>3, LenProperties, Zenon
  <2>5. /\ 1..Len(scans) \subseteq 1..(Len(scans) + 1) /\ Len(scans) <= Len(scans) + 1
        /\ \A s \in 1..(Len(scans) + 1) : s \in 1..Len(scans) \/ s = Len(scans) + 1
    BY <2>2, OneMore
  <2> QED
    BY <2>2, <2>3, <2>4, <2>5, Zenon
<1>2. ScansOwned'
  <2> SUFFICES ASSUME NEW s \in DOMAIN scans', scans'[s].by \in Requests
               PROVE  /\ pc'[scans'[s].by] # "idle"
                      /\ pc'[scans'[s].by] \in {"clone", "file"} => scans'[s].filed = "not yet"
    BY DEF ScansOwned
  <2>1. pc'[r] = there /\ \A q \in Requests \ {r} : pc'[q] = pc[q]
    BY DEF JobFunctions
  <2>2. CASE s \in DOMAIN scans
    <3>1. scans'[s] = scans[s] /\ scans[s].by \in Requests
      BY <1>1, <2>2
    <3>2. /\ pc[scans[s].by] # "idle"
          /\ pc[scans[s].by] \in {"clone", "file"} => scans[s].filed = "not yet"
      BY <2>2, <3>1 DEF TableTypes, ScansOwned
    <3> QED
      BY <2>1, <3>1, <3>2
  <2>3. CASE s = Len(scans) + 1
    BY <1>1, <2>1, <2>3
  <2>4. s \in DOMAIN scans \/ s = Len(scans) + 1
    BY <1>1
  <2> QED
    BY <2>2, <2>3, <2>4
<1>3. \A x \in uploaded : x.scan \in 1..Len(scans') /\ x.by \in Requests
  <2> SUFFICES ASSUME NEW x \in uploaded PROVE x.scan \in 1..Len(scans') /\ x.by \in Requests
    OBVIOUS
  <2>1. x.scan \in DOMAIN scans /\ x.by \in Requests
    BY <1>1 DEF TableTypes
  <2>2. x.scan \in DOMAIN scans'
    BY <1>1, <2>1, Zenon
  <2> QED
    BY <1>1, <2>1, <2>2, Zenon
<1>4. TableTypes'
  BY <1>1, <1>2, <1>3 DEF TableTypes
<1>5. Grows
  BY <1>1, Zenon DEF Grows
<1> QED
  BY <1>1, <1>4, <1>5

(* The row of a scan in progress is set.                                      *)
LEMMA RowSet ==
  ASSUME JobFunctions, TableTypes, NEW r \in Requests, pc[r] \in {"clone", "file"},
         NEW n \in DOMAIN scans, scans[n].by = r, NEW row \in ScanRow, row.by = r,
         scans' = [scans EXCEPT ![n] = row], UNCHANGED <<head, uploaded, wiped>>,
         NEW there \in {"file", "over"}, pc' = [pc EXCEPT ![r] = there],
         there = "file" => row.filed = "not yet"
  PROVE  TableTypes' /\ Grows /\ Len(scans') = Len(scans)
<1>1. /\ scans' \in Seq(ScanRow) /\ Len(scans') = Len(scans)
      /\ Len(scans) \in Nat /\ DOMAIN scans = 1..Len(scans) /\ DOMAIN scans' = DOMAIN scans
      /\ \A s \in DOMAIN scans : s # n => scans'[s] = scans[s]
      /\ scans'[n] = row
  <2>1. scans \in Seq(ScanRow)
    BY DEF TableTypes
  <2>2. Len(scans) \in Nat /\ DOMAIN scans = 1..Len(scans)
    BY <2>1, LenProperties
  <2>3. /\ scans' \in Seq(ScanRow) /\ Len(scans') = Len(scans)
        /\ \A s \in 1..Len(scans) : scans'[s] = IF s = n THEN row ELSE scans[s]
    BY <2>1, <2>2, ExceptSeq
  <2>4. DOMAIN scans' = 1..Len(scans)
    BY <2>3, LenProperties
  <2> QED
    BY <2>2, <2>3, <2>4
<1>2. scans[n].filed = "not yet"
  BY DEF TableTypes, ScansOwned
<1>3. ScansOwned'
  <2> SUFFICES ASSUME NEW s \in DOMAIN scans, scans'[s].by \in Requests
               PROVE  /\ pc'[scans'[s].by] # "idle"
                      /\ pc'[scans'[s].by] \in {"clone", "file"} => scans'[s].filed = "not yet"
    BY <1>1 DEF ScansOwned
  <2>1. CASE s # n
    BY <1>1, <2>1 DEF JobFunctions, TableTypes, ScansOwned
  <2>2. CASE s = n
    BY <1>1, <2>2 DEF JobFunctions
  <2> QED
    BY <2>1, <2>2
<1>4. TableTypes'
  BY <1>1, <1>3 DEF TableTypes
<1>5. Grows
  <2>1. DOMAIN scans \subseteq DOMAIN scans' /\ Len(scans) <= Len(scans')
    <3>1. Len(scans) \in Nat /\ Len(scans') = Len(scans) /\ DOMAIN scans' = DOMAIN scans
      BY <1>1, Zenon
    <3> QED
      BY <3>1, OneMore, Zenon
  <2>2. \A s \in DOMAIN scans : scans[s].filed = "yes" => scans'[s] = scans[s]
    BY <1>1, <1>2, Zenon
  <2> QED
    BY <2>1, <2>2 DEF Grows
<1> QED
  BY <1>1, <1>4, <1>5

Storing == {"latest", "create scan", "duplicate", "create"}

\* The job of an upload: which finding it is at, and in which scan.
JobOK(r) ==
  /\ IsArray(findings[r])
  /\ op[r] = "upload" => pc[r] \in InJob \cup {"over"}
  /\ index[r] = 0 \/ index[r] \in DOMAIN findings[r]
  /\ pc[r] = "idle" => index[r] = 0
  /\ pc[r] \in Storing => index[r] \in DOMAIN findings[r]
  /\ latest[r] \in 0..Len(scans)
  /\ pc[r] \in {"duplicate", "create"} => latest[r] \in 1..Len(scans)

JobTypes ==
  /\ attempt \in [Requests -> 0..MaxAttempts]
  /\ skipped \subseteq Requests /\ wiped \in BOOLEAN
  /\ \A r \in Requests : JobOK(r)

LEMMA ScanRows ==
  ASSUME NEW r \in Requests, NEW v \in Versions \cup {NoVersion},
         NEW a \in Answers \cup {NoAnswer},
         NEW d \in {"not yet", "yes", "cleared", "no findings"}
  PROVE  /\ Scan(r, v, a, d) \in ScanRow
         /\ Scan(r, v, a, d).by = r /\ Scan(r, v, a, d).filed = d
BY DEF Scan, ScanRow

(* A scan: its row, its clone, its findings.                                  *)
LEMMA ScanSteps ==
  ASSUME JobFunctions, TableTypes, NEW r \in Requests,
         StartScan(r) \/ CloneForScan(r) \/ FileFindings(r)
  PROVE  TableTypes' /\ Grows
<1>1. CASE StartScan(r)
  <2>1. \/ pc' = [pc EXCEPT ![r] = "over"] /\ scans' = scans
        \/ /\ pc[r] = "idle" /\ pc' = [pc EXCEPT ![r] = "clone"]
           /\ scans' = Append(scans, Scan(r, head, NoAnswer, "not yet"))
    BY <1>1 DEF StartScan, Begin, Goto
  <2>2. UNCHANGED <<head, uploaded, wiped>> /\ head' \in Versions
    BY <1>1 DEF StartScan, TableTypes
  <2>3. CASE pc' = [pc EXCEPT ![r] = "over"] /\ scans' = scans
    BY <2>2, <2>3, TableLeftAlone
  <2>4. CASE /\ pc[r] = "idle" /\ pc' = [pc EXCEPT ![r] = "clone"]
             /\ scans' = Append(scans, Scan(r, head, NoAnswer, "not yet"))
    <3> DEFINE row == Scan(r, head, NoAnswer, "not yet")
    <3>1. row \in ScanRow /\ row.by = r /\ row.filed = "not yet"
      <4>1. /\ head \in Versions \cup {NoVersion} /\ NoAnswer \in Answers \cup {NoAnswer}
            /\ "not yet" \in {"not yet", "yes", "cleared", "no findings"}
        BY DEF TableTypes
      <4>2. row \in ScanRow
        BY <4>1, ScanRows, Zenon
      <4> QED
        BY <4>2 DEF Scan
    <3>2. scans' = Append(scans, row)
      BY <2>4
    <3> HIDE DEF row
    <3> QED
      BY <2>2, <2>4, <3>1, <3>2, RowAppended
  <2> QED
    BY <2>1, <2>3, <2>4
<1>2. CASE CloneForScan(r)
  <2>1. PICK n \in DOMAIN scans, a \in Answers :
          /\ scans[n].by = r /\ pc[r] = "clone" /\ pc' = [pc EXCEPT ![r] = "file"]
          /\ scans' = [scans EXCEPT ![n] = Scan(r, head, a, "not yet")]
    BY <1>2 DEF CloneForScan, Goto
  <2>2. UNCHANGED <<head, uploaded, wiped>>
    BY <1>2 DEF CloneForScan
  <2> DEFINE row == Scan(r, head, a, "not yet")
  <2>3. row \in ScanRow /\ row.by = r /\ row.filed = "not yet"
    <3>1. /\ head \in Versions \cup {NoVersion} /\ a \in Answers \cup {NoAnswer}
          /\ "not yet" \in {"not yet", "yes", "cleared", "no findings"}
      BY DEF TableTypes
    <3>2. row \in ScanRow
      BY <3>1, ScanRows, Zenon
    <3> QED
      BY <3>2 DEF Scan
  <2>4. scans' = [scans EXCEPT ![n] = row]
    BY <2>1
  <2> HIDE DEF row
  <2> QED
    BY <2>1, <2>2, <2>3, <2>4, RowSet
<1>3. CASE FileFindings(r)
  <2>1. PICK n \in DOMAIN scans :
          /\ scans[n].by = r /\ pc[r] = "file" /\ pc' = [pc EXCEPT ![r] = "over"]
          /\ scans' = [scans EXCEPT ![n].filed = "yes"]
    BY <1>3 DEF FileFindings, Goto
  <2>2. UNCHANGED <<head, uploaded, wiped>>
    BY <1>3 DEF FileFindings
  <2> DEFINE row == [scans[n] EXCEPT !.filed = "yes"]
  <2>3. scans[n] \in ScanRow
    <3>1. scans \in Seq(ScanRow)
      BY DEF TableTypes
    <3>2. DOMAIN scans = 1..Len(scans)
      BY <3>1, LenProperties
    <3> QED
      BY <3>1, <3>2, ElementOfSeq
  <2>4. row \in ScanRow /\ row.by = r
    BY <2>1, <2>3 DEF ScanRow
  <2>5. scans' = [scans EXCEPT ![n] = row]
    BY <2>1
  <2> HIDE DEF row
  <2> QED
    BY <2>1, <2>2, <2>4, <2>5, RowSet
<1> QED
  BY <1>1, <1>2, <1>3

(* The rows of an upload.                                                     *)
LEMMA UploadRows ==
  ASSUME JobFunctions, TableTypes, NEW r \in Requests, JobOK(r),
         CreateDefaultScan(r) \/ CreateFinding(r)
  PROVE  TableTypes' /\ Grows
<1>1. CASE CreateDefaultScan(r)
  <2>1. /\ pc' = [pc EXCEPT ![r] = "duplicate"] /\ UNCHANGED <<head, uploaded, wiped>>
        /\ scans' = Append(scans, Scan(r, NoVersion, NoAnswer, "no findings"))
    BY <1>1 DEF CreateDefaultScan, Goto
  <2> DEFINE row == Scan(r, NoVersion, NoAnswer, "no findings")
  <2>2. row \in ScanRow /\ row.by = r
    <3>1. NoVersion \in Versions \cup {NoVersion} /\ NoAnswer \in Answers \cup {NoAnswer}
      OBVIOUS
    <3> QED
      BY <3>1, ScanRows, ZenonT(30)
  <2>3. scans' = Append(scans, row)
    BY <2>1
  <2> HIDE DEF row
  <2> QED
    BY <2>1, <2>2, <2>3, RowAppended
<1>2. CASE CreateFinding(r)
  <2>1. /\ pc[r] = "create" /\ UNCHANGED <<head, scans, wiped>>
        /\ \E there \in {"latest", "progress"} : pc' = [pc EXCEPT ![r] = there]
    BY <1>2 DEF CreateFinding, NextFinding, Goto
  <2> DEFINE x == Row(r, index[r] + attempt[r] * Len(findings[r]), latest[r],
                      Manual(findings[r][index[r]]))
  <2>2. uploaded' = uploaded \cup {x} /\ x.scan = latest[r] /\ x.by = r
    BY <1>2 DEF CreateFinding, Row
  <2> HIDE DEF x
  <2>3. latest[r] \in 1..Len(scans)
    BY <2>1 DEF JobOK
  <2>4. ScansOwned'
    BY <2>1 DEF JobFunctions, TableTypes, ScansOwned
  <2>5. TableTypes'
    BY <2>1, <2>2, <2>3, <2>4, Zenon DEF TableTypes
  <2>6. Len(scans) <= Len(scans)
    <3>1. scans \in Seq(ScanRow)
      BY DEF TableTypes
    <3> QED
      BY <3>1, LenProperties
  <2> QED
    BY <2>1, <2>2, <2>5, <2>6, Zenon DEF Grows
<1> QED
  BY <1>1, <1>2

LEMMA TableStep ==
  ASSUME JobFunctions, TableTypes, JobTypes, [Next]_vars
  PROVE  TableTypes' /\ (wiped' \/ Grows) /\ Len(scans) <= Len(scans')
<1>1. Len(scans) \in Nat
  BY LenProperties DEF TableTypes
<1>2. CASE UNCHANGED vars
  <2>1. UNCHANGED <<pc, head, scans, uploaded, wiped>>
    BY <1>2 DEF vars
  <2>2. TableTypes'
    BY <2>1, Zenon DEF TableTypes, ScansOwned
  <2>3. Len(scans) <= Len(scans)
    BY <1>1
  <2> QED
    BY <2>1, <2>2, <2>3, Zenon DEF Grows
<1>3. ASSUME NEW r \in Requests, Handle(r)
      PROVE  TableTypes' /\ (wiped' \/ Grows) /\ Len(scans) <= Len(scans')
  <2>1. CASE Clear(r)
    <3>1. TableTypes' /\ (wiped' \/ Grows) /\ Len(scans) = Len(scans')
      BY <2>1, ClearTypes
    <3> QED
      BY <1>1, <3>1
  <2>2. CASE StartScan(r) \/ CloneForScan(r) \/ FileFindings(r)
    BY <2>2, ScanSteps DEF Grows
  <2>3. CASE CreateDefaultScan(r) \/ CreateFinding(r)
    BY <2>3, UploadRows DEF Grows, JobTypes
  <2>4. CASE ~ \/ Clear(r) \/ StartScan(r) \/ CloneForScan(r) \/ FileFindings(r)
                \/ CreateDefaultScan(r) \/ CreateFinding(r)
    <3>1. UNCHANGED <<scans, uploaded, wiped>>
      BY <1>3, <2>4 DEF Handle, Push, Upload, Stall, BeginJob, StartJob, FindLatestScan,
                        FindDuplicate, QueryFails, UpdateProgress, AttemptAgain, RequestFix, FindFinding, RemoveOld, StartClone,
                        CloneFails, Patch, SuggestReplacement, LogRemediation, Cleanup
    <3>2. head' \in Versions
      <4>1. head' = head \/ (head.pushed < MaxPushes /\ head' = [head EXCEPT !.pushed = @ + 1])
        BY <1>3, <2>4 DEF Handle, Push, Upload, Stall, BeginJob, StartJob, FindLatestScan,
                          FindDuplicate, QueryFails, UpdateProgress, AttemptAgain, RequestFix, FindFinding, RemoveOld,
                          StartClone, CloneFails, Patch, SuggestReplacement, LogRemediation, Cleanup
      <4> QED
        BY <4>1, BoundsAssumption DEF TableTypes, Versions
    <3>3. \E there \in Places \ {"idle", "clone", "file"} : pc' = [pc EXCEPT ![r] = there]
      <4>1. CASE Push(r) \/ Upload(r) \/ Stall(r) \/ RequestFix(r)
        BY <4>1 DEF Push, Upload, Stall, BeginJob, RequestFix, Begin, Goto, Places
      <4>2. CASE StartJob(r) \/ FindDuplicate(r) \/ QueryFails(r)
        BY <4>2 DEF StartJob, FindDuplicate, QueryFails, NextFinding, Goto, Places
      <4>3. CASE FindLatestScan(r) \/ UpdateProgress(r) \/ AttemptAgain(r)
        BY <4>3 DEF FindLatestScan, UpdateProgress, AttemptAgain, Goto, Places
      <4>4. CASE FindFinding(r) \/ RemoveOld(r) \/ StartClone(r) \/ CloneFails(r)
        BY <4>4 DEF FindFinding, RemoveOld, StartClone, CloneFails, Goto, Places
      <4>5. CASE Patch(r) \/ SuggestReplacement(r) \/ LogRemediation(r) \/ Cleanup(r)
        BY <4>5 DEF Patch, SuggestReplacement, LogRemediation, Cleanup, Commit, Goto, Places
      <4> QED
        BY <1>3, <2>4, <4>1, <4>2, <4>3, <4>4, <4>5 DEF Handle
    <3>4. TableTypes' /\ Grows
      BY <3>1, <3>2, <3>3, TableLeftAlone
    <3> QED
      BY <3>4 DEF Grows
  <2> QED
    BY <2>1, <2>2, <2>3, <2>4
<1>4. CASE Next
  <2>1. PICK r \in Requests : Handle(r)
    BY <1>4, Zenon DEF Next
  <2> QED
    BY <1>3, <2>1, Zenon
<1> QED
  BY <1>2, <1>4

\* A step of r leaves the jobs, and what they are for, of all the others alone.
OnlyJob(r) == OtherJobsKept(r) /\ \A q \in Requests \ {r} : op'[q] = op[q]

LEMMA JobTypesKept ==
  ASSUME TableTypes, TableTypes', JobTypes, Len(scans) <= Len(scans'),
         NEW r \in Requests, OnlyJob(r), JobOK(r)',
         attempt' \in [Requests -> 0..MaxAttempts], skipped' \subseteq Requests, wiped' \in BOOLEAN
  PROVE  JobTypes'
<1>1. Len(scans) \in Nat /\ Len(scans') \in Nat
  BY LenProperties DEF TableTypes
<1>2. /\ \A n \in 0..Len(scans) : n \in 0..Len(scans')
      /\ \A n \in 1..Len(scans) : n \in 1..Len(scans')
  <2> DEFINE m == Len(scans)
             n == Len(scans')
  <2>1. m \in Nat /\ n \in Nat /\ m <= n
    BY <1>1
  <2> HIDE DEF m, n
  <2>2. (\A k \in 0..m : k \in 0..n) /\ \A k \in 1..m : k \in 1..n
    BY <2>1
  <2> QED
    BY <2>2 DEF m, n
<1>3. ASSUME NEW q \in Requests, q # r PROVE JobOK(q)'
  <2>1. /\ pc'[q] = pc[q] /\ findings'[q] = findings[q] /\ index'[q] = index[q]
        /\ latest'[q] = latest[q] /\ op'[q] = op[q]
    BY <1>3 DEF OnlyJob, OtherJobsKept
  <2>2. JobOK(q)
    BY DEF JobTypes
  <2> QED
    BY <1>2, <2>1, <2>2, Zenon DEF JobOK, IsArray
<1> QED
  BY <1>3, Zenon DEF JobTypes

\* What the steps that are no job's do to the jobs.
LEMMA NoJobStep ==
  ASSUME JobFunctions, JobFunctions', JobTypes, NEW r \in Requests, Handle(r),
         ~(\/ Upload(r) \/ Stall(r) \/ StartJob(r) \/ FindLatestScan(r) \/ CreateDefaultScan(r)
           \/ FindDuplicate(r) \/ CreateFinding(r) \/ QueryFails(r) \/ UpdateProgress(r)
           \/ AttemptAgain(r))
  PROVE  /\ UNCHANGED <<findings, index, attempt, latest, skipped>> /\ wiped' \in BOOLEAN
         /\ OnlyJob(r) /\ op'[r] # "upload" /\ pc'[r] \notin Storing \cup {"idle"}
<1>1. /\ UNCHANGED <<findings, index, attempt, latest, skipped>>
      /\ wiped' = wiped \/ wiped' = TRUE
  BY DEF Handle, Push, Clear, StartScan, CloneForScan, FileFindings, RequestFix, FindFinding,
         RemoveOld, StartClone, CloneFails, Patch, SuggestReplacement, LogRemediation, Cleanup,
         jobVars
<1>2. CASE Push(r) \/ Clear(r) \/ StartScan(r) \/ RequestFix(r)
  <2>1. \E what \in {"push", "clear", "scan", "fix"}, there \in {"over", "clone", "find"} :
          op' = [op EXCEPT ![r] = what] /\ pc' = [pc EXCEPT ![r] = there]
    BY <1>2 DEF Push, Clear, StartScan, RequestFix, Begin, Goto
  <2> QED
    BY <1>1, <2>1 DEF JobFunctions, JobTypes, OnlyJob, OtherJobsKept, Storing
<1>3. CASE ~(Push(r) \/ Clear(r) \/ StartScan(r) \/ RequestFix(r))
  <2>1. /\ op' = op /\ pc[r] \notin InJob \cup {"over"}
        /\ \E there \in {"file", "over", "rm", "git", "cloning", "ai", "audit", "cleanup"} :
             pc' = [pc EXCEPT ![r] = there]
    <3>1. CASE CloneForScan(r) \/ FileFindings(r)
      BY <3>1 DEF CloneForScan, FileFindings, Goto, InJob
    <3>2. CASE FindFinding(r) \/ RemoveOld(r) \/ StartClone(r) \/ CloneFails(r)
      BY <3>2 DEF FindFinding, RemoveOld, StartClone, CloneFails, Goto, InJob
    <3>3. CASE Patch(r) \/ SuggestReplacement(r) \/ LogRemediation(r) \/ Cleanup(r)
      BY <3>3 DEF Patch, SuggestReplacement, LogRemediation, Cleanup, Commit, Goto, InJob
    <3> QED
      BY <1>3, <3>1, <3>2, <3>3 DEF Handle
  <2>2. op[r] # "upload"
    BY <2>1 DEF JobTypes, JobOK
  <2> QED
    BY <1>1, <2>1, <2>2 DEF JobFunctions, JobTypes, OnlyJob, OtherJobsKept, Storing
<1> QED
  BY <1>2, <1>3

(* What an accepted report, a refused one or a stalled job makes of the       *)
(* request.                                                                   *)
LEMMA UploadGives ==
  ASSUME NEW r \in Requests, Upload(r) \/ Stall(r)
  PROVE  /\ pc[r] = "idle" /\ op' = [op EXCEPT ![r] = "upload"]
         /\ UNCHANGED <<index, latest, skipped, wiped, scans, uploaded>>
         /\ \E u : /\ findings' = [findings EXCEPT ![r] = u]
                   /\ \/ /\ JobTypes => IsArray(u)
                         /\ pc' = [pc EXCEPT ![r] = "queued"]
                         /\ attempt' = [attempt EXCEPT ![r] = 1]
                      \/ /\ u = <<>> /\ pc' = [pc EXCEPT ![r] = "over"]
                         /\ attempt' = [attempt EXCEPT ![r] = 0]
<1>1. PICK u : \E A \in BOOLEAN : BeginJob(r, u, A) /\ (A /\ JobTypes => IsArray(u))
  <2>1. JobTypes => \A s \in Requests : IsArray(findings[s])
    BY DEF JobTypes, JobOK
  <2> QED
    BY <2>1, OneBegins
<1>. PICK A \in BOOLEAN : BeginJob(r, u, A) /\ (A /\ JobTypes => IsArray(u))
  BY <1>1
<1>2. /\ pc[r] = "idle" /\ op' = [op EXCEPT ![r] = "upload"]
      /\ UNCHANGED <<index, latest, skipped, wiped, scans, uploaded>>
      /\ pc' = [pc EXCEPT ![r] = IF A THEN "queued" ELSE "over"]
      /\ findings' = [findings EXCEPT ![r] = IF A THEN u ELSE <<>>]
      /\ attempt' = [attempt EXCEPT ![r] = IF A THEN 1 ELSE 0]
  BY DEF BeginJob, Begin, Goto
<1>3. CASE A
  BY <1>2, <1>3
<1>4. CASE ~A
  BY <1>2, <1>4
<1> QED
  BY <1>3, <1>4

(* The loop of a job goes on to the next sane finding, or ends.               *)
LEMMA NextFindingGives ==
  ASSUME NEW r \in Requests, NEW i, NextFinding(r, i)
  PROVE  \/ /\ index' = [index EXCEPT ![r] = 0] /\ pc' = [pc EXCEPT ![r] = "progress"]
            /\ \A k \in DOMAIN findings[r] : Sane(findings[r][k]) => ~(k > i)
         \/ \E j \in DOMAIN findings[r] :
              /\ index' = [index EXCEPT ![r] = j] /\ pc' = [pc EXCEPT ![r] = "latest"]
              /\ \A k \in DOMAIN findings[r] : Sane(findings[r][k]) /\ k > i => j <= k
<1> DEFINE left == {j \in DOMAIN findings[r] : j > i /\ Sane(findings[r][j])}
<1>1. CASE left = {}
  BY <1>1 DEF NextFinding, Goto
<1>2. CASE left # {}
  <2>1. PICK j \in left : (\A k \in left : j <= k) /\ index' = [index EXCEPT ![r] = j]
    BY <1>2 DEF NextFinding
  <2>2. pc' = [pc EXCEPT ![r] = "latest"]
    BY <1>2 DEF NextFinding, Goto
  <2> QED
    BY <2>1, <2>2
<1> QED
  BY <1>1, <1>2

LEMMA EmptyIsArray == IsArray(<<>>)
<1>1. <<>> \in Seq({<<>>[i] : i \in DOMAIN <<>>})
  BY EmptySeq
<1> QED
  BY <1>1 DEF IsArray

\* What an upload's own steps do to the jobs.
LEMMA JobStep ==
  ASSUME JobFunctions, JobFunctions', TableTypes, TableTypes', JobTypes, NEW r \in Requests,
         \/ Upload(r) \/ Stall(r) \/ StartJob(r) \/ FindLatestScan(r) \/ CreateDefaultScan(r)
         \/ FindDuplicate(r) \/ CreateFinding(r) \/ QueryFails(r) \/ UpdateProgress(r)
         \/ AttemptAgain(r)
  PROVE  /\ OnlyJob(r) /\ JobOK(r)' /\ UNCHANGED wiped
         /\ attempt' \in [Requests -> 0..MaxAttempts] /\ skipped' \subseteq Requests
<1>1. JobOK(r) /\ MaxAttempts \in Nat \ {0} /\ attempt \in [Requests -> 0..MaxAttempts]
  BY BoundsAssumption DEF JobTypes
<1>2. Len(scans) \in Nat /\ Len(scans') \in Nat
  BY LenProperties DEF TableTypes
<1>3. CASE Upload(r) \/ Stall(r)
  <2>1. /\ pc[r] = "idle" /\ op' = [op EXCEPT ![r] = "upload"]
        /\ UNCHANGED <<index, latest, skipped, wiped, scans>>
    BY <1>3, UploadGives
  <2>2. PICK u : /\ findings' = [findings EXCEPT ![r] = u]
                 /\ \/ /\ JobTypes => IsArray(u)
                       /\ pc' = [pc EXCEPT ![r] = "queued"]
                       /\ attempt' = [attempt EXCEPT ![r] = 1]
                    \/ /\ u = <<>> /\ pc' = [pc EXCEPT ![r] = "over"]
                       /\ attempt' = [attempt EXCEPT ![r] = 0]
    BY <1>3, UploadGives
  <2>3. IsArray(u)
    BY <2>2, EmptyIsArray
  <2>4. \E there \in {"queued", "over"} : pc' = [pc EXCEPT ![r] = there]
    BY <2>2
  <2>5. OnlyJob(r) /\ findings'[r] = u /\ pc'[r] \in {"queued", "over"} /\ index[r] = 0
    BY <1>1, <2>1, <2>2, <2>4 DEF JobFunctions, OnlyJob, OtherJobsKept, JobOK
  <2>6. JobOK(r)'
    BY <1>1, <2>1, <2>3, <2>5 DEF JobOK, Storing, InJob
  <2>7. attempt' \in [Requests -> 0..MaxAttempts]
    BY <1>1, <2>2
  <2> QED
    BY <2>1, <2>5, <2>6, <2>7 DEF JobTypes
<1>4. CASE StartJob(r) \/ FindLatestScan(r) \/ CreateDefaultScan(r) \/ FindDuplicate(r)
           \/ CreateFinding(r) \/ QueryFails(r) \/ UpdateProgress(r) \/ AttemptAgain(r)
  <2>1. /\ UNCHANGED <<findings, wiped, op>> /\ pc[r] \in InJob
        /\ skipped' = skipped \/ skipped' = skipped \cup {r}
    BY <1>4 DEF StartJob, FindLatestScan, CreateDefaultScan, FindDuplicate, CreateFinding,
                QueryFails, UpdateProgress, AttemptAgain, InJob, jobVars
  <2>2. \/ attempt' = attempt
        \/ attempt[r] < MaxAttempts /\ attempt' = [attempt EXCEPT ![r] = @ + 1]
    BY <1>4 DEF StartJob, FindLatestScan, CreateDefaultScan, FindDuplicate, CreateFinding,
                QueryFails, UpdateProgress, AttemptAgain, jobVars
  <2>3. attempt' \in [Requests -> 0..MaxAttempts]
    BY <1>1, <2>2
  <2>4. skipped' \subseteq Requests
    BY <2>1 DEF JobTypes
  <2>5. CASE FindLatestScan(r) \/ CreateDefaultScan(r)
    <3>1. /\ index' = index /\ latest' = [latest EXCEPT ![r] = Len(scans')]
          /\ \E there \in {"create scan", "duplicate"} :
               /\ pc' = [pc EXCEPT ![r] = there]
               /\ there = "duplicate" => scans' # <<>>
      <4>1. CASE FindLatestScan(r)
        BY <4>1 DEF FindLatestScan, Goto
      <4>2. CASE CreateDefaultScan(r)
        <5>1. /\ scans' = Append(scans, Scan(r, NoVersion, NoAnswer, "no findings"))
              /\ index' = index /\ latest' = [latest EXCEPT ![r] = Len(scans')]
              /\ pc' = [pc EXCEPT ![r] = "duplicate"]
          BY <4>2 DEF CreateDefaultScan, Goto
        <5>2. scans' # <<>>
          <6>1. scans \in Seq(ScanRow)
            BY DEF TableTypes
          <6> QED
            BY <5>1, <6>1, AppendedNotEmpty, Zenon
        <5> QED
          BY <5>1, <5>2
      <4> QED
        BY <2>5, <4>1, <4>2
    <3>2. pc[r] \in Storing
      BY <2>5 DEF FindLatestScan, CreateDefaultScan, Storing
    <3>3. Len(scans') \in 0..Len(scans') /\ (scans' # <<>> => Len(scans') \in 1..Len(scans'))
      <4>1. scans' # <<>> => Len(scans') # 0
        BY EmptySeq DEF TableTypes
      <4> DEFINE n == Len(scans')
      <4>2. n \in Nat
        BY <1>2
      <4> HIDE DEF n
      <4>3. n \in 0..n /\ (n # 0 => n \in 1..n)
        BY <4>2
      <4> QED
        BY <4>1, <4>3 DEF n
    <3>4. OnlyJob(r) /\ latest'[r] = Len(scans') /\ pc'[r] \in {"create scan", "duplicate"}
          /\ (pc'[r] = "duplicate" => scans' # <<>>)
      BY <2>1, <3>1 DEF JobFunctions, OnlyJob, OtherJobsKept
    <3>5. JobOK(r)'
      BY <1>1, <2>1, <3>1, <3>2, <3>3, <3>4 DEF JobOK, Storing, InJob
    <3> QED
      BY <2>1, <2>3, <2>4, <3>4, <3>5
  <2>6. CASE UpdateProgress(r) \/ AttemptAgain(r)
    <3>1. /\ UNCHANGED <<index, latest, scans>>
          /\ \E there \in {"over", "queued"} : pc' = [pc EXCEPT ![r] = there]
      BY <2>6 DEF UpdateProgress, AttemptAgain, Goto, jobVars
    <3>2. OnlyJob(r) /\ pc'[r] \in {"over", "queued"}
      BY <2>1, <3>1 DEF JobFunctions, OnlyJob, OtherJobsKept
    <3>3. JobOK(r)'
      BY <1>1, <2>1, <3>1, <3>2 DEF JobOK, Storing, InJob
    <3> QED
      BY <2>1, <2>3, <2>4, <3>2, <3>3
  <2>7. CASE StartJob(r) \/ FindDuplicate(r) \/ CreateFinding(r) \/ QueryFails(r)
    <3>1. /\ UNCHANGED <<latest, scans>>
          /\ \/ index' = index /\ pc[r] = "duplicate" /\ pc' = [pc EXCEPT ![r] = "create"]
             \/ \E i : NextFinding(r, i)
      BY <2>7 DEF StartJob, FindDuplicate, CreateFinding, QueryFails, Goto
    <3>2. CASE index' = index /\ pc[r] = "duplicate" /\ pc' = [pc EXCEPT ![r] = "create"]
      <4>1. OnlyJob(r) /\ pc'[r] = "create"
        BY <2>1, <3>1, <3>2 DEF JobFunctions, OnlyJob, OtherJobsKept
      <4>2. JobOK(r)'
        BY <1>1, <2>1, <3>1, <3>2, <4>1 DEF JobOK, Storing, InJob
      <4> QED
        BY <2>1, <2>3, <2>4, <4>1, <4>2
    <3>3. CASE \E i : NextFinding(r, i)
      <4>1. \/ index' = [index EXCEPT ![r] = 0] /\ pc' = [pc EXCEPT ![r] = "progress"]
            \/ \E j \in DOMAIN findings[r] :
                 index' = [index EXCEPT ![r] = j] /\ pc' = [pc EXCEPT ![r] = "latest"]
        BY <3>3, NextFindingGives
      <4>2. /\ OnlyJob(r)
            /\ \/ index'[r] = 0 /\ pc'[r] = "progress"
               \/ index'[r] \in DOMAIN findings[r] /\ pc'[r] = "latest"
        BY <2>1, <3>1, <4>1 DEF JobFunctions, OnlyJob, OtherJobsKept
      <4>3. JobOK(r)'
        BY <1>1, <2>1, <3>1, <4>2 DEF JobOK, Storing, InJob
      <4> QED
        BY <2>1, <2>3, <2>4, <4>2, <4>3
    <3> QED
      BY <3>1, <3>2, <3>3
  <2> QED
    BY <1>4, <2>5, <2>6, <2>7
<1> QED
  BY <1>3, <1>4

LEMMA JobTypesStep ==
  ASSUME JobFunctions, JobFunctions', TableTypes, JobTypes, NEW r \in Requests, Handle(r)
  PROVE  JobTypes' /\ OnlyJob(r)
<1>1. [Next]_vars
  BY Zenon DEF Next
<1>2. TableTypes' /\ Len(scans) <= Len(scans')
  BY <1>1, TableStep
<1>3. CASE \/ Upload(r) \/ Stall(r) \/ StartJob(r) \/ FindLatestScan(r) \/ CreateDefaultScan(r)
           \/ FindDuplicate(r) \/ CreateFinding(r) \/ QueryFails(r) \/ UpdateProgress(r)
           \/ AttemptAgain(r)
  <2>1. wiped' \in BOOLEAN
    BY <1>2, <1>3, JobStep DEF JobTypes
  <2> QED
    BY <1>2, <1>3, <2>1, JobStep, JobTypesKept
<1>4. CASE ~(\/ Upload(r) \/ Stall(r) \/ StartJob(r) \/ FindLatestScan(r) \/ CreateDefaultScan(r)
             \/ FindDuplicate(r) \/ CreateFinding(r) \/ QueryFails(r) \/ UpdateProgress(r)
             \/ AttemptAgain(r))
  <2>1. /\ UNCHANGED <<findings, index, attempt, latest, skipped>> /\ wiped' \in BOOLEAN
        /\ OnlyJob(r) /\ op'[r] # "upload" /\ pc'[r] \notin Storing \cup {"idle"}
    BY <1>4, NoJobStep
  <2>2. latest[r] \in 0..Len(scans')
    <3>1. latest[r] \in 0..Len(scans) /\ Len(scans) \in Nat /\ Len(scans') \in Nat
      BY <1>2, LenProperties DEF TableTypes, JobTypes, JobOK
    <3> QED
      BY <1>2, <3>1
  <2>3. JobOK(r)'
    BY <2>1, <2>2 DEF JobTypes, JobOK, Storing, IsArray
  <2> QED
    BY <1>2, <2>1, <2>3, JobTypesKept DEF JobTypes
<1> QED
  BY <1>3, <1>4

Stored(r, i) == \E x \in Rows : Same(x.finding, findings[r][i])

\* The job has been past a finding.
Reached(r, i) == \/ pc[r] \in {"progress", "over"}
                 \/ pc[r] \in Storing /\ i < index[r]

\* What a job has been past is in the table.
Progress(r) ==
  op[r] = "upload" /\ r \notin skipped /\ ~wiped =>
    \A i \in DOMAIN findings[r] : Sane(findings[r][i]) /\ Reached(r, i) => Stored(r, i)

LEMMA IndicesAreNaturals ==
  ASSUME NEW s, IsArray(s)
  PROVE  DOMAIN s = 1..Len(s) /\ Len(s) \in Nat /\ \A i \in DOMAIN s : i \in Nat \ {0}
<1>1. s \in Seq({s[i] : i \in DOMAIN s})
  BY DEF IsArray
<1>2. DOMAIN s = 1..Len(s) /\ Len(s) \in Nat
  BY <1>1, LenProperties
<1> QED
  BY <1>2

LEMMA NextReached ==
  ASSUME JobFunctions, NEW r \in Requests, IsArray(findings[r]), UNCHANGED findings,
         NEW i \in {0} \cup DOMAIN findings[r], NextFinding(r, i),
         NEW k \in DOMAIN findings[r], Sane(findings[r][k]), Reached(r, k)'
  PROVE  i \in Nat /\ k \in Nat /\ k <= i
<1>1. i \in Nat /\ k \in Nat /\ \A j \in DOMAIN findings[r] : j \in Nat
  BY IndicesAreNaturals
<1>2. ~(k > i)
  <2>1. \/ /\ pc' = [pc EXCEPT ![r] = "progress"]
           /\ \A n \in DOMAIN findings[r] : Sane(findings[r][n]) => ~(n > i)
        \/ \E j \in DOMAIN findings[r] :
             /\ index' = [index EXCEPT ![r] = j] /\ pc' = [pc EXCEPT ![r] = "latest"]
             /\ \A n \in DOMAIN findings[r] : Sane(findings[r][n]) /\ n > i => j <= n
    BY NextFindingGives
  <2>2. CASE \A n \in DOMAIN findings[r] : Sane(findings[r][n]) => ~(n > i)
    BY <2>2
  <2>3. CASE \E j \in DOMAIN findings[r] :
               /\ index' = [index EXCEPT ![r] = j] /\ pc' = [pc EXCEPT ![r] = "latest"]
               /\ \A n \in DOMAIN findings[r] : Sane(findings[r][n]) /\ n > i => j <= n
    <3>1. PICK j \in DOMAIN findings[r] :
            /\ index' = [index EXCEPT ![r] = j] /\ pc' = [pc EXCEPT ![r] = "latest"]
            /\ \A n \in DOMAIN findings[r] : Sane(findings[r][n]) /\ n > i => j <= n
      BY <2>3
    <3>2. index'[r] = j /\ pc'[r] = "latest"
      BY <3>1 DEF JobFunctions
    <3>3. k < j
      BY <3>2 DEF Reached
    <3>4. k > i => j <= k
      BY <3>1
    <3>5. j \in Nat
      BY <1>1
    <3> QED
      BY <1>1, <3>3, <3>4, <3>5
  <2> QED
    BY <2>1, <2>2, <2>3
<1> QED
  BY <1>1, <1>2

LEMMA StaysStored ==
  ASSUME Grows, NEW r, NEW k, findings'[r][k] = findings[r][k], Stored(r, k)
  PROVE  Stored(r, k)'
<1>1. PICK x \in Rows : Same(x.finding, findings[r][k])
  BY DEF Stored
<1>2. x \in Rows'
  BY <1>1, RowsGrow
<1> QED
  BY <1>1, <1>2 DEF Stored, Same

(* A step of another: nothing is lost that r has been past.                   *)
LEMMA OthersProgress ==
  ASSUME JobTypes, NEW r \in Requests, OnlyJob(r), wiped' \/ Grows,
         skipped \subseteq skipped', NEW q \in Requests, q # r, Progress(q)
  PROVE  Progress(q)'
<1>1. /\ pc'[q] = pc[q] /\ op'[q] = op[q] /\ findings'[q] = findings[q] /\ index'[q] = index[q]
  BY DEF OnlyJob, OtherJobsKept
<1> SUFFICES ASSUME op'[q] = "upload", q \notin skipped', ~wiped',
                    NEW k \in DOMAIN findings'[q], Sane(findings'[q][k]), Reached(q, k)'
             PROVE  Stored(q, k)'
  BY Zenon DEF Progress
<1>2. Grows
  OBVIOUS
<1>3. Stored(q, k)
  <2>1. Reached(q, k)
    BY <1>1 DEF Reached
  <2>2. ~wiped /\ q \notin skipped
    BY <1>2 DEF Grows
  <2> QED
    BY <1>1, <2>1, <2>2, Zenon DEF Progress
<1> QED
  BY <1>1, <1>2, <1>3, StaysStored

(* A step of the job itself: what it passes over is in the table.             *)
LEMMA OwnProgress ==
  ASSUME JobFunctions, JobFunctions', JobTypes, NEW r \in Requests, Handle(r),
         wiped' \/ Grows, Progress(r)
  PROVE  Progress(r)'
<1> SUFFICES ASSUME op'[r] = "upload", r \notin skipped', ~wiped',
                    NEW k \in DOMAIN findings'[r], Sane(findings'[r][k]), Reached(r, k)'
             PROVE  Stored(r, k)'
  BY Zenon DEF Progress
<1>1. Grows /\ JobOK(r) /\ ~wiped
  BY DEF Grows, JobTypes
<1>2. ASSUME UNCHANGED findings, k \in DOMAIN findings[r], Sane(findings[r][k]),
             op[r] = "upload", r \notin skipped, Reached(r, k)
      PROVE  Stored(r, k)'
  <2>1. Stored(r, k)
    BY <1>1, <1>2, Zenon DEF Progress
  <2> QED
    BY <1>1, <1>2, <2>1, StaysStored
<1>3. CASE Upload(r) \/ Stall(r)
  <2>1. PICK u : /\ findings' = [findings EXCEPT ![r] = u]
                 /\ \/ /\ JobTypes => IsArray(u)
                       /\ pc' = [pc EXCEPT ![r] = "queued"]
                       /\ attempt' = [attempt EXCEPT ![r] = 1]
                    \/ /\ u = <<>> /\ pc' = [pc EXCEPT ![r] = "over"]
                       /\ attempt' = [attempt EXCEPT ![r] = 0]
    BY <1>3, UploadGives
  <2>2. CASE pc' = [pc EXCEPT ![r] = "queued"]
    BY <2>2 DEF JobFunctions, Reached, Storing
  <2>3. CASE u = <<>>
    <3>1. findings'[r] = <<>>
      BY <2>1, <2>3 DEF JobFunctions
    <3> QED
      BY <3>1
  <2> QED
    BY <2>1, <2>2, <2>3
<1>4. CASE StartJob(r) \/ FindLatestScan(r) \/ CreateDefaultScan(r) \/ FindDuplicate(r)
           \/ CreateFinding(r) \/ QueryFails(r) \/ UpdateProgress(r) \/ AttemptAgain(r)
  <2>1. /\ UNCHANGED findings /\ k \in DOMAIN findings[r] /\ Sane(findings[r][k])
        /\ op[r] = "upload" /\ r \notin skipped /\ IsArray(findings[r])
    <3>1. UNCHANGED <<findings, op>> /\ skipped \subseteq skipped'
      BY <1>4 DEF StartJob, FindLatestScan, CreateDefaultScan, FindDuplicate, CreateFinding,
                  QueryFails, UpdateProgress, AttemptAgain, jobVars
    <3> QED
      BY <1>1, <3>1 DEF JobOK
  <2>2. CASE FindLatestScan(r) \/ CreateDefaultScan(r)
    <3>1. /\ pc[r] \in Storing /\ index' = index
          /\ \E there \in {"create scan", "duplicate"} : pc' = [pc EXCEPT ![r] = there]
      BY <2>2 DEF FindLatestScan, CreateDefaultScan, Goto, Storing
    <3>2. pc'[r] \in {"create scan", "duplicate"}
      BY <3>1 DEF JobFunctions
    <3>3. Reached(r, k)
      BY <3>1, <3>2 DEF Reached
    <3> QED
      BY <1>2, <2>1, <3>3
  <2>3. CASE UpdateProgress(r) \/ AttemptAgain(r)
    <3>1. CASE UpdateProgress(r)
      BY <1>2, <2>1, <3>1 DEF UpdateProgress, Goto, Reached, JobFunctions, Storing
    <3>2. CASE AttemptAgain(r)
      BY <3>2 DEF AttemptAgain, Goto, Reached, JobFunctions, Storing
    <3> QED
      BY <2>3, <3>1, <3>2
  <2>4. CASE QueryFails(r)
    BY <2>4 DEF QueryFails
  <2>5. CASE StartJob(r)
    <3>1. k \in Nat \ {0} /\ NextFinding(r, 0)
      BY <2>1, <2>5, IndicesAreNaturals DEF StartJob
    <3>2. k <= 0
      BY <2>1, <3>1, NextReached
    <3> QED
      BY <3>1, <3>2
  <2> PICK i : i = index[r]
    OBVIOUS
  <2>6. ASSUME pc[r] \in Storing, NextFinding(r, index[r]), Stored(r, i)'
        PROVE  Stored(r, k)'
    <3>1. i \in DOMAIN findings[r] /\ i \in Nat /\ k \in Nat
      BY <1>1, <2>1, <2>6, IndicesAreNaturals DEF JobOK
    <3>2. k <= i
      BY <2>1, <2>6, <3>1, NextReached
    <3>3. CASE k = i
      BY <2>6, <3>3
    <3>4. CASE k < i
      <4>1. Reached(r, k)
        BY <2>6, <3>4 DEF Reached
      <4> QED
        BY <1>2, <2>1, <4>1
    <3> QED
      BY <3>1, <3>2, <3>3, <3>4
  <2>7. CASE FindDuplicate(r)
    <3>1. CASE \E x \in Rows : x.scan = latest[r] /\ Same(x.finding, findings[r][index[r]])
      <4>1. pc[r] \in Storing /\ NextFinding(r, index[r])
        BY <2>7, <3>1 DEF FindDuplicate, Storing
      <4>2. Stored(r, i)
        BY <3>1 DEF Stored
      <4>3. Stored(r, i)'
        BY <1>1, <2>1, <4>2, StaysStored
      <4> QED
        BY <2>6, <4>1, <4>3
    <3>2. CASE ~ \E x \in Rows : x.scan = latest[r] /\ Same(x.finding, findings[r][index[r]])
      <4>1. pc[r] \in Storing /\ pc' = [pc EXCEPT ![r] = "create"] /\ index' = index
        BY <2>7, <3>2 DEF FindDuplicate, Goto, Storing
      <4>2. Reached(r, k)
        BY <4>1 DEF JobFunctions, Reached
      <4> QED
        BY <1>2, <2>1, <4>2
    <3> QED
      BY <3>1, <3>2
  <2>8. CASE CreateFinding(r)
    <3>1. pc[r] \in Storing /\ NextFinding(r, index[r])
      BY <2>8 DEF CreateFinding, Storing
    <3> DEFINE x == Row(r, index[r] + attempt[r] * Len(findings[r]), latest[r],
                        Manual(findings[r][index[r]]))
    <3>2. x \in uploaded' /\ x.finding = Manual(findings[r][index[r]])
      BY <2>8 DEF CreateFinding, Row
    <3> HIDE DEF x
    <3>3. Same(x.finding, findings[r][index[r]])
      BY <3>2 DEF Same, Manual, Finding
    <3>4. x \in Rows'
      BY <3>2 DEF Rows
    <3>5. Stored(r, i)'
      <4>1. \E y \in Rows' : Same(y.finding, findings'[r][i])
        BY <2>1, <3>3, <3>4
      <4> QED
        BY <4>1 DEF Stored, Same
    <3> QED
      BY <2>6, <3>1, <3>5
  <2> QED
    BY <1>4, <2>2, <2>3, <2>4, <2>5, <2>7, <2>8
<1>5. CASE ~(\/ Upload(r) \/ Stall(r) \/ StartJob(r) \/ FindLatestScan(r) \/ CreateDefaultScan(r)
             \/ FindDuplicate(r) \/ CreateFinding(r) \/ QueryFails(r) \/ UpdateProgress(r)
             \/ AttemptAgain(r))
  BY <1>5, NoJobStep
<1> QED
  BY <1>3, <1>4, <1>5
-------------------------------------------------------------------------------
(* The two together.                                                          *)
UploadInv ==
  /\ StoreInv /\ TableTypes /\ JobTypes
  /\ \A r \in Requests : Progress(r)

LEMMA OneRow ==
  ASSUME NEW S, NEW x \in S
  PROVE  <<x>> \in Seq(S) /\ \A s \in DOMAIN <<x>> : <<x>>[s] = x
OBVIOUS

LEMMA UploadInvInit == Init => UploadInv
<1> SUFFICES ASSUME Init PROVE UploadInv
  OBVIOUS
<1>1. StoreInv
  BY DEF Init, StoreInv, JobFunctions, JobsKnown, MakersBegan, OncePerScan, LookedFor, Places, InJob
<1>2. TableTypes
  <2>1. head \in Versions /\ uploaded = {}
    <3>1. PICK t \in Trees : head = [tree |-> t, pushed |-> 0]
      BY DEF Init
    <3> QED
      BY <3>1, BoundsAssumption DEF Init, Versions
  <2> DEFINE row == Scan(First, head, NoAnswer, "yes")
  <2>2. row \in ScanRow /\ row.by = First
    BY <2>1 DEF Scan, ScanRow
  <2>3. scans = <<>> \/ scans = <<row>>
    BY DEF Init
  <2> HIDE DEF row
  <2>4. scans \in Seq(ScanRow) /\ \A s \in DOMAIN scans : scans[s].by = First
    <3>1. CASE scans = <<>>
      BY <3>1, EmptySeq
    <3>2. CASE scans = <<row>>
      BY <2>2, <3>2, OneRow, Zenon
    <3> QED
      BY <2>3, <3>1, <3>2
  <2> QED
    BY <2>1, <2>4, FirstIsOver DEF TableTypes, ScansOwned
<1>3. JobTypes
  <2>1. \A r \in Requests : JobOK(r)
    <3>1. \A r \in Requests : /\ pc[r] = "idle" /\ op[r] = "none" /\ findings[r] = <<>>
                              /\ index[r] = 0 /\ latest[r] = 0
      BY DEF Init, None
    <3>2. 0 \in 0..Len(scans)
      <4>1. Len(scans) \in Nat
        BY <1>2, LenProperties DEF TableTypes
      <4> QED
        BY <4>1
    <3> QED
      BY <3>1, <3>2, EmptyIsArray DEF JobOK, Storing
  <2>2. attempt \in [Requests -> 0..MaxAttempts]
    <3>1. attempt = [r \in Requests |-> 0] /\ 0 \in 0..MaxAttempts
      BY BoundsAssumption DEF Init
    <3> QED
      BY <3>1
  <2>3. skipped \subseteq Requests /\ wiped \in BOOLEAN
    BY DEF Init
  <2> QED
    BY <2>1, <2>2, <2>3, Zenon DEF JobTypes
<1>4. \A r \in Requests : Progress(r)
  BY DEF Init, Progress, None
<1> QED
  BY <1>1, <1>2, <1>3, <1>4 DEF UploadInv

LEMMA UploadInvStep ==
  ASSUME UploadInv, [Next]_vars
  PROVE  UploadInv'
<1>1. StoreInv' /\ TableTypes' /\ (wiped' \/ Grows)
  BY StoreStep, TableStep DEF UploadInv, StoreInv
<1>2. JobFunctions /\ JobFunctions' /\ TableTypes /\ JobTypes /\ \A r \in Requests : Progress(r)
  BY <1>1 DEF UploadInv, StoreInv
<1>3. CASE UNCHANGED vars
  <2>1. UNCHANGED <<pc, op, scans, uploaded, findings, index, attempt, latest, skipped, wiped>>
    BY <1>3 DEF vars, jobVars
  <2>2. JobTypes'
    BY <1>2, <2>1, Zenon DEF JobTypes, JobOK, IsArray
  <2>3. \A r \in Requests : Progress(r)'
    <3> SUFFICES ASSUME NEW r \in Requests, op'[r] = "upload", r \notin skipped', ~wiped',
                        NEW k \in DOMAIN findings'[r], Sane(findings'[r][k]), Reached(r, k)'
                 PROVE  Stored(r, k)'
      BY Zenon DEF Progress
    <3>1. Reached(r, k)
      BY <2>1 DEF Reached
    <3>2. Stored(r, k)
      BY <1>2, <2>1, <3>1, Zenon DEF Progress
    <3> QED
      BY <1>1, <2>1, <3>2, StaysStored
  <2> QED
    BY <1>1, <2>2, <2>3, Zenon DEF UploadInv
<1>4. CASE Next
  <2>1. PICK r \in Requests : Handle(r)
    BY <1>4, Zenon DEF Next
  <2>2. JobTypes' /\ OnlyJob(r)
    BY <1>2, <2>1, JobTypesStep
  <2>3. Progress(r)'
    BY <1>1, <1>2, <2>1, OwnProgress
  <2>4. skipped \subseteq skipped'
    <3>1. CASE \/ Upload(r) \/ Stall(r) \/ StartJob(r) \/ FindLatestScan(r) \/ CreateDefaultScan(r)
               \/ FindDuplicate(r) \/ CreateFinding(r) \/ QueryFails(r) \/ UpdateProgress(r)
               \/ AttemptAgain(r)
      BY <3>1, UploadGives DEF StartJob, FindLatestScan, CreateDefaultScan, FindDuplicate,
                               CreateFinding, QueryFails, UpdateProgress, AttemptAgain, jobVars
    <3> QED
      BY <1>2, <2>1, <3>1, NoJobStep
  <2>5. ASSUME NEW q \in Requests, q # r PROVE Progress(q)'
    BY <1>1, <1>2, <2>2, <2>4, <2>5, OthersProgress
  <2> QED
    BY <1>1, <2>2, <2>3, <2>5, Zenon DEF UploadInv
<1> QED
  BY <1>3, <1>4

(* Whatever is uploaded, scanned, pushed and cleared meanwhile, a finding has *)
(* two rows of one scan only by jobs that overlapped, and a job that is over  *)
(* has left every finding with a sane path in the table: StoreInv for the     *)
(* first, and for the second that a job has stored what its loop has passed   *)
(* over, and that rows go only when findings are cleared.                     *)
THEOREM UploadsStoredOnce == Spec => []UploadStoredOnce
<1>1. UploadInv => UploadStoredOnce
  <2> SUFFICES ASSUME UploadInv PROVE UploadStoredOnce
    OBVIOUS
  <2>1. \A x, y \in uploaded : x # y /\ x.finding = y.finding /\ x.scan = y.scan
          => x.by # y.by /\ y.by \in during[x.by]
    BY DEF UploadInv, StoreInv, OncePerScan, Overlapping
  <2>2. \A r \in Requests : op[r] = "upload" /\ pc[r] = "over" /\ r \notin skipped /\ ~wiped =>
          \A i \in DOMAIN findings[r] : Sane(findings[r][i]) =>
            \E x \in Rows : Same(x.finding, findings[r][i])
    BY DEF UploadInv, Progress, Reached, Stored
  <2> QED
    BY <2>1, <2>2, Zenon DEF UploadStoredOnce
<1> QED
  BY <1>1, UploadInvInit, UploadInvStep, PTL DEF Spec
-------------------------------------------------------------------------------
(* Types: the above, and what fixes write *)

Clones == [by : Requests, state : {"cloning", "cloned", "branched"}]

WorkspaceTypes ==
  /\ workspace = [x \in DOMAIN workspace |-> workspace[x]]
  /\ \A x \in DOMAIN workspace : workspace[x] \in Clones

FixTypes ==
  /\ op \in [Requests -> {None, "scan", "upload", "clear", "push", "fix"}]
  /\ fixed = [r \in Requests |-> fixed[r]]
  /\ \A r \in Requests : /\ fixed[r].method \in {None, "deterministic", "ai-suggested"}
                         /\ fixed[r].version \in Versions \cup {NoVersion}
  /\ WorkspaceTypes

LEMMA DirectoryTypes ==
  ASSUME WorkspaceTypes, NEW r \in Requests, NEW x,
         \/ Rm(x) \/ GitCreates(x, r) \/ GitFails(x) \/ UNCHANGED workspace
         \/ \E s \in {"cloned", "branched"} : Become(x, s)
  PROVE  WorkspaceTypes'
<1>1. CASE Removed(x) \/ UNCHANGED workspace
  BY <1>1 DEF Removed, WorkspaceTypes
<1>2. CASE GitCreates(x, r)
  BY <1>2 DEF GitCreates, WorkspaceTypes, Clones
<1>3. ASSUME NEW s \in {"cloned", "branched"}, Become(x, s) PROVE WorkspaceTypes'
  <2>1. workspace' = [workspace EXCEPT ![x] = [workspace[x] EXCEPT !.state = s]]
    BY <1>3 DEF Become
  <2>2. x \in DOMAIN workspace => [workspace[x] EXCEPT !.state = s] \in Clones
    BY DEF WorkspaceTypes, Clones
  <2> DEFINE clone == [workspace[x] EXCEPT !.state = s]
  <2> HIDE DEF clone
  <2>3. workspace' = [y \in DOMAIN workspace |-> IF y = x THEN clone ELSE workspace[y]]
    BY <2>1 DEF WorkspaceTypes, clone
  <2> QED
    BY <2>2, <2>3 DEF WorkspaceTypes, clone
<1> QED
  BY <1>1, <1>2, <1>3 DEF Rm, GitFails

LEMMA CommitTypes ==
  ASSUME FixTypes, NEW r \in Requests, NEW n, NEW method \in {"deterministic", "ai-suggested"},
         NEW v \in Versions \cup {NoVersion}, Commit(r, n, method, v), UNCHANGED op
  PROVE  FixTypes'
<1>1. WorkspaceTypes'
  BY DirectoryTypes DEF Commit, FixTypes, fixVars
<1>2. \/ fixed' = fixed
      \/ fixed' = [fixed EXCEPT ![r] = [at |-> n, method |-> method, version |-> v]]
  BY DEF Commit
<1> QED
  BY <1>1, <1>2 DEF FixTypes

LEMMA FixTypesStep ==
  ASSUME FixTypes, TableTypes, [Next]_vars
  PROVE  FixTypes'
<1>1. CASE UNCHANGED vars
  BY <1>1, Zenon DEF vars, fixVars, FixTypes, WorkspaceTypes
<1>2. ASSUME NEW r \in Requests, Handle(r) PROVE FixTypes'
  <2>1. CASE Push(r) \/ Clear(r) \/ StartScan(r) \/ RequestFix(r) \/ Upload(r) \/ Stall(r)
    <3>1. UNCHANGED <<fixed, workspace>>
      BY <2>1 DEF Push, Clear, StartScan, RequestFix, Upload, Stall, BeginJob, fixVars
    <3>2. \E what \in {"scan", "upload", "clear", "push", "fix"} : op' = [op EXCEPT ![r] = what]
      BY <2>1, UploadGives DEF Push, Clear, StartScan, RequestFix, Begin
    <3>3. op' \in [Requests -> {None, "scan", "upload", "clear", "push", "fix"}]
      BY <3>2 DEF FixTypes
    <3> QED
      BY <3>1, <3>3, Zenon DEF FixTypes, WorkspaceTypes
  <2>2. CASE Patch(r)
    <3>1. head \in Versions /\ op' = op
      BY <2>2 DEF TableTypes, Patch
    <3>2. \/ Become(target[r], "cloned") /\ UNCHANGED fixed
          \/ \E n : Commit(r, n, "deterministic", head)
          \/ /\ Become(target[r], "cloned")
             /\ \E n : fixed' = [fixed EXCEPT ![r] = [at |-> n, method |-> None, version |-> head]]
      BY <2>2, Zenon DEF Patch
    <3>3. CASE Become(target[r], "cloned") /\ UNCHANGED fixed
      BY <3>1, <3>3, DirectoryTypes DEF FixTypes
    <3>4. CASE \E n : Commit(r, n, "deterministic", head)
      BY <3>1, <3>4, CommitTypes
    <3>5. CASE /\ Become(target[r], "cloned")
               /\ \E n : fixed' = [fixed EXCEPT ![r] = [at |-> n, method |-> None, version |-> head]]
      <4>1. WorkspaceTypes'
        BY <3>5, DirectoryTypes DEF FixTypes
      <4> QED
        BY <3>1, <3>5, <4>1 DEF FixTypes
    <3> QED
      BY <3>2, <3>3, <3>4, <3>5
  <2>3. CASE SuggestReplacement(r)
    <3>1. op' = op /\ fixed[r].version \in Versions \cup {NoVersion}
      BY <2>3 DEF SuggestReplacement, FixTypes
    <3>2. \/ UNCHANGED <<fixed, fixVars>>
          \/ Commit(r, fixed[r].at, "ai-suggested", fixed[r].version)
      BY <2>3 DEF SuggestReplacement
    <3>3. CASE UNCHANGED <<fixed, fixVars>>
      BY <3>1, <3>3, Zenon DEF FixTypes, WorkspaceTypes, fixVars
    <3> QED
      BY <3>1, <3>2, <3>3, CommitTypes
  <2>4. CASE ~(\/ Push(r) \/ Clear(r) \/ StartScan(r) \/ RequestFix(r) \/ Upload(r) \/ Stall(r)
               \/ Patch(r) \/ SuggestReplacement(r))
    <3>1. /\ UNCHANGED <<op, fixed>>
          /\ \/ Rm(target[r]) \/ GitCreates(target[r], r) \/ GitFails(target[r])
             \/ UNCHANGED workspace
      BY <1>2, <2>4 DEF Handle, CloneForScan, FileFindings, StartJob, FindLatestScan,
                        CreateDefaultScan, FindDuplicate, CreateFinding, QueryFails,
                        UpdateProgress, AttemptAgain, FindFinding, RemoveOld, StartClone, CloneFails,
                        LogRemediation, Cleanup, fixVars
    <3>2. WorkspaceTypes'
      BY <3>1, DirectoryTypes DEF FixTypes
    <3> QED
      BY <3>1, <3>2, Zenon DEF FixTypes
  <2> QED
    BY <2>1, <2>2, <2>3, <2>4
<1>3. CASE Next
  <2>1. PICK r \in Requests : Handle(r)
    BY <1>3, Zenon DEF Next
  <2> QED
    BY <1>2, <2>1
<1> QED
  BY <1>1, <1>3

(* Every state of the handlers is of its type: a job is always at a finding   *)
(* of its report or at none, in a scan that is there.                         *)
THEOREM FindingsTypesOK == Spec => []TypeOK
<1>1. Init => FixTypes
  BY DEF Init, FixInit, FixTypes, WorkspaceTypes, NoFix, None
<1>2. UploadInv /\ FixTypes => TypeOK
  <2> SUFFICES ASSUME UploadInv, FixTypes PROVE TypeOK
    OBVIOUS
  <2>1. JobFunctions /\ TableTypes /\ JobTypes
    BY DEF UploadInv, StoreInv
  <2>2. DOMAIN scans = 1..Len(scans) /\ \A s \in DOMAIN scans : scans[s] \in ScanRow
    <3>1. scans \in Seq(ScanRow)
      BY <2>1 DEF TableTypes
    <3> QED
      BY <3>1, LenProperties, ElementOfSeq
  <2>3. \A s \in DOMAIN scans :
          /\ scans[s].by \in Requests \cup {First}
          /\ scans[s].filed \in {"not yet", "yes", "cleared", "no findings"}
          /\ scans[s].version \in Versions \cup {NoVersion}
    BY <2>2 DEF ScanRow
  <2>4. \A r \in Requests : index[r] \in 0..(Len(findings[r]) + 1)
    <3> SUFFICES ASSUME NEW r \in Requests PROVE index[r] \in 0..(Len(findings[r]) + 1)
      OBVIOUS
    <3>1. IsArray(findings[r]) /\ (index[r] = 0 \/ index[r] \in DOMAIN findings[r])
      BY <2>1 DEF JobTypes, JobOK
    <3>2. DOMAIN findings[r] = 1..Len(findings[r]) /\ Len(findings[r]) \in Nat
      BY <3>1, IndicesAreNaturals
    <3> QED
      BY <3>1, <3>2
  <2>5. /\ pc \in [Requests -> Places] /\ during \in [Requests -> SUBSET Requests]
        /\ head \in Versions
        /\ \A x \in uploaded : x.scan \in DOMAIN scans /\ x.by \in Requests
        /\ skipped \subseteq Requests /\ wiped \in BOOLEAN
    BY <2>1, <2>2, Zenon DEF JobFunctions, TableTypes, JobTypes
  <2>6. \A r \in Requests : attempt[r] \in 0..MaxAttempts /\ latest[r] \in 0..Len(scans)
    BY <2>1 DEF JobTypes, JobOK
  <2> QED
    BY <2>3, <2>4, <2>5, <2>6, Zenon DEF TypeOK, FixTypes, WorkspaceTypes, Clones, Places
<1>3. UploadInv /\ FixTypes /\ [Next]_vars => FixTypes'
  BY FixTypesStep DEF UploadInv
<1> QED
  BY <1>1, <1>2, <1>3, UploadInvInit, UploadInvStep, PTL DEF Spec
-------------------------------------------------------------------------------
(* What scans file: what their trees deserve                                  *)

\* A scan is of a version, but the one that uploads make for themselves.
OfVersion(scan) == scan.version \in Versions \/ scan.filed = "no findings"

ScansOfVersions == \A s \in DOMAIN scans : OfVersion(scans[s])

\* What is uploaded says so.
RowsSayUploaded == \A x \in uploaded : x.finding.module = "MANUAL_INGESTION"

FiledInv == ScansOfVersions /\ RowsSayUploaded

LEMMA RowsOfVersions ==
  ASSUME TableTypes, ScansOfVersions, NEW row \in ScanRow, OfVersion(row),
         \/ scans' = Append(scans, row)
         \/ \E n \in DOMAIN scans : scans' = [scans EXCEPT ![n] = row]
  PROVE  ScansOfVersions'
<1>1. scans \in Seq(ScanRow)
  BY DEF TableTypes
<1>2. Len(scans) \in Nat /\ DOMAIN scans = 1..Len(scans)
  BY <1>1, LenProperties
<1>3. CASE scans' = Append(scans, row)
  <2>1. /\ Append(scans, row) \in Seq(ScanRow) /\ Len(Append(scans, row)) = Len(scans) + 1
        /\ \A s \in 1..Len(scans) : Append(scans, row)[s] = scans[s]
        /\ Append(scans, row)[Len(scans) + 1] = row
    BY <1>1, Appending, ZenonT(30)
  <2>2. DOMAIN Append(scans, row) = 1..(Len(scans) + 1)
    BY <2>1, LenProperties, Zenon
  <2>3. \A s \in DOMAIN scans' : (s \in DOMAIN scans /\ scans'[s] = scans[s]) \/ scans'[s] = row
    BY <1>2, <1>3, <2>1, <2>2, OneMore, Zenon
  <2> QED
    BY <2>3, Zenon DEF ScansOfVersions
<1>4. CASE \E n \in DOMAIN scans : scans' = [scans EXCEPT ![n] = row]
  <2>2. PICK n \in 1..Len(scans) : scans' = [scans EXCEPT ![n] = row]
    BY <1>2, <1>4, Zenon
  <2>3. /\ scans' \in Seq(ScanRow) /\ Len(scans') = Len(scans)
        /\ \A s \in 1..Len(scans) : scans'[s] = IF s = n THEN row ELSE scans[s]
    BY <1>1, <2>2, ExceptSeq
  <2>1. \A s \in DOMAIN scans' : (s \in DOMAIN scans /\ scans'[s] = scans[s]) \/ scans'[s] = row
    <3>1. DOMAIN scans' = 1..Len(scans)
      BY <2>3, LenProperties
    <3> QED
      BY <1>2, <2>3, <3>1, Zenon
  <2> QED
    BY <2>1, Zenon DEF ScansOfVersions
<1> QED
  BY <1>3, <1>4

LEMMA YesIsNot == "yes" # "no findings" /\ "not yet" # "no findings"
BY Zenon

LEMMA FiledInvStep ==
  ASSUME JobFunctions, TableTypes, FiledInv, NEW r \in Requests, Handle(r)
  PROVE  FiledInv'
<1>0. \A n \in DOMAIN scans : scans[n] \in ScanRow
  <2>1. scans \in Seq(ScanRow)
    BY DEF TableTypes
  <2> QED
    BY <2>1, LenProperties, ElementOfSeq
<1>1. CASE Clear(r)
  <2>1. RowsSayUploaded'
    BY <1>1 DEF Clear, FiledInv, RowsSayUploaded
  <2>2. ScansOfVersions'
    <3>1. CASE UNCHANGED scans
      BY <3>1, Zenon DEF FiledInv, ScansOfVersions
    <3>2. CASE scans' = [s \in DOMAIN scans |->
                           IF scans[s].filed = "yes" THEN [scans[s] EXCEPT !.filed = "cleared"]
                           ELSE scans[s]]
      <4> SUFFICES ASSUME NEW s \in DOMAIN scans PROVE OfVersion(scans'[s])
        BY <3>2, Zenon DEF ScansOfVersions
      <4>1. OfVersion(scans[s])
        BY DEF FiledInv, ScansOfVersions
      <4>2. CASE scans[s].filed = "yes"
        <5>1. scans[s].version \in Versions
          BY <4>1, <4>2, YesIsNot, Zenon DEF OfVersion
        <5>2. scans'[s] = [scans[s] EXCEPT !.filed = "cleared"]
          BY <3>2, <4>2
        <5>3. [scans[s] EXCEPT !.filed = "cleared"].version = scans[s].version
          BY <1>0, Zenon DEF ScanRow
        <5> QED
          BY <5>1, <5>2, <5>3, Zenon DEF OfVersion
      <4>3. CASE scans[s].filed # "yes"
        <5>1. scans'[s] = scans[s]
          BY <3>2, <4>3
        <5> QED
          BY <4>1, <5>1, Zenon
      <4> QED
        BY <4>2, <4>3, Zenon
    <3> QED
      BY <1>1, <3>1, <3>2, Zenon DEF Clear
  <2> QED
    BY <2>1, <2>2 DEF FiledInv
<1>2. CASE StartScan(r)
  <2> DEFINE row == Scan(r, head, NoAnswer, "not yet")
  <2>1. UNCHANGED scans \/ scans' = Append(scans, row)
    BY <1>2, Zenon DEF StartScan
  <2>2. head \in Versions
    BY DEF TableTypes
  <2>3. row \in ScanRow /\ OfVersion(row)
    <3>1. /\ head \in Versions \cup {NoVersion} /\ NoAnswer \in Answers \cup {NoAnswer}
          /\ "not yet" \in {"not yet", "yes", "cleared", "no findings"}
      BY <2>2
    <3>2. row.version = head
      BY Zenon DEF Scan
    <3> QED
      BY <2>2, <3>1, <3>2, ScanRows, Zenon DEF OfVersion
  <2> HIDE DEF row
  <2>4. ScansOfVersions'
    <3>1. CASE UNCHANGED scans
      BY <3>1, Zenon DEF FiledInv, ScansOfVersions
    <3>2. CASE scans' = Append(scans, row)
      BY <2>3, <3>2, RowsOfVersions, Zenon DEF FiledInv
    <3> QED
      BY <2>1, <3>1, <3>2
  <2>5. uploaded' = uploaded
    BY <1>2, Zenon DEF StartScan
  <2> QED
    BY <2>4, <2>5 DEF FiledInv, RowsSayUploaded
<1>3. CASE CloneForScan(r)
  <2>1. PICK n \in DOMAIN scans, a \in Answers :
          scans' = [scans EXCEPT ![n] = Scan(r, head, a, "not yet")]
    BY <1>3, Zenon DEF CloneForScan
  <2> DEFINE row == Scan(r, head, a, "not yet")
  <2>2. head \in Versions
    BY DEF TableTypes
  <2>3. row \in ScanRow /\ OfVersion(row)
    <3>1. /\ head \in Versions \cup {NoVersion} /\ a \in Answers \cup {NoAnswer}
          /\ "not yet" \in {"not yet", "yes", "cleared", "no findings"}
      BY <2>1, <2>2, Zenon
    <3>2. row.version = head
      BY Zenon DEF Scan
    <3> QED
      BY <2>2, <3>1, <3>2, ScanRows, Zenon DEF OfVersion
  <2>6. scans' = [scans EXCEPT ![n] = row]
    BY <2>1, Zenon
  <2> HIDE DEF row
  <2>4. ScansOfVersions'
    BY <2>1, <2>3, <2>6, RowsOfVersions, Zenon DEF FiledInv
  <2>5. uploaded' = uploaded
    BY <1>3, Zenon DEF CloneForScan
  <2> QED
    BY <2>4, <2>5 DEF FiledInv, RowsSayUploaded
<1>4. CASE FileFindings(r)
  <2>1. PICK n \in DOMAIN scans :
          /\ scans[n].by = r /\ pc[r] = "file"
          /\ scans' = [scans EXCEPT ![n].filed = "yes"]
    BY <1>4 DEF FileFindings
  <2> DEFINE row == [scans[n] EXCEPT !.filed = "yes"]
  <2>2. scans[n].filed = "not yet"
    <3>1. pc[r] \in {"clone", "file"}
      BY <2>1
    <3> QED
      BY <2>1, <3>1, Zenon DEF TableTypes, ScansOwned
  <2>3. row \in ScanRow /\ row.version = scans[n].version
    BY <1>0, Zenon DEF ScanRow
  <2>4. scans[n].version \in Versions
    BY <2>1, <2>2, YesIsNot, Zenon DEF FiledInv, ScansOfVersions, OfVersion
  <2>5. scans' = [scans EXCEPT ![n] = row]
    BY <2>1
  <2> HIDE DEF row
  <2>6. ScansOfVersions'
    BY <2>1, <2>3, <2>4, <2>5, RowsOfVersions, Zenon DEF FiledInv, OfVersion
  <2>7. uploaded' = uploaded
    BY <1>4 DEF FileFindings
  <2> QED
    BY <2>6, <2>7 DEF FiledInv, RowsSayUploaded
<1>5. CASE CreateDefaultScan(r)
  <2> DEFINE row == Scan(r, NoVersion, NoAnswer, "no findings")
  <2>1. scans' = Append(scans, row) /\ uploaded' = uploaded
    BY <1>5, Zenon DEF CreateDefaultScan
  <2>2. row \in ScanRow /\ OfVersion(row)
    <3>1. NoVersion \in Versions \cup {NoVersion} /\ NoAnswer \in Answers \cup {NoAnswer}
      OBVIOUS
    <3>2. row.filed = "no findings"
      BY Zenon DEF Scan
    <3>3. row \in ScanRow
      BY <3>1, ScanRows, Zenon
    <3> QED
      BY <3>2, <3>3, Zenon DEF OfVersion
  <2> HIDE DEF row
  <2>4. ScansOfVersions'
    BY <2>1, <2>2, RowsOfVersions, Zenon DEF FiledInv
  <2> QED
    BY <2>1, <2>4 DEF FiledInv, RowsSayUploaded
<1>6. CASE CreateFinding(r)
  <2>1. scans' = scans
    BY <1>6 DEF CreateFinding
  <2>2. PICK n, f : uploaded' = uploaded \cup {Row(r, n, latest[r], Manual(f))}
    BY <1>6 DEF CreateFinding
  <2>3. Row(r, n, latest[r], Manual(f)).finding.module = "MANUAL_INGESTION"
    BY DEF Row, Manual, Finding
  <2> QED
    BY <2>1, <2>2, <2>3 DEF FiledInv, RowsSayUploaded, ScansOfVersions
<1>7. CASE ~(\/ Clear(r) \/ StartScan(r) \/ CloneForScan(r) \/ FileFindings(r)
             \/ CreateDefaultScan(r) \/ CreateFinding(r))
  <2>1. UNCHANGED <<scans, uploaded>>
    BY <1>7, Zenon DEF Handle, Push, Upload, Stall, BeginJob, StartJob, FindLatestScan,
                FindDuplicate, QueryFails, UpdateProgress, AttemptAgain, RequestFix, FindFinding, RemoveOld, StartClone,
                CloneFails, Patch, SuggestReplacement, LogRemediation, Cleanup
  <2> QED
    BY <2>1, Zenon DEF FiledInv, RowsSayUploaded, ScansOfVersions
<1> QED
  BY <1>1, <1>2, <1>3, <1>4, <1>5, <1>6, <1>7
\* The advisories to report: those on what is installed, if their details were had.
DueOf(tree, answer) ==
  {a.id : a \in {a \in answer.advisories : a.id \in answer.details /\ \E d \in tree.deps :
     a.name = d.name /\ a.version = IF d.locked = "none" THEN d.range ELSE d.locked}}

\* Whose row it is, of which scan, and what it says.
LEMMA RowSays ==
  ASSUME NEW r, NEW n, NEW s, NEW f
  PROVE  /\ Row(r, n, s, f).by = r /\ Row(r, n, s, f).scan = s
         /\ Row(r, n, s, f).finding = f
BY DEF Row

LEMMA ReportOfScan ==
  ASSUME NEW scan, scan.version \in Versions, scan.answer \in Answers \cup {NoAnswer}
  PROVE  /\ ReportOf(scan).found = ScanTree(TreeAt[scan.version], scan.answer)
         /\ ReportOf(scan).sought = SoughtIn(TreeAt[scan.version])
<1> DEFINE report(v, a) == [version |-> v, answer |-> a, found |-> ScanTree(TreeAt[v], a),
                            sought |-> SoughtIn(TreeAt[v])]
           Right(x) == x.version = scan.version /\ x.answer = scan.answer
<1>1. \A v, a : /\ report(v, a).version = v /\ report(v, a).answer = a
                /\ report(v, a).found = ScanTree(TreeAt[v], a)
                /\ report(v, a).sought = SoughtIn(TreeAt[v])
  OBVIOUS
<1>2. /\ \A v \in Versions, a \in Answers \cup {NoAnswer} : report(v, a) \in Reports
      /\ \A x \in Reports : \E v \in Versions, a \in Answers \cup {NoAnswer} : x = report(v, a)
  BY DEF Reports
<1>3. ReportOf(scan) = CHOOSE x \in Reports : Right(x)
  BY Zenon DEF ReportOf
<1> HIDE DEF report
<1>4. report(scan.version, scan.answer) \in Reports /\ Right(report(scan.version, scan.answer))
  BY <1>1, <1>2
<1>5. ReportOf(scan) \in Reports /\ Right(ReportOf(scan))
  <2> HIDE DEF Right
  <2> QED
    BY <1>3, <1>4, Zenon
<1>6. PICK v \in Versions, a \in Answers \cup {NoAnswer} : ReportOf(scan) = report(v, a)
  BY <1>2, <1>5
<1>7. v = scan.version /\ a = scan.answer
  BY <1>1, <1>5, <1>6
<1> QED
  BY <1>1, <1>6, <1>7

\* What is filed of a scan: its report, all of it and nothing else.
LEMMA FiledIsReport ==
  ASSUME TableTypes, FiledInv, NEW s \in DOMAIN scans, scans[s].filed = "yes",
         \A f \in ReportOf(scans[s]).found : f.module # "MANUAL_INGESTION"
  PROVE  {x.finding : x \in {x \in Rows \ uploaded : x.scan = s}} = ReportOf(scans[s]).found
<1> DEFINE Of(n) == {Row(scans[n].by, 0, n, f) : f \in ReportOf(scans[n]).found}
           Filed == {n \in DOMAIN scans : scans[n].filed = "yes"}
<1>1. Rows = uploaded \cup UNION {Of(n) : n \in Filed}
  BY Zenon DEF Rows
<1>2. s \in Filed
  OBVIOUS
<1>3. ASSUME NEW f \in ReportOf(scans[s]).found
      PROVE  \E x \in Rows \ uploaded : x.scan = s /\ x.finding = f
  <2> DEFINE x == Row(scans[s].by, 0, s, f)
  <2>1. x.scan = s /\ x.finding = f
    BY RowSays
  <2>2. x \in Of(s)
    OBVIOUS
  <2> HIDE DEF x, Of, Filed
  <2>3. x \in Rows
    BY <1>1, <1>2, <2>2
  <2>4. x \notin uploaded
    BY <2>1 DEF FiledInv, RowsSayUploaded
  <2> QED
    BY <2>1, <2>3, <2>4
<1>4. ASSUME NEW x \in Rows \ uploaded, x.scan = s
      PROVE  x.finding \in ReportOf(scans[s]).found
  <2>1. \A n : \A y \in Of(n) : y.scan = n /\ y.finding \in ReportOf(scans[n]).found
    <3> SUFFICES ASSUME NEW n, NEW y \in Of(n)
                 PROVE  y.scan = n /\ y.finding \in ReportOf(scans[n]).found
      BY Zenon
    <3>1. PICK f \in ReportOf(scans[n]).found : y = Row(scans[n].by, 0, n, f)
      BY Zenon
    <3>2. Row(scans[n].by, 0, n, f).scan = n /\ Row(scans[n].by, 0, n, f).finding = f
      BY RowSays
    <3> QED
      BY <3>1, <3>2, Zenon
  <2> HIDE DEF Of, Filed
  <2>2. \E n \in Filed : x \in Of(n)
    BY <1>1, <1>4
  <2> QED
    BY <1>4, <2>1, <2>2, Zenon
<1> QED
  BY <1>3, <1>4

(* What a scan files is, line by line, what its clone deserves: in whatever   *)
(* tree, whatever is uploaded, pushed and cleared meanwhile.  From            *)
(* ScansFindWhatIsSought, and that a filed scan is of the version it cloned,  *)
(* with the answers it had, and nobody else files under its rows.             *)
THEOREM ScansMissNothing == Spec => []ScannersMissNothing
<1>1. Init => FiledInv
  <2> SUFFICES ASSUME Init PROVE FiledInv
    OBVIOUS
  <2>1. TableTypes
    BY UploadInvInit DEF UploadInv
  <2>2. uploaded = {} /\ head \in Versions
    BY <2>1, Zenon DEF Init, TableTypes
  <2> DEFINE row == Scan(First, head, NoAnswer, "yes")
  <2>3. scans = <<>> \/ scans = <<row>>
    BY Zenon DEF Init
  <2>4. row.version = head
    BY Zenon DEF Scan
  <2> HIDE DEF row
  <2>5. \A s \in DOMAIN scans : scans[s] = row
    BY <2>3
  <2> QED
    BY <2>2, <2>4, <2>5, Zenon DEF FiledInv, ScansOfVersions, RowsSayUploaded, OfVersion
<1>2. UploadInv /\ FiledInv /\ [Next]_vars => FiledInv'
  <2> SUFFICES ASSUME UploadInv, FiledInv, [Next]_vars PROVE FiledInv'
    OBVIOUS
  <2>1. CASE UNCHANGED vars
    BY <2>1, Zenon DEF vars, FiledInv, ScansOfVersions, RowsSayUploaded
  <2>2. CASE Next
    <3>1. PICK r \in Requests : Handle(r)
      BY <2>2, Zenon DEF Next
    <3>2. JobFunctions /\ TableTypes
      BY DEF UploadInv, StoreInv
    <3> QED
      BY <3>1, <3>2, FiledInvStep
  <2> QED
    BY <2>1, <2>2
<1>3. UploadInv /\ FiledInv => ScannersMissNothing
  <2> SUFFICES ASSUME UploadInv, FiledInv, NEW s \in DOMAIN scans, scans[s].filed = "yes"
               PROVE  LET filed == {x.finding : x \in {x \in Rows \ uploaded : x.scan = s}}
                          deps == TreeAt[scans[s].version].deps
                          answer == scans[s].answer
                      IN  /\ {f \in filed : f.module \notin {"CVE_INTELLIGENCE", "SEMGREP_SAST"}}
                               = ReportOf(scans[s]).sought
                          /\ {f.title : f \in {f \in filed : f.module = "CVE_INTELLIGENCE"}} =
                               {a.id : a \in {a \in answer.advisories : a.id \in answer.details /\ \E d \in deps :
                                  a.name = d.name /\ a.version = IF d.locked = None THEN d.range ELSE d.locked}}
    BY Zenon DEF ScannersMissNothing
  <2> DEFINE tree == TreeAt[scans[s].version]
             answer == scans[s].answer
             filed == {x.finding : x \in {x \in Rows \ uploaded : x.scan = s}}
             due == {a.id : a \in {a \in answer.advisories : a.id \in answer.details /\ \E d \in tree.deps :
                       a.name = d.name /\ a.version = IF d.locked = None THEN d.range ELSE d.locked}}
  <2>1. scans[s].version \in Versions /\ answer \in Answers \cup {NoAnswer} /\ TableTypes
    <3>1. scans[s] \in ScanRow /\ TableTypes
      BY LenProperties, ElementOfSeq DEF UploadInv, TableTypes
    <3>2. OfVersion(scans[s])
      BY DEF FiledInv, ScansOfVersions
    <3>3. scans[s].version \in Versions
      BY <3>2, YesIsNot, Zenon DEF OfVersion
    <3> QED
      BY <3>1, <3>3, Zenon DEF ScanRow
  <2>2. IsTree(tree)
    BY <2>1, TreesAssumption
  <2>3. ReportOf(scans[s]).found = ScanTree(tree, answer) /\ ReportOf(scans[s]).sought = SoughtIn(tree)
    BY <2>1, ReportOfScan
  <2>4. filed = ScanTree(tree, answer)
    <3>1. \A f \in ReportOf(scans[s]).found : f.module # "MANUAL_INGESTION"
      BY <2>2, <2>3, NobodyElse, Zenon
    <3> QED
      BY <2>1, <2>3, <3>1, FiledIsReport, Zenon
  <2>5. {f \in ScanTree(tree, answer) : f.module \notin {"CVE_INTELLIGENCE", "SEMGREP_SAST"}}
          = SoughtIn(tree)
    BY <2>2, ScansFindWhatIsSought, Zenon
  <2>6. {f.title : f \in {f \in ScanTree(tree, answer) : f.module = "CVE_INTELLIGENCE"}} = due
    <3>1. {f \in ScanTree(tree, answer) : f.module = "CVE_INTELLIGENCE"}
            = {Finding("CVE_INTELLIGENCE", id, PackageJson, 1) : id \in due}
      <4>1. {f \in ScanTree(tree, answer) : f.module = "CVE_INTELLIGENCE"} = CVEIntelligence(tree, answer)
        BY <2>2, ScansFindAdvisories, Zenon
      <4>2. CVEIntelligence(tree, answer) = {Finding("CVE_INTELLIGENCE", id, PackageJson, 1) : id \in due}
        <5>1. \A t, a : IsTree(t) => CVEIntelligence(t, a) =
                {Finding("CVE_INTELLIGENCE", id, PackageJson, 1) : id \in DueOf(t, a)}
          BY AdvisoriesFound DEF DueOf
        <5>2. due = DueOf(tree, answer)
          BY Zenon DEF DueOf, None
        <5> HIDE DEF due
        <5> QED
          BY <2>2, <5>1, <5>2, Zenon
      <4> QED
        BY <4>1, <4>2, Zenon
    <3>2. \A id : Finding("CVE_INTELLIGENCE", id, PackageJson, 1).title = id
      BY DEF Finding
    <3> HIDE DEF due
    <3> QED
      BY <3>1, <3>2
  <2> DEFINE Right(reported) ==
               /\ {f \in reported : f.module \notin {"CVE_INTELLIGENCE", "SEMGREP_SAST"}}
                    = ReportOf(scans[s]).sought
               /\ {f.title : f \in {f \in reported : f.module = "CVE_INTELLIGENCE"}} = due
  <2>7. Right(ScanTree(tree, answer))
    BY <2>3, <2>5, <2>6, Zenon
  <2>8. Right(filed)
    <3> HIDE DEF Right, filed
    <3> QED
      BY <2>4, <2>7, Zenon
  <2> QED
    BY <2>8, Zenon
<1> QED
  BY <1>1, <1>2, <1>3, UploadInvInit, UploadInvStep, PTL DEF Spec
-------------------------------------------------------------------------------
(* A fix and its finding: the patched text *)

LEMMA Joined ==
  ASSUME NEW T, NEW s \in Seq(T), NEW t \in Seq(T)
  PROVE  /\ s \o t \in Seq(T) /\ Len(s \o t) = Len(s) + Len(t)
         /\ \A k \in 1..Len(s) : (s \o t)[k] = s[k]
         /\ \A k \in 1..Len(t) : (s \o t)[Len(s) + k] = t[k]
<1>1. /\ s \o t \in Seq(T) /\ Len(s \o t) = Len(s) + Len(t)
      /\ \A k \in 1..(Len(s) + Len(t)) : (s \o t)[k] = IF k <= Len(s) THEN s[k] ELSE t[k - Len(s)]
  BY ConcatProperties
<1>2. Len(s) \in Nat /\ Len(t) \in Nat
  BY LenProperties
<1>3. \A k \in 1..Len(s) : k \in 1..(Len(s) + Len(t)) /\ k <= Len(s)
  BY <1>2
<1>4. \A k \in 1..Len(t) : /\ Len(s) + k \in 1..(Len(s) + Len(t)) /\ ~(Len(s) + k <= Len(s))
                           /\ Len(s) + k - Len(s) = k
  BY <1>2
<1> QED
  BY <1>1, <1>3, <1>4

\* Line n of ls replaced by new.
Into(ls, n, new) == SubSeq(ls, 1, n - 1) \o new \o SubSeq(ls, n + 1, Len(ls))

\* The text to is ls with the lines new instead of line n.
TextWith(T, to, ls, n, new) ==
  /\ to \in Seq(T) /\ Len(to) = Len(ls) + Len(new) - 1
  /\ \A k \in 1..(n - 1) : to[k] = ls[k]
  /\ \A k \in 1..Len(new) : to[n - 1 + k] = new[k]
  /\ \A k \in (n + 1)..Len(ls) : to[k + Len(new) - 1] = ls[k]

LEMMA IntoText ==
  ASSUME NEW T, NEW ls \in Seq(T), NEW n \in 1..Len(ls), NEW new \in Seq(T)
  PROVE  TextWith(T, Into(ls, n, new), ls, n, new)
<1> DEFINE a == SubSeq(ls, 1, n - 1)
           b == SubSeq(ls, n + 1, Len(ls))
           ab == a \o new
<1>1. Len(ls) \in Nat /\ Len(new) \in Nat /\ n \in Nat /\ n >= 1 /\ n <= Len(ls)
  BY LenProperties
<1>2. a \in Seq(T) /\ Len(a) = n - 1 /\ \A k \in 1..(n - 1) : a[k] = ls[k]
  <2>1. n - 1 \in 0..Len(ls) /\ a = Pre(ls, n - 1)
    BY <1>1 DEF Pre
  <2> HIDE DEF a
  <2> QED
    BY <2>1, PrefixIs
<1>3. b \in Seq(T) /\ Len(b) = Len(ls) - n /\ \A k \in 1..(Len(ls) - n) : b[k] = ls[n + k]
  <2>1. \A k \in (n + 1)..Len(ls) : ls[k] \in T
    BY <1>1, ElementOfSeq
  <2>2. n + 1 \in Int /\ Len(ls) \in Int
    BY <1>1
  <2>3. /\ b \in Seq(T)
        /\ Len(b) = IF n + 1 <= Len(ls) THEN Len(ls) - (n + 1) + 1 ELSE 0
        /\ \A k \in 1..(Len(ls) - (n + 1) + 1) : b[k] = ls[n + 1 + k - 1]
    BY <2>1, <2>2, SubSeqProperties
  <2>4. /\ (IF n + 1 <= Len(ls) THEN Len(ls) - (n + 1) + 1 ELSE 0) = Len(ls) - n
        /\ Len(ls) - (n + 1) + 1 = Len(ls) - n
        /\ \A k \in 1..(Len(ls) - n) : n + 1 + k - 1 = n + k
    BY <1>1
  <2> HIDE DEF b
  <2> QED
    BY <2>3, <2>4
<1> HIDE DEF a, b
<1> HIDE DEF ab
<1>4. /\ ab \in Seq(T) /\ Len(ab) = Len(a) + Len(new)
      /\ \A k \in 1..Len(a) : ab[k] = a[k]
      /\ \A k \in 1..Len(new) : ab[Len(a) + k] = new[k]
  <2>1. a \in Seq(T) /\ new \in Seq(T)
    BY <1>2
  <2>2. /\ a \o new \in Seq(T) /\ Len(a \o new) = Len(a) + Len(new)
        /\ \A k \in 1..Len(a) : (a \o new)[k] = a[k]
        /\ \A k \in 1..Len(new) : (a \o new)[Len(a) + k] = new[k]
    BY <2>1, Joined
  <2> QED
    BY <2>2 DEF ab
<1>5. /\ ab \o b \in Seq(T) /\ Len(ab \o b) = Len(ab) + Len(b)
      /\ \A k \in 1..Len(ab) : (ab \o b)[k] = ab[k]
      /\ \A k \in 1..Len(b) : (ab \o b)[Len(ab) + k] = b[k]
  <2>1. ab \in Seq(T) /\ b \in Seq(T)
    BY <1>3, <1>4
  <2> QED
    BY <2>1, Joined
<1> DEFINE to == ab \o b
<1>6. Into(ls, n, new) = to
  BY Zenon DEF Into, a, b, ab
<1> HIDE DEF to
<1>7. to \in Seq(T) /\ Len(to) = Len(ls) + Len(new) - 1
  BY <1>1, <1>2, <1>3, <1>4, <1>5 DEF to
<1>8. ASSUME NEW k \in 1..(n - 1) PROVE to[k] = ls[k]
  <2>1. k \in 1..Len(a) /\ k \in 1..Len(ab)
    BY <1>1, <1>2, <1>4
  <2> QED
    BY <1>2, <1>4, <1>5, <2>1 DEF to
<1>9. ASSUME NEW k \in 1..Len(new) PROVE to[n - 1 + k] = new[k]
  <2>1. Len(a) + k = n - 1 + k /\ Len(a) + k \in 1..Len(ab)
    BY <1>1, <1>2, <1>4
  <2>2. to[Len(a) + k] = ab[Len(a) + k]
    BY <1>5, <2>1 DEF to
  <2> QED
    BY <1>4, <2>1, <2>2
<1>10. ASSUME NEW k \in (n + 1)..Len(ls) PROVE to[k + Len(new) - 1] = ls[k]
  <2>1. /\ k - n \in 1..Len(b) /\ k - n \in 1..(Len(ls) - n)
        /\ Len(ab) + (k - n) = k + Len(new) - 1 /\ n + (k - n) = k
    BY <1>1, <1>2, <1>3, <1>4
  <2>2. to[Len(ab) + (k - n)] = b[k - n]
    BY <1>5, <2>1 DEF to
  <2>3. b[k - n] = ls[n + (k - n)]
    BY <1>3, <2>1
  <2> QED
    BY <2>1, <2>2, <2>3
<1>11. TextWith(T, to, ls, n, new)
  BY <1>7, <1>8, <1>9, <1>10 DEF TextWith
<1> QED
  BY <1>6, <1>11, Zenon
-------------------------------------------------------------------------------
(* A fix and its finding: routes of the patched text *)

LEMMA Replacements ==
  ASSUME NEW line, NEW new, new = Replacement(line), new # <<>>
  PROVE  \/ /\ line \cap {"dbPort", "privateKey", "rsaKey"} # {}
            /\ \E w \in {"port", "assign"} : new = <<{w}>>
         \/ "route" \in line /\ new = <<{"@", "guard"}, line>>
BY DEF Replacement

\* Lines that mean the same for guards.
Alike(a, b) ==
  /\ IsRoute(a) <=> IsRoute(b)
  /\ "guard" \in a <=> "guard" \in b
  /\ "@" \in a <=> "@" \in b
  /\ "class" \in a <=> "class" \in b
  /\ a = {} <=> b = {}

LEMMA ExposedAlike ==
  ASSUME NEW ls, NEW to, NEW N \in Nat, DOMAIN ls = 1..N, DOMAIN to = 1..N,
         \A k \in 1..N : Alike(ls[k], to[k]), NEW i \in 1..N, Exposed(to, i)
  PROVE  Exposed(ls, i)
<1>1. IsRoute(ls[i])
  BY DEF Exposed, Alike
<1>2. ASSUME NEW j \in 1..(i - 1), "guard" \in ls[j]
      PROVE  \E k \in (j + 1)..(i - 1) : IsRoute(ls[k]) \/ "@" \notin ls[k]
  <2>1. j \in 1..N
    OBVIOUS
  <2>2. "guard" \in to[j]
    BY <1>2, <2>1 DEF Alike
  <2>3. PICK k \in (j + 1)..(i - 1) : IsRoute(to[k]) \/ "@" \notin to[k]
    BY <2>2 DEF Exposed
  <2>4. k \in 1..N
    BY <2>1
  <2>5. IsRoute(ls[k]) \/ "@" \notin ls[k]
    BY <2>3, <2>4 DEF Alike
  <2> QED
    BY <2>5
<1>3. ASSUME NEW c \in DOMAIN ls, NEW j \in 1..(c - 1), "class" \in ls[c], "guard" \in ls[j]
      PROVE  \E k \in 1..(c - 1) : "class" \in ls[k] \/ (k > j /\ ls[k] # {} /\ "@" \notin ls[k])
  <2>1. c \in 1..N /\ j \in 1..N /\ c \in DOMAIN to
    OBVIOUS
  <2>2. "class" \in to[c] /\ "guard" \in to[j]
    BY <1>3, <2>1 DEF Alike
  <2>3. PICK k \in 1..(c - 1) : "class" \in to[k] \/ (k > j /\ to[k] # {} /\ "@" \notin to[k])
    BY <2>1, <2>2, Zenon DEF Exposed
  <2>4. k \in 1..N
    BY <2>1
  <2>5. "class" \in ls[k] \/ (k > j /\ ls[k] # {} /\ "@" \notin ls[k])
    BY <2>3, <2>4 DEF Alike
  <2> QED
    BY <2>5
<1> QED
  BY <1>1, <1>2, <1>3, Zenon DEF Exposed

\* A guard inserted above line n guards it, and exposes no other.
LEMMA ExposedBefore ==
  ASSUME NEW ls, NEW to, NEW N \in Nat, NEW n \in 1..N, DOMAIN ls = 1..N, DOMAIN to = 1..(N + 1),
         \A k \in 1..(n - 1) : to[k] = ls[k], to[n] = {"@", "guard"},
         \A k \in n..N : to[k + 1] = ls[k], NEW i \in 1..(N + 1), Exposed(to, i)
  PROVE  i # n /\ i # n + 1 /\ Exposed(ls, IF i < n THEN i ELSE i - 1)
<1> DEFINE Now(k) == IF k < n THEN k ELSE k + 1
           Was(k) == IF k < n THEN k ELSE k - 1
<1>1. ASSUME NEW k \in 1..N
      PROVE  Now(k) \in 1..(N + 1) /\ to[Now(k)] = ls[k]
  <2>1. CASE k < n
    <3>1. k \in 1..(n - 1)
      BY <2>1
    <3> QED
      BY <2>1, <3>1
  <2>2. CASE ~(k < n)
    <3>1. k \in n..N
      BY <2>2
    <3> QED
      BY <2>2, <3>1
  <2> QED
    BY <2>1, <2>2
<1>2. ASSUME NEW k \in 1..(N + 1), k # n
      PROVE  Was(k) \in 1..N /\ to[k] = ls[Was(k)]
  <2>1. CASE k < n
    <3>1. k \in 1..(n - 1)
      BY <2>1
    <3> QED
      BY <2>1, <3>1
  <2>2. CASE ~(k < n)
    <3>1. k - 1 \in n..N /\ k - 1 + 1 = k
      BY <1>2, <2>2
    <3>2. to[k - 1 + 1] = ls[k - 1]
      BY <3>1
    <3> QED
      BY <2>2, <3>1, <3>2
  <2> QED
    BY <2>1, <2>2
<1>3. \A j \in 1..N : \A k \in 1..(N + 1) :
        k # n => /\ k > Now(j) => Was(k) > j
                 /\ k < Now(j) => Was(k) < j
                 /\ j < Was(k) => Now(j) < k
  OBVIOUS
<1>4. \A j, k \in 1..N : j < k => Now(j) < Now(k)
  OBVIOUS
<1>5. ~IsRoute(to[n]) /\ "@" \in to[n] /\ "class" \notin to[n] /\ "guard" \in to[n]
  BY DEF IsRoute
<1>6. i # n /\ i # n + 1
  <2>1. IsRoute(to[i]) /\ \A j \in 1..(i - 1) : "guard" \in to[j] =>
          \E k \in (j + 1)..(i - 1) : IsRoute(to[k]) \/ "@" \notin to[k]
    BY DEF Exposed
  <2>2. i = n + 1 => n \in 1..(i - 1) /\ ~\E k \in (n + 1)..(i - 1) : TRUE
    OBVIOUS
  <2> QED
    BY <1>5, <2>1, <2>2
<1> DEFINE o == Was(i)
<1>7. o \in 1..N /\ to[i] = ls[o]
  BY <1>2, <1>6
<1> HIDE DEF Was, Now
<1>8. IsRoute(ls[o])
  BY <1>7 DEF Exposed
<1>9. ASSUME NEW j \in 1..(o - 1), "guard" \in ls[j]
      PROVE  \E k \in (j + 1)..(o - 1) : IsRoute(ls[k]) \/ "@" \notin ls[k]
  <2>1. j \in 1..N /\ j < o
    BY <1>7
  <2>2. Now(j) \in 1..(i - 1) /\ "guard" \in to[Now(j)]
    BY <1>1, <1>3, <1>6, <1>9, <2>1
  <2>3. PICK k \in (Now(j) + 1)..(i - 1) : IsRoute(to[k]) \/ "@" \notin to[k]
    BY <2>2 DEF Exposed
  <2>4. k \in 1..(N + 1) /\ k > Now(j) /\ k < i /\ k # n
    <3>1. Now(j) \in Nat
      BY <1>1, <2>1
    <3>2. k # n
      BY <1>5, <2>3
    <3> QED
      BY <3>1, <3>2
  <2>5. Was(k) \in 1..N /\ to[k] = ls[Was(k)] /\ Was(k) > j
    BY <1>2, <1>3, <2>1, <2>4
  <2>6. Was(k) < o
    BY <1>6, <2>4 DEF Was
  <2> QED
    BY <1>7, <2>1, <2>3, <2>5, <2>6
<1>10. ASSUME NEW c \in DOMAIN ls, NEW j \in 1..(c - 1), "class" \in ls[c], "guard" \in ls[j]
       PROVE  \E k \in 1..(c - 1) : "class" \in ls[k] \/ (k > j /\ ls[k] # {} /\ "@" \notin ls[k])
  <2>1. c \in 1..N /\ j \in 1..N /\ j < c
    OBVIOUS
  <2>2. /\ Now(c) \in DOMAIN to /\ Now(j) \in 1..(Now(c) - 1)
        /\ "class" \in to[Now(c)] /\ "guard" \in to[Now(j)]
    <3>1. Now(c) \in 1..(N + 1) /\ Now(j) \in 1..(N + 1) /\ Now(j) < Now(c)
      BY <1>1, <1>4, <2>1
    <3>2. to[Now(c)] = ls[c] /\ to[Now(j)] = ls[j]
      BY <1>1, <2>1
    <3> QED
      BY <1>10, <3>1, <3>2
  <2>3. PICK k \in 1..(Now(c) - 1) :
          "class" \in to[k] \/ (k > Now(j) /\ to[k] # {} /\ "@" \notin to[k])
    BY <2>2, Zenon DEF Exposed
  <2>4. k # n /\ k \in 1..(N + 1) /\ k < Now(c)
    <3>1. Now(c) \in 1..(N + 1)
      BY <1>1, <2>1
    <3>2. k # n
      BY <1>5, <2>3
    <3> QED
      BY <3>1, <3>2
  <2>5. Was(k) \in 1..N /\ to[k] = ls[Was(k)] /\ Was(k) < c /\ (k > Now(j) => Was(k) > j)
    BY <1>2, <1>3, <2>1, <2>4
  <2> QED
    BY <2>1, <2>3, <2>5
<1>11. Exposed(ls, o)
  BY <1>8, <1>9, <1>10, Zenon DEF Exposed
<1> QED
  BY <1>6, <1>11 DEF Was
-------------------------------------------------------------------------------
(* A fix and its finding: the patched tree *)

\* The tree after line n of file p has been replaced by new.
PatchOf(tree, p, n, new, after) ==
  /\ IsTree(tree) /\ p \in Files(tree) /\ n \in 1..Len(tree.text[p])
  /\ new = Replacement(tree.text[p][n]) /\ new # <<>>
  /\ after = Patched(tree, p, n, new)

\* Line i is not replaced, and is line k of the patched file.
Moves(n, new, i, k) == i # n /\ k = IF i > n THEN i + Len(new) - 1 ELSE i

\* The lines there may be in a file or its patched text.
LinesOf(ls) == {ls[i] : i \in DOMAIN ls} \cup {{"port"}, {"assign"}, {"@", "guard"}}

LEMMA SeqOfOwn ==
  ASSUME NEW T, NEW s \in Seq(T)
  PROVE  s \in Seq({s[i] : i \in DOMAIN s})
OBVIOUS

LEMMA FileText ==
  ASSUME NEW tree, IsTree(tree), NEW p \in Files(tree)
  PROVE  /\ tree.text[p] \in Seq(LinesOf(tree.text[p])) /\ Len(tree.text[p]) \in Nat \ {0}
         /\ DOMAIN tree.text[p] = 1..Len(tree.text[p])
<1> DEFINE ls == tree.text[p]
           own == {ls[i] : i \in DOMAIN ls}
<1>1. ls \in Seq(own)
  BY DEF IsTree
<1>2. own \subseteq LinesOf(ls)
  BY DEF LinesOf
<1>3. Len(ls) \in Nat \ {0} /\ DOMAIN ls = 1..Len(ls)
  BY TextOfFile
<1> HIDE DEF own, ls
<1>4. ls \in Seq(LinesOf(ls))
  BY <1>1, <1>2, MoreLetters
<1> QED
  BY <1>3, <1>4 DEF ls

LEMMA OneOrTwo ==
  ASSUME NEW S, NEW a \in S, NEW b \in S
  PROVE  /\ <<a>> \in Seq(S) /\ Len(<<a>>) = 1 /\ <<a>>[1] = a
         /\ <<a, b>> \in Seq(S) /\ Len(<<a, b>>) = 2 /\ <<a, b>>[1] = a /\ <<a, b>>[2] = b
OBVIOUS

LEMMA NewLines ==
  ASSUME NEW ls, NEW i \in DOMAIN ls, NEW new, new = Replacement(ls[i]), new # <<>>
  PROVE  /\ new \in Seq(LinesOf(ls)) /\ Len(new) \in {1, 2}
         /\ Len(new) = 1 => new[1] \in {{"port"}, {"assign"}}
         /\ Len(new) = 2 => new[1] = {"@", "guard"} /\ new[2] = ls[i] /\ "route" \in ls[i]
<1> DEFINE T == LinesOf(ls)
           A == {"port"}
           B == {"assign"}
           G == {"@", "guard"}
           line == ls[i]
<1>1. A \in T /\ B \in T /\ G \in T /\ line \in T
  BY DEF LinesOf
<1>2. new = <<A>> \/ new = <<B>> \/ ("route" \in line /\ new = <<G, line>>)
  BY Replacements
<1> HIDE DEF T, A, B, G, line
<1>3. /\ \A a \in T : <<a>> \in Seq(T) /\ Len(<<a>>) = 1 /\ <<a>>[1] = a
      /\ \A a, b \in T : <<a, b>> \in Seq(T) /\ Len(<<a, b>>) = 2 /\ <<a, b>>[1] = a /\ <<a, b>>[2] = b
  BY OneOrTwo
<1>5. /\ new \in Seq(T) /\ Len(new) \in {1, 2}
      /\ Len(new) = 1 => new[1] \in {A, B}
      /\ Len(new) = 2 => new[1] = G /\ new[2] = line /\ "route" \in line
  <2>1. CASE new = <<A>>
    BY <1>1, <1>3, <2>1
  <2>2. CASE new = <<B>>
    BY <1>1, <1>3, <2>2
  <2>3. CASE "route" \in line /\ new = <<G, line>>
    BY <1>1, <1>3, <2>3
  <2> QED
    BY <1>2, <2>1, <2>2, <2>3
<1> QED
  BY <1>5, Zenon DEF T, A, B, G, line

(* Only the text of the patched file differs.                                 *)
LEMMA PatchedText ==
  ASSUME NEW tree, NEW p, NEW n, NEW new, NEW after, PatchOf(tree, p, n, new, after)
  PROVE  /\ DOMAIN after = DOMAIN tree
         /\ after.entries = tree.entries /\ after.kind = tree.kind /\ after.links = tree.links
         /\ after.dangling = tree.dangling /\ after.history = tree.history /\ after.deps = tree.deps
         /\ Files(after) = Files(tree)
         /\ \A q \in Files(tree) : q # p => after.text[q] = tree.text[q]
         /\ after.text[p] = Into(tree.text[p], n, new)
<1>1. DOMAIN tree = {"entries", "kind", "text", "links", "dangling", "history", "deps"}
  BY DEF PatchOf, IsTree
<1> DEFINE text == [tree.text EXCEPT ![p] = Into(@, n, new)]
<1>2. after = [tree EXCEPT !.text = text]
  BY DEF PatchOf, Patched, Into
<1>3. /\ DOMAIN text = Files(tree) /\ \A q \in Files(tree) : q # p => text[q] = tree.text[q]
      /\ text[p] = Into(tree.text[p], n, new)
  BY DEF PatchOf, Files
<1> HIDE DEF text
<1>4. /\ DOMAIN after = DOMAIN tree
      /\ after.entries = tree.entries /\ after.kind = tree.kind /\ after.links = tree.links
      /\ after.dangling = tree.dangling /\ after.history = tree.history /\ after.deps = tree.deps
      /\ after.text = text
  BY <1>1, <1>2
<1> QED
  BY <1>3, <1>4 DEF Files

LEMMA PatchedIsTree ==
  ASSUME NEW tree, NEW p, NEW n, NEW new, NEW after, PatchOf(tree, p, n, new, after)
  PROVE  /\ IsTree(after)
         /\ Len(after.text[p]) = Len(tree.text[p]) + Len(new) - 1
         /\ \A k \in 1..(n - 1) : after.text[p][k] = tree.text[p][k]
         /\ \A k \in 1..Len(new) : after.text[p][n - 1 + k] = new[k]
         /\ \A k \in (n + 1)..Len(tree.text[p]) : after.text[p][k + Len(new) - 1] = tree.text[p][k]
<1> DEFINE ls == tree.text[p]
<1>1. /\ IsTree(tree) /\ p \in Files(tree) /\ n \in 1..Len(ls)
      /\ new = Replacement(ls[n]) /\ new # <<>>
  BY DEF PatchOf
<1> DEFINE T == LinesOf(ls)
<1>2. ls \in Seq(T) /\ Len(ls) \in Nat \ {0} /\ n \in DOMAIN ls
  BY <1>1, FileText
<1>3. new \in Seq(T) /\ Len(new) \in {1, 2}
  <2> HIDE DEF ls
  <2> QED
    BY <1>1, <1>2, NewLines, Zenon
<1>4. /\ Into(ls, n, new) \in Seq(T) /\ Len(Into(ls, n, new)) = Len(ls) + Len(new) - 1
      /\ \A k \in 1..(n - 1) : Into(ls, n, new)[k] = ls[k]
      /\ \A k \in 1..Len(new) : Into(ls, n, new)[n - 1 + k] = new[k]
      /\ \A k \in (n + 1)..Len(ls) : Into(ls, n, new)[k + Len(new) - 1] = ls[k]
  <2>1. ls \in Seq(T) /\ new \in Seq(T) /\ n \in 1..Len(ls)
    BY <1>1, <1>2, <1>3
  <2> HIDE DEF ls, T
  <2>2. TextWith(T, Into(ls, n, new), ls, n, new)
    BY <2>1, IntoText, Zenon
  <2> QED
    BY <2>2, Zenon DEF TextWith
<1>5. /\ DOMAIN after = DOMAIN tree
      /\ after.entries = tree.entries /\ after.kind = tree.kind /\ after.links = tree.links
      /\ after.dangling = tree.dangling /\ after.history = tree.history /\ after.deps = tree.deps
      /\ Files(after) = Files(tree)
      /\ \A q \in Files(tree) : q # p => after.text[q] = tree.text[q]
      /\ after.text[p] = Into(tree.text[p], n, new)
  BY PatchedText
<1>7. \A q \in Files(after) : /\ after.text[q] \in Seq({after.text[q][i] : i \in DOMAIN after.text[q]})
                               /\ after.text[q] # <<>>
  <2> SUFFICES ASSUME NEW q \in Files(tree)
               PROVE  /\ after.text[q] \in Seq({after.text[q][i] : i \in DOMAIN after.text[q]})
                      /\ after.text[q] # <<>>
    BY <1>5
  <2>1. CASE q = p
    <3> DEFINE to == after.text[p]
    <3> HIDE DEF T, ls
    <3>1. to \in Seq(T) /\ Len(to) \in Nat \ {0}
      BY <1>2, <1>3, <1>4, <1>5 DEF ls
    <3>2. Len(<<>>) = 0
      OBVIOUS
    <3> HIDE DEF to
    <3>3. to \in Seq({to[i] : i \in DOMAIN to}) /\ to # <<>>
      BY <3>1, <3>2, SeqOfOwn
    <3> QED
      BY <2>1, <3>3 DEF to
  <2>2. CASE q # p
    <3>1. after.text[q] = tree.text[q]
      BY <1>5, <2>2
    <3> QED
      BY <1>1, <3>1 DEF IsTree
  <2> QED
    BY <2>1, <2>2
<1>8. IsTree(after)
  BY <1>1, <1>5, <1>7, TreeOfShape
<1> QED
  BY <1>4, <1>5, <1>8
-------------------------------------------------------------------------------
(* A fix and its finding: what is found of the patched file was found before *)

\* No rule looks for what a patch writes.
LEMMA PatchesBreakNoRule ==
  \A w \in Patterns : w \notin {"port", "assign", "@", "guard"}
<1> DEFINE rules == SecretRules \cup EntropyRules \cup ComposeRules \cup {Rule("Raw Query", "rawQuery", {})}
                    \cup ResidentRules \cup GruvsRules \cup ExcelencyRules \cup VGruvsRules
           Clean(S) == \A u \in S : u.pattern \notin {"port", "assign", "@", "guard"}
<1>1. Clean(SecretRules) /\ Clean(EntropyRules) /\ Clean({Rule("Raw Query", "rawQuery", {})})
  BY DEF SecretRules, EntropyRules, Rule
<1>2. Clean(ComposeRules) /\ Clean(ExcelencyRules) /\ Clean(VGruvsRules)
  BY DEF ComposeRules, ExcelencyRules, VGruvsRules, Rule
<1>3. Clean(ResidentRules) /\ Clean(GruvsRules)
  BY DEF ResidentRules, GruvsRules, Rule
<1>4. Patterns = {u.pattern : u \in rules}
  BY Zenon DEF Patterns
<1>5. Clean(rules)
  BY <1>1, <1>2, <1>3
<1> HIDE DEF rules
<1> QED
  BY <1>4, <1>5

(* A line of the patched file is one of the lines before, or new.             *)
LEMMA AfterLine ==
  ASSUME NEW tree, NEW p, NEW n, NEW new, NEW after, PatchOf(tree, p, n, new, after),
         NEW k \in DOMAIN after.text[p]
  PROVE  \/ \E i \in DOMAIN tree.text[p] : Moves(n, new, i, k) /\ after.text[p][k] = tree.text[p][i]
         \/ after.text[p][k] \in {{"port"}, {"assign"}, {"@", "guard"}}
         \/ "route" \in tree.text[p][n] /\ after.text[p][k] = tree.text[p][n]
<1> DEFINE ls == tree.text[p]
           to == after.text[p]
<1>1. /\ IsTree(tree) /\ p \in Files(tree) /\ n \in 1..Len(ls)
      /\ new = Replacement(ls[n]) /\ new # <<>>
  BY DEF PatchOf
<1>2. Len(ls) \in Nat \ {0} /\ DOMAIN ls = 1..Len(ls)
  BY <1>1, TextOfFile
<1>3. /\ IsTree(after) /\ Len(to) = Len(ls) + Len(new) - 1
      /\ \A j \in 1..(n - 1) : to[j] = ls[j]
      /\ \A j \in 1..Len(new) : to[n - 1 + j] = new[j]
      /\ \A j \in (n + 1)..Len(ls) : to[j + Len(new) - 1] = ls[j]
  BY PatchedIsTree
<1>4. p \in Files(after)
  BY <1>1, PatchedText
<1>5. DOMAIN to = 1..Len(to)
  BY <1>3, <1>4, TextOfFile
<1>6. /\ Len(new) \in {1, 2}
      /\ Len(new) = 1 => new[1] \in {{"port"}, {"assign"}}
      /\ Len(new) = 2 => new[1] = {"@", "guard"} /\ new[2] = ls[n] /\ "route" \in ls[n]
  <2>1. n \in DOMAIN ls
    BY <1>1, <1>2
  <2> HIDE DEF ls
  <2> QED
    BY <1>1, <2>1, NewLines
<1> HIDE DEF ls, to
<1>7. CASE k < n
  <2>1. k \in 1..(n - 1) /\ k \in DOMAIN ls
    BY <1>1, <1>2, <1>5, <1>7 DEF to
  <2>2. to[k] = ls[k] /\ Moves(n, new, k, k)
    BY <1>1, <1>3, <1>7, <2>1 DEF Moves
  <2> QED
    BY <2>1, <2>2 DEF ls, to
<1>8. CASE k > n + Len(new) - 1
  <2> DEFINE i == k - Len(new) + 1
  <2>1. k \in 1..Len(to) /\ Len(to) = Len(ls) + Len(new) - 1
    BY <1>3, <1>5 DEF to
  <2>2. i \in (n + 1)..Len(ls) /\ i + Len(new) - 1 = k /\ i \in DOMAIN ls /\ i > n
    <3>1. n \in 1..Len(ls) /\ Len(new) \in {1, 2} /\ Len(ls) \in Nat /\ DOMAIN ls = 1..Len(ls)
      BY <1>1, <1>2, <1>6
    <3> QED
      BY <1>8, <2>1, <3>1
  <2> HIDE DEF i
  <2>3. to[k] = ls[i]
    BY <1>3, <2>2
  <2>4. Moves(n, new, i, k)
    BY <1>1, <2>2 DEF Moves
  <2> QED
    BY <2>2, <2>3, <2>4 DEF ls, to
<1>9. CASE ~(k < n) /\ ~(k > n + Len(new) - 1)
  <2> DEFINE j == k - n + 1
  <2>1. j \in 1..Len(new) /\ n - 1 + j = k
    BY <1>1, <1>2, <1>5, <1>6, <1>9 DEF to
  <2>2. to[k] = new[j]
    BY <1>3, <2>1
  <2> HIDE DEF j
  <2>3. j = 1 \/ (j = 2 /\ Len(new) = 2)
    <3>1. j \in 1..1 \/ (j \in 1..2 /\ Len(new) = 2)
      BY <1>6, <2>1
    <3> QED
      BY <3>1
  <2>4. to[k] \in {{"port"}, {"assign"}, {"@", "guard"}} \/ ("route" \in ls[n] /\ to[k] = ls[n])
    BY <1>6, <2>2, <2>3
  <2> QED
    BY <2>4 DEF ls, to
<1> QED
  BY <1>7, <1>8, <1>9

(* A line that is not replaced is there after the patch.                      *)
LEMMA BeforeLine ==
  ASSUME NEW tree, NEW p, NEW n, NEW new, NEW after, PatchOf(tree, p, n, new, after),
         NEW i \in DOMAIN tree.text[p], i # n \/ Len(new) = 2
  PROVE  \E k \in DOMAIN after.text[p] : after.text[p][k] = tree.text[p][i]
<1> DEFINE ls == tree.text[p]
           to == after.text[p]
<1>1. /\ IsTree(tree) /\ p \in Files(tree) /\ n \in 1..Len(ls)
      /\ new = Replacement(ls[n]) /\ new # <<>>
  BY DEF PatchOf
<1>2. Len(ls) \in Nat \ {0} /\ DOMAIN ls = 1..Len(ls)
  BY <1>1, TextOfFile
<1>3. /\ IsTree(after) /\ Len(to) = Len(ls) + Len(new) - 1
      /\ \A j \in 1..(n - 1) : to[j] = ls[j]
      /\ \A j \in 1..Len(new) : to[n - 1 + j] = new[j]
      /\ \A j \in (n + 1)..Len(ls) : to[j + Len(new) - 1] = ls[j]
  BY PatchedIsTree
<1>4. p \in Files(after)
  BY <1>1, PatchedText
<1>5. DOMAIN to = 1..Len(to)
  BY <1>3, <1>4, TextOfFile
<1>6. /\ Len(new) \in {1, 2}
      /\ Len(new) = 2 => new[2] = ls[n]
  <2>1. n \in DOMAIN ls
    BY <1>1, <1>2
  <2> HIDE DEF ls
  <2> QED
    BY <1>1, <2>1, NewLines
<1> HIDE DEF ls, to
<1>7. i \in 1..Len(ls)
  BY <1>2 DEF ls
<1>8. \E k \in DOMAIN to : to[k] = ls[i]
  <2>1. CASE i < n
    <3>1. i \in 1..(n - 1) /\ i \in DOMAIN to
      BY <1>1, <1>2, <1>3, <1>5, <1>6, <1>7, <2>1
    <3> QED
      BY <1>3, <3>1
  <2>2. CASE i > n
    <3>1. i \in (n + 1)..Len(ls) /\ i + Len(new) - 1 \in DOMAIN to
      BY <1>1, <1>2, <1>3, <1>5, <1>6, <1>7, <2>2
    <3> QED
      BY <1>3, <3>1
  <2>3. CASE i = n
    <3>1. Len(new) = 2
      BY <2>3
    <3>2. 2 \in 1..Len(new) /\ n - 1 + 2 \in DOMAIN to
      BY <1>1, <1>2, <1>3, <1>5, <3>1
    <3>3. to[n - 1 + 2] = ls[i]
      BY <1>3, <1>6, <2>3, <3>1, <3>2
    <3> QED
      BY <3>2, <3>3
  <2> QED
    BY <1>1, <1>2, <1>7, <2>1, <2>2, <2>3
<1> QED
  BY <1>8 DEF ls, to

\* A tree that is plain where it is patched.
PlainPatch(tree, p, n, new, after) == PatchOf(tree, p, n, new, after) /\ PlainLines(tree)

LEMMA PlainLine ==
  ASSUME NEW tree, NEW p, NEW n, NEW new, NEW after, PlainPatch(tree, p, n, new, after)
  PROVE  LET line == tree.text[p][n]
         IN  /\ PatchOf(tree, p, n, new, after) /\ p \in Files(tree) /\ n \in DOMAIN tree.text[p]
             /\ n = 1 => tree.kind[p] \notin {"dockerfile", "yaml", "compose"} /\ p # PackageJson
             /\ "route" \in line => line \cap Patterns = {}
             /\ Len(new) = 1 =>
                  /\ line # {} /\ new[1] \in {{"port"}, {"assign"}}
                  /\ line \cap {"@", "guard", "class", "route", "otherRoute", "USER", "limits"} = {}
             /\ Len(new) = 2 => "route" \in line /\ new[1] = {"@", "guard"} /\ new[2] = line
             /\ Len(new) \in {1, 2}
<1> DEFINE ls == tree.text[p]
           line == ls[n]
<1>1. /\ IsTree(tree) /\ p \in Files(tree) /\ n \in 1..Len(ls) /\ PatchOf(tree, p, n, new, after)
      /\ new = Replacement(line) /\ new # <<>> /\ PlainLines(tree)
  BY DEF PlainPatch, PatchOf
<1>2. n \in DOMAIN ls
  BY <1>1, TextOfFile
<1>3. /\ "route" \in line => line \cap Patterns = {}
      /\ line \cap {"dbPort", "privateKey", "rsaKey"} # {} =>
           line \cap {"@", "guard", "class", "route", "otherRoute", "USER", "limits"} = {}
      /\ n = 1 /\ Replacement(line) # <<>> =>
           tree.kind[p] \notin {"dockerfile", "yaml", "compose"} /\ p # PackageJson
  BY <1>1, <1>2, Zenon DEF PlainLines
<1>4. /\ Len(new) \in {1, 2}
      /\ Len(new) = 1 => new[1] \in {{"port"}, {"assign"}}
      /\ Len(new) = 2 => new[1] = {"@", "guard"} /\ new[2] = line /\ "route" \in line
  <2> HIDE DEF ls
  <2> QED
    BY <1>1, <1>2, NewLines
<1>5. Len(new) = 1 => line \cap {"dbPort", "privateKey", "rsaKey"} # {}
  <2>1. \/ line \cap {"dbPort", "privateKey", "rsaKey"} # {}
        \/ new = <<{"@", "guard"}, line>>
    <3> HIDE DEF line
    <3> QED
      BY <1>1, Replacements, Zenon
  <2>2. \A a, b : Len(<<a, b>>) = 2
    OBVIOUS
  <2> QED
    BY <2>1, <2>2
<1> QED
  BY <1>1, <1>2, <1>3, <1>4, <1>5

(* What a rule looks for, or a version is told by, was there before.          *)
LEMMA PatternBefore ==
  ASSUME NEW tree, NEW p, NEW n, NEW new, NEW after, PlainPatch(tree, p, n, new, after),
         NEW k \in DOMAIN after.text[p], NEW w \in Patterns, w \in after.text[p][k]
  PROVE  \E i \in DOMAIN tree.text[p] : Moves(n, new, i, k) /\ after.text[p][k] = tree.text[p][i]
<1>1. /\ PatchOf(tree, p, n, new, after)
      /\ "route" \in tree.text[p][n] => tree.text[p][n] \cap Patterns = {}
  BY PlainLine, Zenon
<1>2. w \notin {"port", "assign", "@", "guard"}
  BY PatchesBreakNoRule
<1>3. \/ \E i \in DOMAIN tree.text[p] : Moves(n, new, i, k) /\ after.text[p][k] = tree.text[p][i]
      \/ after.text[p][k] \in {{"port"}, {"assign"}, {"@", "guard"}}
      \/ "route" \in tree.text[p][n] /\ after.text[p][k] = tree.text[p][n]
  BY <1>1, AfterLine
<1> QED
  BY <1>1, <1>2, <1>3
-------------------------------------------------------------------------------
AsRoot(tree, p) == tree.kind[p] = "dockerfile" /\ "USER" \notin Text(tree, p)

Unlimited(tree, p) ==
  /\ tree.kind[p] \in {"yaml", "compose"}
  /\ "apiVersion" \in Text(tree, p) /\ "limits" \notin Text(tree, p)

Collected(tree, p) == ~ThroughLink(tree, p) /\ \A k \in DOMAIN p : p[k] \notin SkippedInFleet

(* What a line deserves, module by module.                                    *)
LEMMA SoughtLine ==
  ASSUME NEW tree, NEW m, NEW p, NEW i, NEW t
  PROVE  t \in SoughtAt(tree, m, p, i) <=>
           \/ /\ m = "SECRET_EXCAVATOR" /\ ~PassedOver(tree, p, SecretDirs, SecretDirs)
              /\ t \in Defective(tree, p, i, SecretRules \cup EntropyRules, SecretKinds)
           \/ /\ m = "IaC_SECURITY" /\ ~PassedOver(tree, p, {}, CallbackDirs)
              /\ \/ t \in Defective(tree, p, i, ComposeRules, {"compose"})
                 \/ t = "Running as Root" /\ i = 1 /\ AsRoot(tree, p)
                 \/ t = "Resource Limits" /\ i = 1 /\ Unlimited(tree, p)
           \/ /\ m = "AUTH_GUARD_AUDIT" /\ ~PassedOver(tree, p, {}, CallbackDirs)
              /\ tree.kind[p] = "controller"
              /\ \/ t = "Exposed Endpoint" /\ Exposed(tree.text[p], i)
                 \/ t = "Raw Query" /\ "rawQuery" \in tree.text[p][i]
           \/ /\ m = "FLEET_ENCLAVE_AUDIT" /\ Collected(tree, p)
              /\ \/ t \in Defective(tree, p, i, ResidentRules \cup GruvsRules, ScriptKinds)
                 \/ t \in Defective(tree, p, i, ExcelencyRules, {tree.kind[p]})
                 \/ t \in Defective(tree, p, i, VGruvsRules, {"compose", "yaml", "dockerfile"})
<1>1. CASE m = "SECRET_EXCAVATOR"
  BY <1>1 DEF SoughtAt
<1>2. CASE m = "IaC_SECURITY"
  BY <1>2 DEF SoughtAt, AsRoot, Unlimited
<1>3. CASE m = "AUTH_GUARD_AUDIT"
  BY <1>3 DEF SoughtAt
<1>4. CASE m = "FLEET_ENCLAVE_AUDIT"
  BY <1>4 DEF SoughtAt, Collected, SkippedInFleet
<1>5. CASE m \notin {"SECRET_EXCAVATOR", "IaC_SECURITY", "AUTH_GUARD_AUDIT", "FLEET_ENCLAVE_AUDIT"}
  BY <1>5 DEF SoughtAt
<1> QED
  BY <1>1, <1>2, <1>3, <1>4, <1>5

LEMMA InText ==
  ASSUME NEW tree, NEW p, NEW w
  PROVE  w \in Text(tree, p) <=> \E i \in DOMAIN tree.text[p] : w \in tree.text[p][i]
BY DEF Text

LEMMA DefectiveBefore ==
  ASSUME NEW tree, NEW p, NEW n, NEW new, NEW after, PlainPatch(tree, p, n, new, after),
         NEW k \in DOMAIN after.text[p], NEW rules, NEW kinds, \A u \in rules : u.pattern \in Patterns,
         NEW t \in Defective(after, p, k, rules, kinds)
  PROVE  \E i \in DOMAIN tree.text[p] : Moves(n, new, i, k) /\ t \in Defective(tree, p, i, rules, kinds)
<1>1. after.kind = tree.kind
  BY PatchedText DEF PlainPatch
<1>2. PICK u \in Broken(rules, after.text[p][k]) : t = u.title
  BY InDefective
<1>3. u \in rules /\ u.pattern \in Patterns /\ u.pattern \in after.text[p][k]
  BY DEF Broken
<1>4. PICK i \in DOMAIN tree.text[p] : Moves(n, new, i, k) /\ after.text[p][k] = tree.text[p][i]
  BY <1>3, PatternBefore
<1>5. tree.kind[p] \in kinds
  BY <1>1, InDefective
<1>6. t \in Defective(tree, p, i, rules, kinds)
  BY <1>2, <1>4, <1>5, InDefective
<1> QED
  BY <1>4, <1>6

LEMMA ExposedPatch ==
  ASSUME NEW tree, NEW p, NEW n, NEW new, NEW after, PlainPatch(tree, p, n, new, after),
         NEW k \in DOMAIN after.text[p], Exposed(after.text[p], k)
  PROVE  \E i \in DOMAIN tree.text[p] : Moves(n, new, i, k) /\ Exposed(tree.text[p], i)
<1> DEFINE ls == tree.text[p]
           to == after.text[p]
           N == Len(ls)
<1>1. /\ PatchOf(tree, p, n, new, after) /\ p \in Files(tree) /\ n \in DOMAIN ls
      /\ Len(new) = 1 =>
           /\ ls[n] # {} /\ new[1] \in {{"port"}, {"assign"}}
           /\ ls[n] \cap {"@", "guard", "class", "route", "otherRoute", "USER", "limits"} = {}
      /\ Len(new) = 2 => "route" \in ls[n] /\ new[1] = {"@", "guard"} /\ new[2] = ls[n]
      /\ Len(new) \in {1, 2}
  BY PlainLine
<1>2. N \in Nat \ {0} /\ DOMAIN ls = 1..N
  BY <1>1, TextOfFile DEF PatchOf
<1>3. /\ IsTree(after) /\ Len(to) = N + Len(new) - 1
      /\ \A j \in 1..(n - 1) : to[j] = ls[j]
      /\ \A j \in 1..Len(new) : to[n - 1 + j] = new[j]
      /\ \A j \in (n + 1)..N : to[j + Len(new) - 1] = ls[j]
  BY <1>1, PatchedIsTree
<1>4. p \in Files(after)
  BY <1>1, PatchedText
<1>5. DOMAIN to = 1..Len(to) /\ k \in DOMAIN to /\ Exposed(to, k)
  BY <1>3, <1>4, TextOfFile
<1> HIDE DEF ls, to, N
<1>6. n \in 1..N
  BY <1>1, <1>2
<1>7. CASE Len(new) = 1
  <2>1. /\ DOMAIN to = 1..N /\ to[n] = new[1]
        /\ \A j \in 1..N : j # n => to[j] = ls[j]
    <3>1. n - 1 + 1 = n /\ N + 1 - 1 = N /\ 1 \in 1..Len(new)
      BY <1>2, <1>6, <1>7
    <3>2. to[n] = new[1]
      BY <1>3, <3>1
    <3>3. ASSUME NEW j \in 1..N, j # n PROVE to[j] = ls[j]
      <4>1. CASE j < n
        <5>1. j \in 1..(n - 1)
          BY <1>6, <4>1
        <5> QED
          BY <1>3, <5>1
      <4>2. CASE j > n
        <5>1. j \in (n + 1)..N /\ j + Len(new) - 1 = j
          BY <1>6, <1>7, <4>2
        <5>2. to[j + Len(new) - 1] = ls[j]
          BY <1>3, <5>1
        <5> QED
          BY <5>1, <5>2
      <4> QED
        BY <1>6, <3>3, <4>1, <4>2
    <3> QED
      BY <1>3, <1>5, <1>7, <3>1, <3>2, <3>3
  <2>2. Alike(ls[n], to[n]) /\ ~IsRoute(to[n])
    BY <1>1, <1>7, <2>1 DEF Alike, IsRoute
  <2>3. ASSUME NEW j \in 1..N PROVE Alike(ls[j], to[j])
    <3>1. CASE j = n
      BY <2>2, <3>1
    <3>2. CASE j # n
      BY <2>1, <3>2 DEF Alike
    <3> QED
      BY <3>1, <3>2
  <2>4. k \in 1..N /\ N \in Nat
    BY <1>2, <1>5, <2>1
  <2>5. Exposed(ls, k)
    BY <1>2, <1>5, <2>1, <2>3, <2>4, ExposedAlike
  <2>6. k # n
    BY <1>5, <2>2 DEF Exposed
  <2>7. Moves(n, new, k, k)
    BY <1>7, <2>4, <2>6 DEF Moves
  <2> QED
    BY <1>2, <2>4, <2>5, <2>7 DEF ls
<1>8. CASE Len(new) = 2
  <2>1. /\ DOMAIN to = 1..(N + 1) /\ to[n] = {"@", "guard"}
        /\ \A j \in 1..(n - 1) : to[j] = ls[j]
        /\ \A j \in n..N : to[j + 1] = ls[j]
    <3>1. n - 1 + 1 = n /\ n - 1 + 2 = n + 1 /\ N + 2 - 1 = N + 1 /\ 1 \in 1..Len(new) /\ 2 \in 1..Len(new)
      BY <1>2, <1>6, <1>8
    <3>2. to[n] = new[1] /\ to[n + 1] = new[2]
      BY <1>3, <3>1
    <3>3. ASSUME NEW j \in n..N PROVE to[j + 1] = ls[j]
      <4>1. CASE j = n
        BY <1>1, <1>8, <3>2, <4>1
      <4>2. CASE j # n
        <5>1. j \in (n + 1)..N /\ j + Len(new) - 1 = j + 1
          BY <1>6, <1>8, <4>2
        <5>2. to[j + Len(new) - 1] = ls[j]
          BY <1>3, <5>1
        <5> QED
          BY <5>1, <5>2
      <4> QED
        BY <4>1, <4>2
    <3> QED
      BY <1>1, <1>3, <1>5, <1>8, <3>1, <3>2, <3>3
  <2>2. k \in 1..(N + 1) /\ N \in Nat
    BY <1>2, <1>5, <2>1
  <2> DEFINE i == IF k < n THEN k ELSE k - 1
  <2>3. k # n /\ k # n + 1 /\ Exposed(ls, i)
    BY <1>2, <1>5, <1>6, <2>1, <2>2, ExposedBefore
  <2>4. i \in 1..N /\ i # n /\ k = IF i > n THEN i + 2 - 1 ELSE i
    BY <1>6, <2>2, <2>3
  <2> HIDE DEF i
  <2>5. Moves(n, new, i, k)
    BY <1>8, <2>4 DEF Moves
  <2> QED
    BY <1>2, <2>3, <2>4, <2>5 DEF ls
<1> QED
  BY <1>1, <1>7, <1>8

LEMMA WordsKept ==
  ASSUME NEW tree, NEW p, NEW n, NEW new, NEW after, PlainPatch(tree, p, n, new, after),
         NEW w \in {"USER", "limits"}, w \in Text(tree, p)
  PROVE  w \in Text(after, p)
<1>1. /\ PatchOf(tree, p, n, new, after)
      /\ Len(new) = 1 => w \notin tree.text[p][n]
      /\ Len(new) \in {1, 2}
  BY PlainLine
<1>2. PICK i \in DOMAIN tree.text[p] : w \in tree.text[p][i]
  BY InText
<1>3. i # n \/ Len(new) = 2
  BY <1>1, <1>2
<1>4. \E k \in DOMAIN after.text[p] : after.text[p][k] = tree.text[p][i]
  BY <1>1, <1>3, BeforeLine
<1> QED
  BY <1>2, <1>4, InText

LEMMA VersionBefore ==
  ASSUME NEW tree, NEW p, NEW n, NEW new, NEW after, PlainPatch(tree, p, n, new, after),
         "apiVersion" \in Text(after, p)
  PROVE  "apiVersion" \in Text(tree, p)
<1>1. PatchOf(tree, p, n, new, after) /\ n \in DOMAIN tree.text[p]
  BY PlainLine
<1>2. PICK k \in DOMAIN after.text[p] : "apiVersion" \in after.text[p][k]
  BY InText
<1>3. \/ \E i \in DOMAIN tree.text[p] : Moves(n, new, i, k) /\ after.text[p][k] = tree.text[p][i]
      \/ after.text[p][k] \in {{"port"}, {"assign"}, {"@", "guard"}}
      \/ "route" \in tree.text[p][n] /\ after.text[p][k] = tree.text[p][n]
  BY <1>1, AfterLine
<1>4. \E i \in DOMAIN tree.text[p] : "apiVersion" \in tree.text[p][i]
  BY <1>1, <1>2, <1>3
<1> QED
  BY <1>4, InText

\* The first line of a container's file stays the first.
LEMMA FirstLine ==
  ASSUME NEW tree, NEW p, NEW n, NEW new, NEW after, PlainPatch(tree, p, n, new, after),
         tree.kind[p] \in {"dockerfile", "yaml", "compose"} \/ p = PackageJson
  PROVE  1 \in DOMAIN tree.text[p] /\ n # 1 /\ Moves(n, new, 1, 1)
<1>1. n # 1 /\ PatchOf(tree, p, n, new, after)
  BY PlainLine
<1>2. /\ n \in 1..Len(tree.text[p]) /\ Len(tree.text[p]) \in Nat \ {0}
      /\ DOMAIN tree.text[p] = 1..Len(tree.text[p])
  BY <1>1, TextOfFile DEF PatchOf
<1>3. 1 \in DOMAIN tree.text[p] /\ ~(1 > n)
  BY <1>1, <1>2
<1> QED
  BY <1>1, <1>3 DEF Moves

\* PassedOver by the two parts of a tree it is about.
OverBy(entries, dangling, p, skip, excluded) ==
  \/ \E i \in 1..(Len(p) - 1) : p[i] \in skip
  \/ \E i \in DOMAIN p : Includes(p[i], excluded)
  \/ \E q \in dangling :
       LET n == Len(q)
           At(name) == CHOOSE i \in DOMAIN entries[SubSeq(q, 1, n - 1)] :
                         entries[SubSeq(q, 1, n - 1)][i] = name
       IN  Len(p) >= n /\ SubSeq(p, 1, n - 1) = SubSeq(q, 1, n - 1) /\ At(q[n]) <= At(p[n])

LEMMA PassedOverAlike ==
  ASSUME NEW tree, NEW t, t.entries = tree.entries, t.dangling = tree.dangling
  PROVE  \A p, skip, excluded : PassedOver(t, p, skip, excluded) <=> PassedOver(tree, p, skip, excluded)
<1>1. \A x, p, skip, excluded :
        PassedOver(x, p, skip, excluded) <=> OverBy(x.entries, x.dangling, p, skip, excluded)
  BY Zenon DEF PassedOver, OverBy
<1> QED
  BY <1>1

LEMMA RulesHavePatterns ==
  /\ \A u \in SecretRules \cup EntropyRules : u.pattern \in Patterns
  /\ \A u \in ComposeRules : u.pattern \in Patterns
  /\ \A u \in ResidentRules \cup GruvsRules : u.pattern \in Patterns
  /\ \A u \in ExcelencyRules : u.pattern \in Patterns
  /\ \A u \in VGruvsRules : u.pattern \in Patterns
  /\ "rawQuery" \in Patterns
<1> DEFINE rules == SecretRules \cup EntropyRules \cup ComposeRules \cup {Rule("Raw Query", "rawQuery", {})}
                    \cup ResidentRules \cup GruvsRules \cup ExcelencyRules \cup VGruvsRules
<1>1. Patterns = {u.pattern : u \in rules}
  BY Zenon DEF Patterns
<1>2. /\ SecretRules \cup EntropyRules \subseteq rules /\ ComposeRules \subseteq rules
      /\ ResidentRules \cup GruvsRules \subseteq rules /\ ExcelencyRules \subseteq rules
      /\ VGruvsRules \subseteq rules /\ Rule("Raw Query", "rawQuery", {}) \in rules
  OBVIOUS
<1>3. Rule("Raw Query", "rawQuery", {}).pattern = "rawQuery"
  BY DEF Rule
<1> HIDE DEF rules
<1> QED
  BY <1>1, <1>2, <1>3

(* Whatever a line of the patched file deserves, the line it was before it    *)
(* moved deserved: the patch adds nothing, and the patched line deserves      *)
(* nothing any more.                                                          *)
LEMMA SoughtBefore ==
  ASSUME NEW tree, NEW p, NEW n, NEW new, NEW after, PlainPatch(tree, p, n, new, after),
         NEW k \in DOMAIN after.text[p], NEW m, NEW t \in SoughtAt(after, m, p, k)
  PROVE  \E i \in DOMAIN tree.text[p] : Moves(n, new, i, k) /\ t \in SoughtAt(tree, m, p, i)
<1> DEFINE At(i) == i \in DOMAIN tree.text[p] /\ Moves(n, new, i, k)
<1>1. /\ after.kind = tree.kind /\ after.links = tree.links /\ after.entries = tree.entries
      /\ after.dangling = tree.dangling
  BY PatchedText DEF PlainPatch
<1>2. \A skip, excluded : PassedOver(after, p, skip, excluded) <=> PassedOver(tree, p, skip, excluded)
  BY <1>1, PassedOverAlike
<1>3. Collected(after, p) <=> Collected(tree, p)
  BY <1>1 DEF Collected, ThroughLink
<1>4. \A rules, kinds : (\A u \in rules : u.pattern \in Patterns) /\ t \in Defective(after, p, k, rules, kinds) =>
        \E i : At(i) /\ t \in Defective(tree, p, i, rules, kinds)
  BY DefectiveBefore
<1>5. \/ /\ m = "SECRET_EXCAVATOR" /\ ~PassedOver(after, p, SecretDirs, SecretDirs)
         /\ t \in Defective(after, p, k, SecretRules \cup EntropyRules, SecretKinds)
      \/ /\ m = "IaC_SECURITY" /\ ~PassedOver(after, p, {}, CallbackDirs)
         /\ \/ t \in Defective(after, p, k, ComposeRules, {"compose"})
            \/ t = "Running as Root" /\ k = 1 /\ AsRoot(after, p)
            \/ t = "Resource Limits" /\ k = 1 /\ Unlimited(after, p)
      \/ /\ m = "AUTH_GUARD_AUDIT" /\ ~PassedOver(after, p, {}, CallbackDirs)
         /\ after.kind[p] = "controller"
         /\ \/ t = "Exposed Endpoint" /\ Exposed(after.text[p], k)
            \/ t = "Raw Query" /\ "rawQuery" \in after.text[p][k]
      \/ /\ m = "FLEET_ENCLAVE_AUDIT" /\ Collected(after, p)
         /\ \/ t \in Defective(after, p, k, ResidentRules \cup GruvsRules, ScriptKinds)
            \/ t \in Defective(after, p, k, ExcelencyRules, {after.kind[p]})
            \/ t \in Defective(after, p, k, VGruvsRules, {"compose", "yaml", "dockerfile"})
  BY SoughtLine
<1> HIDE DEF At
<1> SUFFICES \E i : At(i) /\ t \in SoughtAt(tree, m, p, i)
  BY Zenon DEF At
<1>6. CASE m = "SECRET_EXCAVATOR"
  <2>1. /\ ~PassedOver(tree, p, SecretDirs, SecretDirs)
        /\ \E i : At(i) /\ t \in Defective(tree, p, i, SecretRules \cup EntropyRules, SecretKinds)
    BY <1>2, <1>4, <1>5, <1>6, RulesHavePatterns
  <2> QED
    BY <1>6, <2>1, SoughtLine
<1>7. CASE m = "IaC_SECURITY"
  <2>1. ~PassedOver(tree, p, {}, CallbackDirs)
    BY <1>2, <1>5, <1>7
  <2>2. CASE t \in Defective(after, p, k, ComposeRules, {"compose"})
    <3>1. \E i : At(i) /\ t \in Defective(tree, p, i, ComposeRules, {"compose"})
      BY <1>4, <2>2, RulesHavePatterns
    <3> QED
      BY <1>7, <2>1, <3>1, SoughtLine
  <2>3. CASE t = "Running as Root" /\ k = 1 /\ AsRoot(after, p)
    <3>1. AsRoot(tree, p)
      BY <1>1, <2>3, WordsKept DEF AsRoot
    <3>2. At(1)
      BY <2>3, <3>1, FirstLine DEF At, AsRoot
    <3> QED
      BY <1>7, <2>1, <2>3, <3>1, <3>2, SoughtLine
  <2>4. CASE t = "Resource Limits" /\ k = 1 /\ Unlimited(after, p)
    <3>1. Unlimited(tree, p)
      BY <1>1, <2>4, WordsKept, VersionBefore DEF Unlimited
    <3>2. At(1)
      BY <2>4, <3>1, FirstLine DEF At, Unlimited
    <3> QED
      BY <1>7, <2>1, <2>4, <3>1, <3>2, SoughtLine
  <2> QED
    BY <1>5, <1>7, <2>2, <2>3, <2>4
<1>8. CASE m = "AUTH_GUARD_AUDIT"
  <2>1. ~PassedOver(tree, p, {}, CallbackDirs) /\ tree.kind[p] = "controller"
    BY <1>1, <1>2, <1>5, <1>8
  <2>2. CASE t = "Exposed Endpoint" /\ Exposed(after.text[p], k)
    <3>1. \E i : At(i) /\ Exposed(tree.text[p], i)
      BY <2>2, ExposedPatch DEF At
    <3> QED
      BY <1>8, <2>1, <2>2, <3>1, SoughtLine
  <2>3. CASE t = "Raw Query" /\ "rawQuery" \in after.text[p][k]
    <3>1. PICK w \in Patterns : w = "rawQuery"
      BY RulesHavePatterns
    <3> w \in after.text[p][k]
      BY <2>3, <3>1
    <3>2. PICK i \in DOMAIN tree.text[p] : Moves(n, new, i, k) /\ after.text[p][k] = tree.text[p][i]
      BY PatternBefore
    <3>3. At(i) /\ "rawQuery" \in tree.text[p][i]
      BY <2>3, <3>2 DEF At
    <3> QED
      BY <1>8, <2>1, <2>3, <3>3, SoughtLine
  <2> QED
    BY <1>5, <1>8, <2>2, <2>3
<1>9. CASE m = "FLEET_ENCLAVE_AUDIT"
  <2>1. Collected(tree, p)
    BY <1>3, <1>5, <1>9
  <2>2. \E i : /\ At(i)
               /\ \/ t \in Defective(tree, p, i, ResidentRules \cup GruvsRules, ScriptKinds)
                  \/ t \in Defective(tree, p, i, ExcelencyRules, {tree.kind[p]})
                  \/ t \in Defective(tree, p, i, VGruvsRules, {"compose", "yaml", "dockerfile"})
    BY <1>1, <1>4, <1>5, <1>9, RulesHavePatterns
  <2> QED
    BY <1>9, <2>1, <2>2, SoughtLine
<1> QED
  BY <1>5, <1>6, <1>7, <1>8, <1>9
-------------------------------------------------------------------------------
(* A fix and its finding: what scans of both trees report *)

AboutLines == {"SECRET_EXCAVATOR", "IaC_SECURITY", "AUTH_GUARD_AUDIT", "FLEET_ENCLAVE_AUDIT"}

(* With neither OSV nor semgrep, a scan reports lines, history and package.   *)
LEMMA ScanReports ==
  ASSUME NEW tree, IsTree(tree), NEW x
  PROVE  x \in ScanTree(tree, NoAnswer) <=>
           \/ \E m \in AboutLines : \E p \in Files(tree) : \E i \in DOMAIN tree.text[p] :
                LineDeserves(tree, m, Stem(m), p, i, x)
           \/ x \in ScanGitHistory(tree)
           \/ x \in SoughtInPackage(tree)
<1>1. CVEIntelligence(tree, NoAnswer) = {}
  <2>1. \A ids : FetchVulnDetails(ids, NoAnswer) = {}
    BY DEF FetchVulnDetails, NoAnswer
  <2> QED
    BY <2>1 DEF CVEIntelligence
<1>2. SemgrepScanner(tree, NoAnswer.semgrep) = {}
  <2>1. ~NoAnswer.semgrep
    BY DEF NoAnswer
  <2> QED
    BY <2>1 DEF SemgrepScanner, Lines
<1>3. ScanTree(tree, NoAnswer) = SoughtOfTree(tree)
  BY <1>1, <1>2, ReportedByModule, SoughtByModule
<1>4. \A m : x \in SoughtBy(tree, m) <=>
        \E p \in Files(tree) : \E i \in DOMAIN tree.text[p] : LineDeserves(tree, m, Stem(m), p, i, x)
  BY InSoughtBy
<1> QED
  BY <1>3, <1>4 DEF SoughtOfTree, AboutLines

(* No file is above the root, so the two ways to write a path do not mix.     *)
LEMMA PathsDiffer ==
  ASSUME NEW tree, IsTree(tree), NEW p \in Files(tree), NEW q \in Files(tree)
  PROVE  ToRoot \o q # p /\ (ToRoot \o q = ToRoot \o p => q = p) /\ <<>> \o q = q
<1> DEFINE Letters == STRING \cup {"..", "clone"}
<1>1. ".." \in Letters /\ "clone" \in Letters /\ STRING \subseteq Letters
  OBVIOUS
<1>2. p \in Seq(STRING) /\ q \in Seq(STRING) /\ Len(p) \in Nat \ {0}
  BY Leaves
<1> HIDE DEF Letters
<1>3. ToRoot \in Seq(Letters) /\ Len(ToRoot) = 2 /\ ToRoot[1] = ".."
  BY <1>1, OneOrTwo DEF ToRoot
<1>4. p \in Seq(Letters) /\ q \in Seq(Letters)
  BY <1>1, <1>2, MoreLetters
<1>5. (ToRoot \o q)[1] = ".."
  <2>1. \A k \in 1..Len(ToRoot) : (ToRoot \o q)[k] = ToRoot[k]
    BY <1>3, <1>4, Joined, ZenonT(30)
  <2>2. 1 \in 1..Len(ToRoot)
    BY <1>3
  <2> QED
    BY <1>3, <2>1, <2>2
<1>6. p[1] # ".."
  <2>1. 0 \in 0..(Len(p) - 1)
    BY <1>2
  <2>2. Holds(tree, Pre(p, 0), p, 0)
    BY <2>1, NameOnPath
  <2> DEFINE d == Pre(p, 0)
  <2>3. d \in Dirs(tree) /\ \E i \in 1..Len(tree.entries[d]) : tree.entries[d][i] = p[0 + 1]
    BY <2>2, Zenon DEF Holds
  <2> HIDE DEF d
  <2>4. \A i \in 1..Len(tree.entries[d]) : tree.entries[d][i] # ".."
    BY <2>3, Zenon DEF IsTree
  <2>5. 0 + 1 = 1
    OBVIOUS
  <2> QED
    BY <2>3, <2>4, <2>5
<1>7. ToRoot \o q = ToRoot \o p => q = p
  BY <1>3, <1>4, ConcatSimplifications
<1>8. <<>> \o q = q
  BY <1>2, ConcatEmptySeq
<1> QED
  BY <1>5, <1>6, <1>7, <1>8

LEMMA OwnPath ==
  ASSUME NEW tree, IsTree(tree), NEW p \in Files(tree), NEW q \in Files(tree), NEW m
  PROVE  Stem(m) \o q \in {p, ToRoot \o p} <=> q = p
<1>1. /\ ToRoot \o q # p /\ ToRoot \o p # q /\ (ToRoot \o q = ToRoot \o p => q = p)
      /\ <<>> \o q = q
  BY PathsDiffer
<1> QED
  BY <1>1 DEF Stem

\* What a title says of the pattern it was found by.
TitleTells(title, pattern) ==
  /\ title = "Database Port" => pattern \in {"dbPort", "mysqlPort"}
  /\ title = "Private Key Block" => pattern \in {"privateKey", "ecKey"}
  /\ title \notin {"HARDCODED_SECRETS", "MISSING_SECURITY_HEADERS", "Open Controller"}

LEMMA RuleSays ==
  \A u, title, pattern, unless : u = Rule(title, pattern, unless) => u.title = title /\ u.pattern = pattern
BY DEF Rule

(* Findings are where their titles say.                                       *)
LEMMA TitlesOfRules ==
  ASSUME NEW u \in SecretRules \cup EntropyRules \cup ComposeRules \cup ResidentRules \cup GruvsRules
                    \cup ExcelencyRules \cup VGruvsRules
  PROVE  TitleTells(u.title, u.pattern)
<1>1. \A v \in SecretRules : TitleTells(v.title, v.pattern)
  <2>1. /\ TitleTells("Private Key Block", "privateKey")
        /\ TitleTells("Private Key Block", "ecKey")
        /\ TitleTells("Access Key", "providerKey")
        /\ TitleTells("Access Token", "providerToken")
    BY Zenon DEF TitleTells
  <2> QED
    BY <2>1, RuleSays, Zenon DEF SecretRules
<1>2. \A v \in EntropyRules : TitleTells(v.title, v.pattern)
  <2>1. TitleTells("High-Entropy Secret", "entropy")
    BY Zenon DEF TitleTells
  <2> QED
    BY <2>1, RuleSays, Zenon DEF EntropyRules
<1>3. \A v \in ComposeRules : TitleTells(v.title, v.pattern)
  <2>1. /\ TitleTells("Privileged Mode", "privileged")
        /\ TitleTells("Database Port", "dbPort")
        /\ TitleTells("Database Port", "mysqlPort")
    BY Zenon DEF TitleTells
  <2> QED
    BY <2>1, RuleSays, Zenon DEF ComposeRules
<1>4. \A v \in ExcelencyRules : TitleTells(v.title, v.pattern)
  <2>1. /\ TitleTells("CSV Serialization", "csv")
        /\ TitleTells("Buffer Read", "readUpload")
    BY Zenon DEF TitleTells
  <2> QED
    BY <2>1, RuleSays, Zenon DEF ExcelencyRules
<1>5. \A v \in VGruvsRules : TitleTells(v.title, v.pattern)
  <2>1. /\ TitleTells("Socket Mount", "dockerSocket")
        /\ TitleTells("Host Privileged Mode", "privileged")
        /\ TitleTells("Host Network", "hostNetwork")
    BY Zenon DEF TitleTells
  <2> QED
    BY <2>1, RuleSays, Zenon DEF VGruvsRules
<1>6. \A v \in ResidentRules : TitleTells(v.title, v.pattern)
  <2>1. /\ TitleTells("IDOR Query", "findById")
        /\ TitleTells("Hash Work Factor", "fewRounds")
        /\ TitleTells("Cookie Flags", "cookie")
    BY Zenon DEF TitleTells
  <2> QED
    BY <2>1, RuleSays, Zenon DEF ResidentRules
<1>7. \A v \in GruvsRules : TitleTells(v.title, v.pattern)
  <2>1. /\ TitleTells("Unlocked Mutation", "mutation")
        /\ TitleTells("Shell Invocation", "exec")
    BY Zenon DEF TitleTells
  <2> QED
    BY <2>1, RuleSays, Zenon DEF GruvsRules
<1> QED
  BY <1>1, <1>2, <1>3, <1>4, <1>5, <1>6, <1>7

LEMMA TitlesOnLines ==
  ASSUME NEW tree, NEW m, NEW p, NEW i, NEW t \in SoughtAt(tree, m, p, i)
  PROVE  /\ t = "Database Port" => tree.text[p][i] \cap {"dbPort", "mysqlPort"} # {}
         /\ t = "Private Key Block" => tree.text[p][i] \cap {"privateKey", "ecKey"} # {}
         /\ t \notin {"HARDCODED_SECRETS", "MISSING_SECURITY_HEADERS", "Open Controller"}
<1> DEFINE rules == SecretRules \cup EntropyRules \cup ComposeRules \cup ResidentRules \cup GruvsRules
                    \cup ExcelencyRules \cup VGruvsRules
           Told == /\ t = "Database Port" => tree.text[p][i] \cap {"dbPort", "mysqlPort"} # {}
                   /\ t = "Private Key Block" => tree.text[p][i] \cap {"privateKey", "ecKey"} # {}
                   /\ t \notin {"HARDCODED_SECRETS", "MISSING_SECURITY_HEADERS", "Open Controller"}
<1>1. ASSUME NEW some, some \subseteq rules, NEW kinds, t \in Defective(tree, p, i, some, kinds)
      PROVE  Told
  <2>1. PICK u \in Broken(some, tree.text[p][i]) : t = u.title
    BY <1>1, InDefective
  <2>2. u \in some /\ u.pattern \in tree.text[p][i]
    BY <2>1 DEF Broken
  <2>3. u \in rules
    BY <1>1, <2>2
  <2>4. TitleTells(t, u.pattern)
    BY <2>1, <2>3, TitlesOfRules
  <2> QED
    BY <2>2, <2>4, Zenon DEF TitleTells
<1>2. t \in {"Running as Root", "Resource Limits", "Exposed Endpoint", "Raw Query"} => Told
  BY Zenon
<1>3. /\ SecretRules \cup EntropyRules \subseteq rules /\ ComposeRules \subseteq rules
      /\ ResidentRules \cup GruvsRules \subseteq rules /\ ExcelencyRules \subseteq rules
      /\ VGruvsRules \subseteq rules
  OBVIOUS
<1>4. \/ t \in {"Running as Root", "Resource Limits", "Exposed Endpoint", "Raw Query"}
      \/ t \in Defective(tree, p, i, SecretRules \cup EntropyRules, SecretKinds)
      \/ t \in Defective(tree, p, i, ComposeRules, {"compose"})
      \/ t \in Defective(tree, p, i, ResidentRules \cup GruvsRules, ScriptKinds)
      \/ t \in Defective(tree, p, i, ExcelencyRules, {tree.kind[p]})
      \/ t \in Defective(tree, p, i, VGruvsRules, {"compose", "yaml", "dockerfile"})
  BY SoughtLine, ZenonT(40)
<1> HIDE DEF Told, rules
<1> SUFFICES Told
  BY DEF Told
<1> QED
  BY <1>1, <1>2, <1>3, <1>4
-------------------------------------------------------------------------------
(* A fix and its finding: the line that is patched *)

(* What is reported of no line is in the history, or of the whole package.    *)
LEMMA HistoryAndPackage ==
  ASSUME NEW tree, NEW g
  PROVE  /\ g \in ScanGitHistory(tree) => g.line = 0
         /\ g \in SoughtInPackage(tree) =>
              /\ HasPackage(tree)
              /\ g.path = ToRoot \o PackageJson /\ g.line = 1
              /\ g.title \in {"Typosquatting", "Source Dependency"}
<1> DEFINE Excavator == "SECRET_EXCAVATOR"
           History == <<"(git history)">>
           InHistory(u) == Finding(Excavator, u.title, History, 0)
           OfLine(line) == {InHistory(u) : u \in Broken(SecretRules, line)}
           Chain == "SUPPLY_CHAIN"
           OfPackage(t) == Finding(Chain, t, ToRoot \o PackageJson, 1)
           Is(t) == \E d \in tree.deps : IF t = "Typosquatting" THEN \E n \in Popular : OneEdit(d.name, n)
                                                               ELSE d.range = "git"
           Titles == {"Typosquatting", "Source Dependency"}
<1>1. ASSUME g \in ScanGitHistory(tree) PROVE g.line = 0
  <2>1. ScanGitHistory(tree) = UNION {OfLine(line) : line \in tree.history}
    BY Zenon DEF ScanGitHistory
  <2> HIDE DEF Excavator, History, InHistory
  <2>2. \E line : \E u \in Broken(SecretRules, line) : g = InHistory(u)
    BY <1>1, <2>1
  <2>3. \A u : InHistory(u).line = 0
    BY DEF InHistory, Finding
  <2> QED
    BY <2>2, <2>3
<1>2. ASSUME g \in SoughtInPackage(tree)
      PROVE  HasPackage(tree) /\ g.path = ToRoot \o PackageJson /\ g.line = 1 /\ g.title \in Titles
  <2> HIDE DEF Excavator, History, InHistory, OfLine
  <2>1. SoughtInPackage(tree) = {OfPackage(t) : t \in {t \in Titles : HasPackage(tree) /\ Is(t)}}
    BY Zenon DEF SoughtInPackage, HasPackage
  <2> HIDE DEF Chain, OfPackage, Titles, Is
  <2>2. HasPackage(tree) /\ \E t \in Titles : g = OfPackage(t)
    BY <1>2, <2>1
  <2>3. \A t : OfPackage(t).path = ToRoot \o PackageJson /\ OfPackage(t).line = 1 /\ OfPackage(t).title = t
    BY DEF OfPackage, Finding
  <2> QED
    BY <2>2, <2>3
<1> QED
  BY <1>1, <1>2, Zenon

LEMMA Expected ==
  ASSUME NEW title
  PROVE  /\ title = "Database Port" => ExpectedPattern(title) = {"port"}
         /\ title \in {"Private Key Block", "Access Key", "High-Entropy Secret"} =>
              ExpectedPattern(title) = {"privateKey", "rsaKey", "ecKey", "assign"}
         /\ title \notin {"Database Port", "Private Key Block", "Access Key", "High-Entropy Secret",
                          "HARDCODED_SECRETS", "MISSING_SECURITY_HEADERS", "Open Controller"} =>
              ExpectedPattern(title) = {}
BY Zenon DEF ExpectedPattern

\* The defects fixes are meant for: no port of MySQL, no key that is not assigned.
MeantFor(line, title) ==
  "mysqlPort" \notin line /\ (title \in {"Access Key", "High-Entropy Secret"} => "assign" \in line)

(* A defect that is in the tree is located at the line it is reported at.     *)
LEMMA LocatesDefect ==
  ASSUME NEW tree, IsTree(tree), PlainLines(tree), NEW p \in Files(tree),
         NEW g \in ScanTree(tree, NoAnswer), g.path \in {p, ToRoot \o p}, g.line # 0,
         MeantFor(LineOf(tree.text[p], g.line), g.title)
  PROVE  Locate(tree.text[p], g.title, g.line) = g.line
<1> DEFINE ls == tree.text[p]
           line == LineOf(ls, g.line)
<1> SUFFICES ExpectedPattern(g.title) = {} \/ line \cap ExpectedPattern(g.title) # {}
  BY Zenon DEF Locate
<1>1. \/ \E m \in AboutLines : \E q \in Files(tree) : \E i \in DOMAIN tree.text[q] :
           LineDeserves(tree, m, Stem(m), q, i, g)
      \/ g \in ScanGitHistory(tree)
      \/ g \in SoughtInPackage(tree)
  BY ScanReports
<1>2. CASE \E m \in AboutLines : \E q \in Files(tree) : \E i \in DOMAIN tree.text[q] :
             LineDeserves(tree, m, Stem(m), q, i, g)
  <2>1. PICK m \in AboutLines, q \in Files(tree) :
          \E i \in DOMAIN tree.text[q] : LineDeserves(tree, m, Stem(m), q, i, g)
    BY <1>2
  <2> PICK i \in DOMAIN tree.text[q] : LineDeserves(tree, m, Stem(m), q, i, g)
    BY <2>1
  <2>2. PICK t \in SoughtAt(tree, m, q, i) : g = Finding(m, t, Stem(m) \o q, i)
    BY DEF LineDeserves
  <2>3. g.title = t /\ g.path = Stem(m) \o q /\ g.line = i
    BY <2>2 DEF Finding
  <2>4. q = p
    <3>1. Stem(m) \o q \in {p, ToRoot \o p}
      BY <2>3, Zenon
    <3> QED
      BY <3>1, OwnPath
  <2>5. line = tree.text[p][i] /\ i \in DOMAIN tree.text[p]
    BY <2>3, <2>4 DEF LineOf
  <2>6. "dbPort" \in line => "port" \in line
    BY <2>5 DEF PlainLines
  <2>7. /\ t = "Database Port" => line \cap {"dbPort", "mysqlPort"} # {}
        /\ t = "Private Key Block" => line \cap {"privateKey", "ecKey"} # {}
        /\ t \notin {"HARDCODED_SECRETS", "MISSING_SECURITY_HEADERS", "Open Controller"}
    BY <2>4, <2>5, TitlesOnLines, Zenon
  <2>8. "mysqlPort" \notin line
    BY Zenon DEF MeantFor
  <2>9. t \in {"Access Key", "High-Entropy Secret"} => "assign" \in line
    BY <2>3, Zenon DEF MeantFor
  <2> HIDE DEF line
  <2>10. CASE t = "Database Port"
    <3>1. ExpectedPattern(t) = {"port"}
      BY <2>10, Expected, Zenon
    <3>2. "port" \in line
      <4>1. line \cap {"dbPort", "mysqlPort"} # {}
        BY <2>7, <2>10, Zenon
      <4> QED
        BY <2>6, <2>8, <4>1
    <3> QED
      BY <2>3, <3>1, <3>2
  <2>11. CASE t \in {"Private Key Block", "Access Key", "High-Entropy Secret"}
    <3>1. ExpectedPattern(t) = {"privateKey", "rsaKey", "ecKey", "assign"}
      BY <2>11, Expected, Zenon
    <3>2. "assign" \in line \/ line \cap {"privateKey", "ecKey"} # {}
      BY <2>7, <2>9, <2>11, Zenon
    <3> QED
      BY <2>3, <3>1, <3>2
  <2>12. CASE t \notin {"Database Port", "Private Key Block", "Access Key", "High-Entropy Secret"}
    <3>1. ExpectedPattern(t) = {}
      BY <2>7, <2>12, Expected, Zenon
    <3> QED
      BY <2>3, <3>1
  <2> QED
    BY <2>10, <2>11, <2>12, Zenon
<1>3. CASE g \in ScanGitHistory(tree)
  <2>1. g.line = 0
    BY <1>3, HistoryAndPackage, Zenon
  <2> QED
    BY <2>1
<1>4. CASE g \in SoughtInPackage(tree)
  <2>2. g.title \in {"Typosquatting", "Source Dependency"}
    BY <1>4, HistoryAndPackage, Zenon
  <2>3. ExpectedPattern(g.title) = {}
    BY <2>2, Expected, Zenon
  <2> QED
    BY <2>3
<1> QED
  BY <1>1, <1>2, <1>3, <1>4
-------------------------------------------------------------------------------
(* A fix and its finding: a scan of the patched tree *)

LEMMA SoughtElsewhere ==
  ASSUME NEW tree, NEW p, NEW n, NEW new, NEW after, PatchOf(tree, p, n, new, after),
         NEW q \in Files(tree), q # p, NEW m, NEW k, NEW t \in SoughtAt(after, m, q, k)
  PROVE  k \in DOMAIN after.text[q] => k \in DOMAIN tree.text[q] /\ t \in SoughtAt(tree, m, q, k)
<1>1. /\ after.kind = tree.kind /\ after.links = tree.links /\ after.entries = tree.entries
      /\ after.dangling = tree.dangling /\ after.text[q] = tree.text[q]
  BY PatchedText
<1>2. \A skip, excluded : PassedOver(after, q, skip, excluded) <=> PassedOver(tree, q, skip, excluded)
  BY <1>1, PassedOverAlike
<1>3. Collected(after, q) <=> Collected(tree, q)
  BY <1>1 DEF Collected, ThroughLink
<1>4. AsRoot(after, q) <=> AsRoot(tree, q)
  BY <1>1, Zenon DEF AsRoot, Text
<1>5. Unlimited(after, q) <=> Unlimited(tree, q)
  BY <1>1, Zenon DEF Unlimited, Text
<1>6. \A rules, kinds : Defective(after, q, k, rules, kinds) = Defective(tree, q, k, rules, kinds)
  BY <1>1, Zenon DEF Defective
<1> DEFINE Root == "Running as Root"
           Limits == "Resource Limits"
           Endpoint == "Exposed Endpoint"
           Raw == "Raw Query"
           Deserved(x) ==
             \/ /\ m = "SECRET_EXCAVATOR" /\ ~PassedOver(x, q, SecretDirs, SecretDirs)
                /\ t \in Defective(x, q, k, SecretRules \cup EntropyRules, SecretKinds)
             \/ /\ m = "IaC_SECURITY" /\ ~PassedOver(x, q, {}, CallbackDirs)
                /\ \/ t \in Defective(x, q, k, ComposeRules, {"compose"})
                   \/ t = Root /\ k = 1 /\ AsRoot(x, q)
                   \/ t = Limits /\ k = 1 /\ Unlimited(x, q)
             \/ /\ m = "AUTH_GUARD_AUDIT" /\ ~PassedOver(x, q, {}, CallbackDirs)
                /\ x.kind[q] = "controller"
                /\ \/ t = Endpoint /\ Exposed(x.text[q], k)
                   \/ t = Raw /\ "rawQuery" \in x.text[q][k]
             \/ /\ m = "FLEET_ENCLAVE_AUDIT" /\ Collected(x, q)
                /\ \/ t \in Defective(x, q, k, ResidentRules \cup GruvsRules, ScriptKinds)
                   \/ t \in Defective(x, q, k, ExcelencyRules, {x.kind[q]})
                   \/ t \in Defective(x, q, k, VGruvsRules, {"compose", "yaml", "dockerfile"})
<1>7. \A x : t \in SoughtAt(x, m, q, k) <=> Deserved(x)
  BY SoughtLine
<1> HIDE DEF Root, Limits, Endpoint, Raw
<1>8. Deserved(after) <=> Deserved(tree)
  BY <1>1, <1>2, <1>3, <1>4, <1>5, <1>6
<1> HIDE DEF Deserved
<1>9. t \in SoughtAt(tree, m, q, k)
  BY <1>7, <1>8
<1> QED
  BY <1>1, <1>9

\* What a scan after a patch reports was reported before, and not of the patched line.
NothingNew(tree, p, n, new, after) ==
  \A x \in ScanTree(after, NoAnswer) : \E g \in ScanTree(tree, NoAnswer) :
    (g.path \in {p, ToRoot \o p} => g.line # n) /\ x = Shifted(g, p, n, new)

LEMMA AfterWithin ==
  ASSUME NEW tree, NEW p, NEW n, NEW new, NEW after, PlainPatch(tree, p, n, new, after)
  PROVE  NothingNew(tree, p, n, new, after)
<1> SUFFICES ASSUME NEW x \in ScanTree(after, NoAnswer)
             PROVE  \E g \in ScanTree(tree, NoAnswer) :
                      (g.path \in {p, ToRoot \o p} => g.line # n) /\ x = Shifted(g, p, n, new)
  BY Zenon DEF NothingNew
<1>1. /\ PatchOf(tree, p, n, new, after) /\ IsTree(tree) /\ p \in Files(tree)
      /\ n \in 1..Len(tree.text[p]) /\ n \in Nat /\ n >= 1
  <2>1. PatchOf(tree, p, n, new, after) /\ IsTree(tree) /\ p \in Files(tree) /\ n \in 1..Len(tree.text[p])
    BY DEF PlainPatch, PatchOf
  <2>2. Len(tree.text[p]) \in Nat
    BY <2>1, TextOfFile
  <2> QED
    BY <2>1, <2>2
<1>2. /\ after.history = tree.history /\ after.deps = tree.deps
      /\ Files(after) = Files(tree) /\ \A q \in Files(tree) : q # p => after.text[q] = tree.text[q]
  BY <1>1, PatchedText
<1>3. IsTree(after)
  BY <1>1, PatchedIsTree
<1>4. \/ \E m \in AboutLines : \E q \in Files(after) : \E k \in DOMAIN after.text[q] :
           LineDeserves(after, m, Stem(m), q, k, x)
      \/ x \in ScanGitHistory(after)
      \/ x \in SoughtInPackage(after)
  BY <1>3, ScanReports
<1>5. CASE \E m \in AboutLines : \E q \in Files(after) : \E k \in DOMAIN after.text[q] :
             LineDeserves(after, m, Stem(m), q, k, x)
  <2>1. PICK m \in AboutLines, q \in Files(tree) :
          \E k \in DOMAIN after.text[q] : LineDeserves(after, m, Stem(m), q, k, x)
    BY <1>2, <1>5
  <2> PICK k \in DOMAIN after.text[q] : LineDeserves(after, m, Stem(m), q, k, x)
    BY <2>1
  <2> PICK t \in SoughtAt(after, m, q, k) : x = Finding(m, t, Stem(m) \o q, k)
    BY DEF LineDeserves
  <2> DEFINE path == Stem(m) \o q
  <2>2. ASSUME NEW i \in DOMAIN tree.text[q], t \in SoughtAt(tree, m, q, i)
        PROVE  Finding(m, t, path, i) \in ScanTree(tree, NoAnswer)
    <3>1. LineDeserves(tree, m, Stem(m), q, i, Finding(m, t, path, i))
      BY <2>2, Zenon DEF LineDeserves
    <3> QED
      BY <1>1, <2>2, <3>1, ScanReports
  <2>6. path \in {p, ToRoot \o p} <=> q = p
    BY <1>1, OwnPath
  <2>7. x = Finding(m, t, path, k)
    OBVIOUS
  <2> HIDE DEF path
  <2>3. \A i : i \in DOMAIN tree.text[q] => i \in Nat
    BY <1>1, TextOfFile
  <2>4. CASE q = p
    <3>1. PICK i \in DOMAIN tree.text[p] : Moves(n, new, i, k) /\ t \in SoughtAt(tree, m, p, i)
      BY <2>4, SoughtBefore
    <3> DEFINE g == Finding(m, t, path, i)
    <3>2. g \in ScanTree(tree, NoAnswer) /\ i \in Nat
      BY <2>2, <2>3, <2>4, <3>1
    <3>3. path \in {p, ToRoot \o p}
      BY <2>4, <2>6
    <3>4. g.path = path /\ g.line = i
      BY DEF Finding
    <3>5. x = Shifted(g, p, n, new)
      <4>1. CASE i > n
        <5>1. k = i + Len(new) - 1 /\ i >= n /\ i > 1
          BY <1>1, <3>1, <3>2, <4>1 DEF Moves
        <5> DEFINE there == i + Len(new) - 1
        <5>2. Shifted(g, p, n, new) = Finding(m, t, path, there)
          <6>1. Shifted(g, p, n, new) = [g EXCEPT !.line = g.line + Len(new) - 1]
            BY <3>3, <3>4, <5>1 DEF Shifted
          <6>2. g.line + Len(new) - 1 = there
            BY <3>4
          <6> HIDE DEF there
          <6>3. Shifted(g, p, n, new) = [g EXCEPT !.line = there]
            BY <6>1, <6>2, Zenon
          <6> QED
            BY <6>3 DEF Finding
        <5> QED
          BY <2>7, <5>1, <5>2
      <4>2. CASE ~(i > n)
        <5>1. k = i /\ ~(i >= n)
          BY <1>1, <3>1, <3>2, <4>2 DEF Moves
        <5>2. Shifted(g, p, n, new) = g
          BY <3>4, <5>1, Zenon DEF Shifted
        <5> QED
          BY <2>7, <5>1, <5>2
      <4> QED
        BY <4>1, <4>2
    <3>6. g.line # n
      BY <3>1 DEF Moves, Finding
    <3> HIDE DEF g
    <3> QED
      BY <3>2, <3>5, <3>6
  <2>5. CASE q # p
    <3>1. k \in DOMAIN tree.text[q] /\ t \in SoughtAt(tree, m, q, k)
      BY <1>1, <2>5, SoughtElsewhere
    <3>2. x \in ScanTree(tree, NoAnswer) /\ k \in Nat
      BY <2>2, <2>3, <2>7, <3>1
    <3>3. path \notin {p, ToRoot \o p}
      BY <2>5, <2>6
    <3>4. x.path = path
      BY <2>7 DEF Finding
    <3>5. x = Shifted(x, p, n, new)
      BY <3>3, <3>4, Zenon DEF Shifted
    <3> QED
      BY <3>2, <3>3, <3>4, <3>5, Zenon
  <2> QED
    BY <2>4, <2>5
<1>6. CASE x \in ScanGitHistory(after)
  <2>1. x \in ScanGitHistory(tree)
    BY <1>2, <1>6, Zenon DEF ScanGitHistory
  <2>2. x \in ScanTree(tree, NoAnswer)
    BY <1>1, <2>1, ScanReports
  <2>3. x.line = 0
    BY <2>1, HistoryAndPackage, Zenon
  <2>4. x = Shifted(x, p, n, new) /\ x.line # n
    BY <1>1, <2>3 DEF Shifted
  <2> QED
    BY <2>2, <2>4
<1>7. CASE x \in SoughtInPackage(after)
  <2>1. x \in SoughtInPackage(tree)
    BY <1>2, <1>7, Zenon DEF SoughtInPackage, Files
  <2>2. x \in ScanTree(tree, NoAnswer)
    BY <1>1, <2>1, ScanReports
  <2>3. HasPackage(tree) /\ x.path = ToRoot \o PackageJson /\ x.line = 1
    BY <2>1, HistoryAndPackage, Zenon
  <2>4. x = Shifted(x, p, n, new)
    BY <2>3 DEF Shifted
  <2>5. ASSUME x.path \in {p, ToRoot \o p} PROVE n # 1
    <3>1. PackageJson \in Files(tree)
      BY <2>3 DEF HasPackage, Files
    <3>2. p = PackageJson
      <4>1. ToRoot \o PackageJson # p /\ (ToRoot \o PackageJson = ToRoot \o p => PackageJson = p)
        BY <1>1, <3>1, PathsDiffer, SMTT(20)
      <4>2. ToRoot \o PackageJson \in {p, ToRoot \o p}
        BY <2>3, <2>5, Zenon
      <4> QED
        BY <4>1, <4>2, Zenon
    <3> QED
      BY <3>2, FirstLine, Zenon
  <2> QED
    BY <2>2, <2>3, <2>4, <2>5
<1> QED
  BY <1>4, <1>5, <1>6, <1>7
-------------------------------------------------------------------------------
(* A fix and its finding: what a fix knows when it is committed *)

Placing == {"rm", "git", "cloning", "ai", "audit"}

\* n is the line a finding is located at in version v.
Located(f, n, v) ==
  LET text == TreeAt[v].text
  IN  v \in Versions /\ f.path \in DOMAIN text /\ n # 0 /\ n = Locate(text[f.path], f.title, f.line)

FixKnown(r) ==
  /\ pc[r] \in Placing => target[r].finding.line # 0
  /\ pc[r] \in {"ai", "audit"} => Located(target[r].finding, fixed[r].at, fixed[r].version)
  /\ pc[r] = "audit" /\ fixed[r].method = "deterministic" =>
       Replacement(LineOf(TreeAt[fixed[r].version].text[target[r].finding.path], fixed[r].at)) # <<>>

FixesKnown ==
  /\ FixFunctions /\ fixed = [r \in Requests |-> fixed[r]]
  /\ \A r \in Requests : FixKnown(r)

\* A step of r to a place where no fix is, or one where it must only know where.
LEMMA FixGoesOn ==
  ASSUME FixesKnown, NEW r \in Requests, NEW there \in Places \ {"ai", "audit"},
         pc' = [pc EXCEPT ![r] = there],
         there \in Placing => target'[r].finding.line # 0, UNCHANGED fixed,
         UNCHANGED target \/ \E x : target' = [target EXCEPT ![r] = x]
  PROVE  FixesKnown'
<1>1. /\ FixFunctions' /\ fixed' = [q \in Requests |-> fixed'[q]]
      /\ pc'[r] = there
      /\ \A q \in Requests \ {r} : pc'[q] = pc[q] /\ target'[q] = target[q] /\ fixed'[q] = fixed[q]
  BY DEF FixesKnown, FixFunctions
<1>2. ASSUME NEW q \in Requests \ {r} PROVE FixKnown(q)'
  <2>1. FixKnown(q) /\ pc'[q] = pc[q] /\ target'[q] = target[q] /\ fixed'[q] = fixed[q]
    BY <1>1, Zenon DEF FixesKnown
  <2> QED
    BY <2>1, Zenon DEF FixKnown
<1>3. FixKnown(r)'
  BY <1>1 DEF FixKnown
<1> QED
  BY <1>1, <1>2, <1>3 DEF FixesKnown

\* A step of r that locates its finding, or goes on to the commit.
LEMMA FixPlaced ==
  ASSUME FixesKnown, NEW r \in Requests, NEW there \in {"ai", "audit"}, NEW fix,
         pc' = [pc EXCEPT ![r] = there], fixed' = [fixed EXCEPT ![r] = fix], UNCHANGED target,
         target[r].finding.line # 0, Located(target[r].finding, fix.at, fix.version),
         there = "audit" /\ fix.method = "deterministic" =>
           Replacement(LineOf(TreeAt[fix.version].text[target[r].finding.path], fix.at)) # <<>>
  PROVE  FixesKnown'
<1>1. /\ FixFunctions' /\ fixed' = [q \in Requests |-> fixed'[q]]
      /\ pc'[r] = there /\ fixed'[r] = fix /\ target'[r] = target[r]
      /\ \A q \in Requests \ {r} : pc'[q] = pc[q] /\ target'[q] = target[q] /\ fixed'[q] = fixed[q]
  BY DEF FixesKnown, FixFunctions, Places
<1>2. ASSUME NEW q \in Requests \ {r} PROVE FixKnown(q)'
  <2>1. FixKnown(q) /\ pc'[q] = pc[q] /\ target'[q] = target[q] /\ fixed'[q] = fixed[q]
    BY <1>1, Zenon DEF FixesKnown
  <2> QED
    BY <2>1, Zenon DEF FixKnown
<1>3. FixKnown(r)'
  BY <1>1, Zenon DEF FixKnown, Located
<1> QED
  BY <1>1, <1>2, <1>3 DEF FixesKnown

LEMMA CommitKnown ==
  ASSUME FixesKnown, NEW r \in Requests, NEW n, NEW method, NEW v, Commit(r, n, method, v),
         UNCHANGED target, target[r].finding.line # 0,
         Located(target[r].finding, n, v),
         method = "deterministic" =>
           Replacement(LineOf(TreeAt[v].text[target[r].finding.path], n)) # <<>>
  PROVE  FixesKnown'
<1> DEFINE fix == [at |-> n, method |-> method, version |-> v]
<1>1. CASE pc' = [pc EXCEPT ![r] = "audit"] /\ fixed' = [fixed EXCEPT ![r] = fix]
  <2>1. fix.method = method /\ fix.version = v /\ fix.at = n
    OBVIOUS
  <2> HIDE DEF fix
  <2> QED
    BY <1>1, <2>1, FixPlaced, Zenon
<1>2. CASE pc' = [pc EXCEPT ![r] = "cleanup"] /\ UNCHANGED fixed
  BY <1>2, FixGoesOn DEF Places, Placing
<1> QED
  BY <1>1, <1>2 DEF Commit, Goto

LEMMA FixKnownStep ==
  ASSUME FixesKnown, TableTypes, [Next]_vars
  PROVE  FixesKnown'
<1>1. CASE UNCHANGED vars
  BY <1>1, Zenon DEF vars, FixesKnown, FixFunctions, FixKnown
<1>2. ASSUME NEW r \in Requests, Handle(r) PROVE FixesKnown'
  <2>1. CASE Push(r) \/ Clear(r) \/ StartScan(r) \/ CloneForScan(r) \/ FileFindings(r) \/ Upload(r)
           \/ Stall(r)
    <3>1. /\ UNCHANGED <<target, fixed>>
          /\ \E there \in {"over", "clone", "file", "queued"} : pc' = [pc EXCEPT ![r] = there]
      BY <2>1 DEF Push, Clear, StartScan, CloneForScan, FileFindings, Upload, Stall, BeginJob,
                  Begin, Goto
    <3> QED
      BY <3>1, FixGoesOn DEF Places, Placing
  <2>2. CASE \/ StartJob(r) \/ FindLatestScan(r) \/ CreateDefaultScan(r) \/ FindDuplicate(r)
             \/ CreateFinding(r) \/ QueryFails(r) \/ UpdateProgress(r) \/ AttemptAgain(r)
    <3>1. /\ UNCHANGED <<target, fixed>>
          /\ \E there \in {"queued", "over"} \cup Storing \cup {"progress"} : pc' = [pc EXCEPT ![r] = there]
      BY <2>2 DEF StartJob, FindLatestScan, CreateDefaultScan, FindDuplicate, CreateFinding,
                  QueryFails, UpdateProgress, AttemptAgain, NextFinding, Goto, Storing
    <3> QED
      BY <3>1, FixGoesOn DEF Places, Placing, Storing
  <2>3. CASE RequestFix(r)
    <3>1. /\ UNCHANGED fixed /\ \E x : target' = [target EXCEPT ![r] = x]
          /\ pc' = [pc EXCEPT ![r] = "find"]
      BY <2>3 DEF RequestFix, Begin, Goto
    <3> QED
      BY <3>1, FixGoesOn DEF Places, Placing
  <2>4. CASE FindFinding(r)
    <3>1. /\ UNCHANGED <<target, fixed>>
          /\ \/ pc' = [pc EXCEPT ![r] = "rm"] /\ target[r].finding.line # 0
             \/ pc' = [pc EXCEPT ![r] = "over"]
      BY <2>4 DEF FindFinding, Goto
    <3> QED
      BY <3>1, FixGoesOn DEF Places, Placing
  <2>5. CASE RemoveOld(r) \/ StartClone(r) \/ CloneFails(r) \/ LogRemediation(r) \/ Cleanup(r)
    <3>1. /\ UNCHANGED <<target, fixed>>
          /\ \/ pc[r] \in Placing /\ \E there \in {"git", "cloning"} : pc' = [pc EXCEPT ![r] = there]
             \/ \E there \in {"cleanup", "over"} : pc' = [pc EXCEPT ![r] = there]
      BY <2>5 DEF RemoveOld, StartClone, CloneFails, LogRemediation, Cleanup, Goto, Placing
    <3>2. pc[r] \in Placing => target'[r].finding.line # 0
      BY <3>1, Zenon DEF FixesKnown, FixKnown
    <3> QED
      BY <3>1, <3>2, FixGoesOn DEF Places, Placing
  <2>6. CASE Patch(r)
    <3> DEFINE f == target[r].finding
               text == TreeAt[head].text
               n == IF f.path \in DOMAIN text THEN Locate(text[f.path], f.title, f.line) ELSE 0
               fix == [at |-> n, method |-> None, version |-> head]
    <3>1. pc[r] = "cloning" /\ UNCHANGED target /\ head \in Versions
      BY <2>6 DEF Patch, TableTypes
    <3>2. f.line # 0
      BY <3>1 DEF FixesKnown, FixKnown, Placing
    <3>3. \/ Goto(r, "cleanup") /\ UNCHANGED fixed
          \/ n # 0 /\ Replacement(LineOf(text[f.path], n)) # <<>> /\ Commit(r, n, "deterministic", head)
          \/ n # 0 /\ Goto(r, "ai") /\ fixed' = [fixed EXCEPT ![r] = fix]
      BY <2>6, Zenon DEF Patch
    <3>4. n # 0 => Located(f, n, head)
      BY <3>1, Zenon DEF Located
    <3> HIDE DEF n
    <3>5. CASE Goto(r, "cleanup") /\ UNCHANGED fixed
      BY <3>1, <3>5, FixGoesOn DEF Goto, Places, Placing
    <3>6. CASE n # 0 /\ Replacement(LineOf(text[f.path], n)) # <<>> /\ Commit(r, n, "deterministic", head)
      BY <3>1, <3>2, <3>4, <3>6, CommitKnown, Zenon
    <3>7. CASE n # 0 /\ Goto(r, "ai") /\ fixed' = [fixed EXCEPT ![r] = fix]
      <4>1. "ai" # "audit" /\ fix.at = n /\ fix.version = head
        OBVIOUS
      <4> HIDE DEF fix
      <4> QED
        BY <3>1, <3>2, <3>4, <3>7, <4>1, FixPlaced, Zenon DEF Goto
    <3> QED
      BY <3>3, <3>5, <3>6, <3>7
  <2>7. CASE SuggestReplacement(r)
    <3>1. /\ pc[r] = "ai" /\ UNCHANGED target
          /\ \/ Goto(r, "cleanup") /\ UNCHANGED fixed
             \/ Commit(r, fixed[r].at, "ai-suggested", fixed[r].version)
      BY <2>7 DEF SuggestReplacement
    <3>2. target[r].finding.line # 0 /\ Located(target[r].finding, fixed[r].at, fixed[r].version)
      BY <3>1 DEF FixesKnown, FixKnown, Placing
    <3>3. CASE Goto(r, "cleanup") /\ UNCHANGED fixed
      BY <3>1, <3>3, FixGoesOn DEF Goto, Places, Placing
    <3>4. CASE Commit(r, fixed[r].at, "ai-suggested", fixed[r].version)
      <4>1. "ai-suggested" # "deterministic"
        BY Zenon
      <4> QED
        BY <3>1, <3>2, <3>4, <4>1, CommitKnown, Zenon
    <3> QED
      BY <3>1, <3>3, <3>4
  <2> QED
    BY <1>2, <2>1, <2>2, <2>3, <2>4, <2>5, <2>6, <2>7, Zenon DEF Handle
<1>3. CASE Next
  <2>1. PICK r \in Requests : Handle(r)
    BY <1>3, Zenon DEF Next
  <2> QED
    BY <1>2, <2>1
<1> QED
  BY <1>1, <1>3
-------------------------------------------------------------------------------
LEMMA FixOfFinding ==
  ASSUME NEW f, NEW fix, NEW tree, tree = TreeAt[fix.version], PlainLines(tree),
         Located(f, fix.at, fix.version), Replacement(LineOf(tree.text[f.path], fix.at)) # <<>>, f.line # 0,
         NEW g \in ScanTree(tree, NoAnswer),
         g.title = f.title, g.path \in {f.path, ToRoot \o f.path}, g.line = f.line,
         MeantFor(LineOf(tree.text[f.path], f.line), f.title),
         NEW new, new = Replacement(tree.text[f.path][fix.at]),
         NEW after, after = Patched(tree, f.path, fix.at, new)
  PROVE  fix.at = f.line /\ NothingNew(tree, f.path, fix.at, new, after)
<1> DEFINE p == f.path
           ls == tree.text[p]
<1>1. /\ IsTree(tree) /\ p \in Files(tree)
      /\ fix.at = Locate(ls, f.title, f.line) /\ Replacement(LineOf(ls, fix.at)) # <<>>
  BY TreesAssumption, Zenon DEF Located, Files
<1>2. fix.at = f.line
  <2>1. MeantFor(LineOf(tree.text[p], g.line), g.title) /\ g.line # 0 /\ g.path \in {p, ToRoot \o p}
    OBVIOUS
  <2> HIDE DEF p
  <2>2. Locate(tree.text[p], g.title, g.line) = g.line
    BY <1>1, <2>1, LocatesDefect
  <2> QED
    BY <1>1, <2>2, Zenon
<1>3. fix.at \in DOMAIN ls /\ LineOf(ls, fix.at) = ls[fix.at]
  <2>1. Replacement({}) = <<>>
    BY DEF Replacement
  <2> QED
    BY <1>1, <2>1, Zenon DEF LineOf
<1>4. PlainPatch(tree, p, fix.at, new, after)
  <2>1. fix.at \in 1..Len(ls)
    BY <1>1, <1>3, TextOfFile
  <2> QED
    BY <1>1, <1>3, <2>1, Zenon DEF PlainPatch, PatchOf
<1> QED
  BY <1>2, <1>4, AfterWithin, Zenon

(* For every tree whose lines are plain, whatever is pushed, scanned,         *)
(* uploaded and cleared and however many fixes share the clone: a             *)
(* deterministic fix of a defect that is in the tree it cloned patches the    *)
(* line of the defect, and a scan of the patched tree reports what the scan   *)
(* before did, further down where a guard was added, without the defect.      *)
THEOREM FixesAreOfTheirFindings ==
  ASSUME \A v \in Versions : PlainLines(TreeAt[v])
  PROVE  Spec => []FixIsOfItsFinding
<1>1. Init => FixesKnown
  BY DEF Init, FixesKnown, FixFunctions, FixKnown, Places, Placing
<1>2. FixesKnown => FixIsOfItsFinding
  <2> SUFFICES ASSUME FixesKnown, NEW r \in Requests, pc[r] = "audit", fixed[r].method = "deterministic"
               PROVE  LET f == target[r].finding
                          tree == TreeAt[fixed[r].version]
                          n == fixed[r].at
                          new == Replacement(tree.text[f.path][n])
                          before == ScanTree(tree, NoAnswer)
                          defects == {g \in before : g.title = f.title /\ g.path \in {f.path, ToRoot \o f.path}
                                                     /\ g.line = f.line}
                          after == ScanTree(Patched(tree, f.path, n, new), NoAnswer)
                      IN  defects # {} /\ MeantFor(LineOf(tree.text[f.path], f.line), f.title) =>
                            n = f.line /\ after \subseteq {Shifted(g, f.path, n, new) : g \in before \ defects}
    BY Zenon DEF FixIsOfItsFinding, MeantFor
  <2> DEFINE f == target[r].finding
             fix == fixed[r]
             tree == TreeAt[fix.version]
             new == Replacement(tree.text[f.path][fix.at])
             before == ScanTree(tree, NoAnswer)
             Here(g) == g.title = f.title /\ g.path \in {f.path, ToRoot \o f.path} /\ g.line = f.line
             defects == {g \in before : Here(g)}
             patched == Patched(tree, f.path, fix.at, new)
             after == ScanTree(patched, NoAnswer)
             Meant == MeantFor(LineOf(tree.text[f.path], f.line), f.title)
  <2>1. /\ Located(f, fix.at, fix.version) /\ f.line # 0
        /\ Replacement(LineOf(tree.text[f.path], fix.at)) # <<>>
    BY DEF FixesKnown, FixKnown, Placing
  <2>2. PlainLines(tree)
    BY <2>1 DEF Located
  <2>3. \A g \in before : Here(g) /\ Meant => fix.at = f.line /\ NothingNew(tree, f.path, fix.at, new, patched)
    BY <2>1, <2>2, FixOfFinding, Zenon
  <2>4. ASSUME NothingNew(tree, f.path, fix.at, new, patched), fix.at = f.line
        PROVE  \A x \in after : \E h \in before : ~Here(h) /\ x = Shifted(h, f.path, fix.at, new)
    BY <2>4, Zenon DEF NothingNew
  <2> HIDE DEF f, fix, tree, new, before, patched, after, Meant, Here
  <2>5. defects # {} /\ Meant =>
          fix.at = f.line /\ after \subseteq {Shifted(h, f.path, fix.at, new) : h \in before \ defects}
    BY <2>3, <2>4
  <2> QED
    BY <2>5, Zenon DEF f, fix, tree, new, before, patched, after, Meant, Here
<1>3. UploadInv /\ FixesKnown /\ [Next]_vars => FixesKnown'
  BY FixKnownStep DEF UploadInv
<1> QED
  BY <1>1, <1>2, <1>3, UploadInvInit, UploadInvStep, PTL DEF Spec
-------------------------------------------------------------------------------
(* Where a fix is made, for any tree *)

\* Line k is in reach of line n and has one of the patterns.
InReach(ls, k, n, expected) ==
  k \in DOMAIN ls /\ k + 10 >= n /\ k <= n + 10 /\ ls[k] \cap expected # {}

\* A search for the line of a defect ends at the reported line, if that has what is
\* expected, or at the first line in reach that has.
LEMMA LocateNear ==
  ASSUME NEW ls, DOMAIN ls \subseteq Nat, NEW title, NEW n, Locate(ls, title, n) # 0
  PROVE  LET expected == ExpectedPattern(title)
             k == Locate(ls, title, n)
         IN  \/ k = n /\ (expected = {} \/ LineOf(ls, n) \cap expected # {})
             \/ /\ InReach(ls, k, n, expected)
                /\ \A j \in DOMAIN ls : InReach(ls, j, n, expected) => k <= j
<1> DEFINE expected == ExpectedPattern(title)
           near == {k \in DOMAIN ls : k + 10 >= n /\ k <= n + 10 /\ ls[k] \cap expected # {}}
           found == Locate(ls, title, n)
           first == CHOOSE k \in near : \A j \in near : k <= j
<1>1. found = IF expected = {} \/ LineOf(ls, n) \cap expected # {} THEN n
              ELSE IF near = {} THEN 0 ELSE first
  BY Zenon DEF Locate
<1>2. \A k : k \in near <=> InReach(ls, k, n, expected)
  BY Zenon DEF InReach
<1>3. near \in SUBSET Nat
  OBVIOUS
<1>4. near # {} => \E k \in near : \A j \in near : k <= j
  <2> HIDE DEF near
  <2> QED
    BY <1>3, LeastNat
<1>5. near # {} => first \in near /\ \A j \in near : first <= j
  <2> HIDE DEF near
  <2> QED
    BY <1>4, Zenon
<1>6. found # 0
  OBVIOUS
<1> HIDE DEF expected, near, found, first
<1>7. \/ found = n /\ (expected = {} \/ LineOf(ls, n) \cap expected # {})
      \/ near # {} /\ found = first
  BY <1>1, <1>6, Zenon
<1>8. \/ found = n /\ (expected = {} \/ LineOf(ls, n) \cap expected # {})
      \/ InReach(ls, found, n, expected) /\ \A j \in DOMAIN ls : InReach(ls, j, n, expected) => found <= j
  BY <1>2, <1>5, <1>7, Zenon
<1> QED
  BY <1>8, Zenon DEF expected, found

\* No fix is made of a file that is not there, or farther than ten lines from the line its
\* finding reports; and where the title tells what to expect, it is made of a line that
\* has it, the reported one before any other, the first in reach next
\* (applyFix).
FixIsNear ==
  \A r \in Requests : pc[r] = "audit" =>
    LET f == target[r].finding
        n == fixed[r].at
        text == TreeAt[fixed[r].version].text
        ls == text[f.path]
        expected == ExpectedPattern(f.title)
    IN  /\ f.path \in DOMAIN text
        /\ \/ n = f.line /\ (expected = {} \/ LineOf(ls, n) \cap expected # {})
           \/ /\ InReach(ls, n, f.line, expected)
              /\ \A j \in DOMAIN ls : InReach(ls, j, f.line, expected) => n <= j

(* For any trees, and for the fixes a model suggests as for those of the      *)
(* rules: what is committed was changed at the reported line or at the first  *)
(* line within ten of it that has the pattern of the title, in the version    *)
(* that was cloned, however often the branch has moved since.                 *)
THEOREM FixesStayNear == Spec => []FixIsNear
<1>1. Init => FixesKnown
  BY DEF Init, FixesKnown, FixFunctions, FixKnown, Places, Placing
<1>2. FixesKnown => FixIsNear
  <2> SUFFICES ASSUME FixesKnown, NEW r \in Requests, pc[r] = "audit"
               PROVE  LET f == target[r].finding
                          n == fixed[r].at
                          text == TreeAt[fixed[r].version].text
                          ls == text[f.path]
                          expected == ExpectedPattern(f.title)
                      IN  /\ f.path \in DOMAIN text
                          /\ \/ n = f.line /\ (expected = {} \/ LineOf(ls, n) \cap expected # {})
                             \/ /\ InReach(ls, n, f.line, expected)
                                /\ \A j \in DOMAIN ls : InReach(ls, j, f.line, expected) => n <= j
    BY Zenon DEF FixIsNear
  <2> DEFINE f == target[r].finding
             n == fixed[r].at
             tree == TreeAt[fixed[r].version]
             ls == tree.text[f.path]
  <2>1. Located(f, n, fixed[r].version)
    BY DEF FixesKnown, FixKnown
  <2>2. f.path \in DOMAIN tree.text /\ n # 0 /\ n = Locate(ls, f.title, f.line) /\ IsTree(tree)
    BY <2>1, TreesAssumption, Zenon DEF Located
  <2>3. DOMAIN ls \subseteq Nat
    <3>1. f.path \in Files(tree)
      BY <2>2, Zenon DEF Files
    <3> HIDE DEF tree, f
    <3> QED
      BY <2>2, <3>1, TextOfFile
  <2> QED
    BY <2>2, <2>3, LocateNear, Zenon
<1>3. UploadInv /\ FixesKnown /\ [Next]_vars => FixesKnown'
  BY FixKnownStep DEF UploadInv
<1> QED
  BY <1>1, <1>2, <1>3, UploadInvInit, UploadInvStep, PTL DEF Spec
===============================================================================
