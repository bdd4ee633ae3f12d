---------------------------- MODULE ReportClients ----------------------------
(***************************************************************************)
(* Those who send reports to the compliance API, and what they send:       *)
(* scan.js, the local scanner, run in a working copy of the repository;    *)
(* test-ingestion.js; and the dashboard (App.tsx, Dropzone.tsx), where a   *)
(* scan mode stands for fixed findings and the operator may type one in.   *)
(***************************************************************************)
EXTENDS Scanners
LOCAL INSTANCE SequencesExt

Flag(ruleId, path, line) == Finding("upload", ruleId, path, line)
-------------------------------------------------------------------------------
(* scan.js *)

RULES == {Rule("SQL_INJECTION", "sqlConcat", {}),
          Rule("HARDCODED_SECRETS", "hardcoded", {}),
          Rule("MISSING_SECURITY_HEADERS", "bootstrap", {"helmet"})}

SourceKinds == {"controller", "authController", "script", "package"}

Parent(p) == SubSeq(p, 1, Len(p) - 1)

\* The directories walkDir lists: some are passed over by name, but not the target.
Listed(tree, target) ==
  {d \in Dirs(tree) : IsPrefix(target, d) /\
     \A i \in (Len(target) + 1)..Len(d) : d[i] \notin {"node_modules", "dist", ".git", "frontend"}}

\* A link that leads nowhere: statSync throws through walkDir and run.
Throws(tree, target) == \E q \in tree.dangling : Parent(q) \in Listed(tree, target)

ToScan(tree, target) ==
  IF target \notin Dirs(tree) THEN {target}
  ELSE {p \in DOMAIN tree.text : Parent(p) \in Listed(tree, target) /\ tree.kind[p] \in SourceKinds}

\* path.relative: up to the nearest common directory, and down from there.
Relative(cwd, p) ==
  LET n == Len(LongestCommonPrefix({cwd, p}))
  IN  [i \in 1..(Len(cwd) - n) |-> ".."] \o SubSeq(p, n + 1, Len(p))

\* What run() in directory cwd flags of a target; nothing if it dies or there is no target.
RunScan(tree, cwd, target) ==
  IF target \notin DOMAIN tree.text \cup Dirs(tree) \/ Throws(tree, target) THEN <<>>
  ELSE SetToSeq({[f EXCEPT !.path = Relative(cwd, @)] :
                   f \in Lines("upload", tree, ToScan(tree, target), RULES, <<>>)})
-------------------------------------------------------------------------------
(* The dashboard *)

UsersService == <<"src", "users", "users.service.ts">>
AuthModule == <<"src", "auth", "auth.module.ts">>
Demo == <<Flag("SQL_INJECTION", UsersService, 42), Flag("HARDCODED_SECRETS", AuthModule, 15)>>

\* What was dropped or pasted into Dropzone, to the mode it is taken for.
ModeOf(dropped) ==
  CASE dropped \in {"apk", "ipa"} -> "Mobile"
    [] dropped \in {"archive", "source file", "git link"} -> "Source Code"
    [] dropped \in {"other link", "text"} -> "Web"
    [] OTHER -> "Desktop"

\* handleIngest: whatever was dropped, the findings are those of its mode.
Ingest(dropped) ==
  LET mode == ModeOf(dropped)
  IN  CASE mode = "Mobile" -> <<Flag("ANDROID_DEBUGGABLE", <<"android", "AndroidManifest.xml">>, 8)>>
        [] mode = "Web" -> <<Flag("MISSING_SECURITY_HEADERS", <<"src", "main.ts">>, 12)>>
        [] mode = "Source Code" -> Demo
        [] OTHER -> <<Flag("CSHARP_DESERIALIZATION", <<"controllers", "DesktopAudit.cs">>, 87)>>

\* handleManualSubmit: one finding; the form asks for a path.
Manually(ruleId, path, line) == IF path = <<>> THEN <<>> ELSE <<Flag(ruleId, path, line)>>

IsArray(findings) == findings \in Seq({findings[i] : i \in DOMAIN findings})

\* The body the API's validation lets through: at least one finding, each at a line.
UploadReport(findings) ==
  IsArray(findings) /\ findings # <<>> /\ \A i \in DOMAIN findings : findings[i].path # <<>> /\ findings[i].line >= 1
===============================================================================
