------------------------------- MODULE AutoFix -------------------------------
(***************************************************************************)
(* AutoFixService (remediation/auto-fix.service.ts): which line of a file  *)
(* a fix patches and with what, and the directory it works in, one for     *)
(* each finding, shared by all fixes of that finding.                      *)
(***************************************************************************)
EXTENDS Scanners

VARIABLES
  workspace,  \* per finding with a directory: who cloned it, and how far it is
  stuck       \* history: findings whose directory rm once failed to remove

fixVars == <<workspace, stuck>>

FixInit == workspace = [x \in {} |-> 0] /\ stuck = {}
-------------------------------------------------------------------------------
(* The patch *)

LineOf(ls, n) == IF n \in DOMAIN ls THEN ls[n] ELSE {}

\* By the words of the title; {} is null: any line will do.
ExpectedPattern(title) ==
  CASE title = "Database Port" -> {"port"}
    [] title \in {"Private Key Block", "Access Key", "High-Entropy Secret", "HARDCODED_SECRETS"} ->
         {"privateKey", "rsaKey", "ecKey", "assign"}
    [] title = "MISSING_SECURITY_HEADERS" -> {"bootstrap"}
    [] title = "Open Controller" -> {"route", "otherRoute"}
    [] OTHER -> {}

\* The reported line if it has the pattern, or the first that has among ten either way.
Locate(ls, title, n) ==
  LET expected == ExpectedPattern(title)
      near == {k \in DOMAIN ls : k + 10 >= n /\ k <= n + 10 /\ ls[k] \cap expected # {}}
  IN  IF expected = {} \/ LineOf(ls, n) \cap expected # {} THEN n
      ELSE IF near = {} THEN 0 ELSE CHOOSE k \in near : \A j \in near : k <= j

\* Mutant: the guard goes below the route.
Replacement_Below(line) ==
  IF "dbPort" \in line THEN <<{"port"}>>
  ELSE IF "route" \in line THEN <<line, {"@", "guard"}>>
  ELSE IF line \cap {"privateKey", "rsaKey"} # {} THEN <<{"assign"}>>
  ELSE <<>>

\* resolveDeterministicReplacement: the lines instead of this one; none is null.
Replacement(line) ==
  IF "dbPort" \in line THEN <<{"port"}>>
  ELSE IF "route" \in line THEN <<{"@", "guard"}, line>>
  ELSE IF line \cap {"privateKey", "rsaKey"} # {} THEN <<{"assign"}>>
  ELSE <<>>

\* Of a file with no other path.
Patched(tree, p, n, new) ==
  [tree EXCEPT !.text[p] = SubSeq(@, 1, n - 1) \o new \o SubSeq(@, n + 1, Len(@))]
-------------------------------------------------------------------------------
(* The directory *)

Removed(x) == workspace' = [y \in DOMAIN workspace \ {x} |-> workspace[y]]

\* rm with force, before and after; its failure is logged, or not even that.
Rm(x) ==
  \/ Removed(x) /\ UNCHANGED stuck
  \/ x \in DOMAIN workspace /\ stuck' = stuck \cup {x} /\ UNCHANGED workspace

\* git clone makes the directory, unless there is one.
GitCreates(x, r) ==
  /\ x \notin DOMAIN workspace
  /\ workspace' = [y \in DOMAIN workspace \cup {x} |->
                     IF y = x THEN [by |-> r, state |-> "cloning"] ELSE workspace[y]]
  /\ UNCHANGED stuck

\* A clone that fails, or is killed, may leave what it made or remove what is there.
GitFails(x) == (Removed(x) \/ UNCHANGED workspace) /\ UNCHANGED stuck

\* It ends well only in the directory it made.
ClonedBy(x, r) == x \in DOMAIN workspace /\ workspace[x] = [by |-> r, state |-> "cloning"]

Become(x, s) ==
  workspace' = [workspace EXCEPT ![x].state = s] /\ UNCHANGED stuck
===============================================================================
