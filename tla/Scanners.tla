------------------------------- MODULE Scanners -------------------------------
(***************************************************************************)
(* The scanning modules (scans/modules): what each reports about a cloned  *)
(* tree.  They keep no state, so all definitions are operators on a tree:  *)
(*                                                                         *)
(*   tree.entries   the names in a directory, in the order of readdir      *)
(*   tree.kind      what a file's name makes of it for the scanners        *)
(*   tree.text      its lines                                              *)
(*   tree.links     symbolic links to files and to directories, and        *)
(*   tree.dangling  links that lead nowhere: statSync throws               *)
(*   tree.history   lines added by some commit                             *)
(*   tree.deps      dependencies of package.json in the root               *)
(*                                                                         *)
(* A path is the sequence of its names.  A line is the set of patterns     *)
(* found in it, each a regular expression or substring of the source.      *)
(*                                                                         *)
(* A tree is what statSync shows of a clone: what a link leads to is below *)
(* the link.  A link may lead to a directory above it, and back through    *)
(* itself: that ends where the system follows no more links on one path    *)
(* (ELOOP), with a link that leads nowhere.                                *)
(***************************************************************************)
EXTENDS Naturals, Sequences, FiniteSets

ToRoot == <<"..", "clone">>  \* from the server's working directory to the clone

Finding(module, title, path, line) ==
  [module |-> module, title |-> title, path |-> path, line |-> line]
-------------------------------------------------------------------------------
(* Walking *)

\* filePath.includes(d): a name that contains an excluded one counts as well.
Includes(name, excluded) ==
  \/ name \in excluded
  \/ name \in {".github", ".gitlab-ci.yml"} /\ ".git" \in excluded
  \/ name = "distance" /\ "dist" \in excluded

Dirs(tree) == DOMAIN tree.entries
Files(tree) == DOMAIN tree.text
Nodes(tree) == Dirs(tree) \cup Files(tree) \cup tree.dangling

Children(tree, d) == {Append(d, tree.entries[d][i]) : i \in 1..Len(tree.entries[d])}

\* The file is a link or behind a link to a directory.
ThroughLink(tree, p) == \E k \in 1..Len(p) : SubSeq(p, 1, k) \in tree.links

\* A finite tree of directories, whose entries are directories, files and links that lead
\* nowhere; links to directories and files are among these, but the root is none.  A file
\* has a line, if an empty one.
IsTree(tree) ==
  /\ DOMAIN tree = {"entries", "kind", "text", "links", "dangling", "history", "deps"}
  /\ IsFiniteSet(Dirs(tree)) /\ <<>> \in Dirs(tree) /\ Nodes(tree) \subseteq Seq(STRING)
  /\ Nodes(tree) \ {<<>>} = UNION {Children(tree, d) : d \in Dirs(tree)}
  /\ \A d \in Dirs(tree) :
       /\ tree.entries[d] \in Seq(STRING)
       /\ \A i, j \in 1..Len(tree.entries[d]) : tree.entries[d][i] = tree.entries[d][j] => i = j
       /\ \A i \in 1..Len(tree.entries[d]) : tree.entries[d][i] # ".."
  /\ <<>> \notin tree.links
  /\ Files(tree) \cap tree.dangling = {} /\ Dirs(tree) \cap (Files(tree) \cup tree.dangling) = {}
  /\ DOMAIN tree.kind = Files(tree)
  /\ \A p \in Files(tree) :
       tree.text[p] \in Seq({tree.text[p][i] : i \in DOMAIN tree.text[p]}) /\ tree.text[p] # <<>>
  /\ \A d \in tree.deps : d.name \in Seq(STRING) /\ <<"package.json">> \in Files(tree)

\* The entries of a directory the loop comes to.  By statSync: one that throws ends the
\* loop.  By Dirent: nothing throws.
Entries(tree, d, byStat) ==
  {Append(d, tree.entries[d][i]) : i \in {i \in 1..Len(tree.entries[d]) :
     byStat => \A j \in 1..i : Append(d, tree.entries[d][j]) \notin tree.dangling}}

Named(p, names) == p # <<>> /\ p[Len(p)] \in names

\* A directory or file that is not gone into: by its name, and by Dirent also a link.
Skipped(tree, p, skip, byStat) == Named(p, skip) \/ (~byStat /\ p \in tree.links)

\* Mutant: an excluded directory ends the loop instead of being passed over.
Walk_Returns(tree, skip, byStat) ==
  LET files[d \in Dirs(tree)] ==
        IF \E i \in DOMAIN tree.entries[d] : tree.entries[d][i] \in skip THEN {}
        ELSE UNION {IF p \notin Dirs(tree) THEN {p} ELSE files[p] : p \in Entries(tree, d, byStat)}
  IN  {p \in files[<<>>] : byStat \/ ~(ThroughLink(tree, p) \/ p \in tree.dangling)}

\* The four walkDirectory and collectFiles.  By statSync a link counts as what it leads
\* to, a directory is gone into however it is reached, and only directories are skipped
\* by name; by Dirent a link is neither a file nor a directory.
Walk(tree, skip, byStat) ==
  LET files[d \in Dirs(tree)] ==
        IF Skipped(tree, d, skip, byStat) THEN {}
        ELSE UNION {IF p \notin Dirs(tree) THEN {p} ELSE files[p] : p \in Entries(tree, d, byStat)}
  IN  {p \in files[<<>>] : byStat \/ ~(Skipped(tree, p, skip, byStat) \/ p \in tree.dangling)}

\* The files a callback does not turn down for a name on their path.
Kept(files, excluded) ==
  {p \in files : \A i \in DOMAIN p : ~Includes(p[i], excluded)}

\* A rule finds a pattern on a line, unless another one is there too.
Rule(title, pattern, unless) == [title |-> title, pattern |-> pattern, unless |-> unless]

Broken(rules, line) == {u \in rules : u.pattern \in line /\ u.unless \cap line = {}}

\* What rules find in files, line by line.
Lines(module, tree, files, rules, from) ==
  UNION {UNION {{Finding(module, u.title, from \o p, i) : u \in Broken(rules, tree.text[p][i])}
                : i \in DOMAIN tree.text[p]} : p \in files}
-------------------------------------------------------------------------------
(* SecretExcavator *)

SecretDirs == {"node_modules", ".git", ".next", "dist", "coverage"}
SecretKinds == {"controller", "authController", "script", "compose", "yaml", "package", "env"}

\* The other eighteen provider rules are two: AutoFixService goes by KEY and SECRET in a name.
SecretRules == {Rule("Private Key Block", "privateKey", {"placeholder"}),
                Rule("Private Key Block", "ecKey", {"placeholder"}),
                Rule("Access Key", "providerKey", {"placeholder"}),
                Rule("Access Token", "providerToken", {"placeholder"})}

\* A value a provider rule has found is not reported again.
EntropyRules == {Rule("High-Entropy Secret", "entropy", {"placeholder", "providerKey", "providerToken"})}

SecretFiles(tree) ==
  {p \in Kept(Walk(tree, SecretDirs, TRUE), SecretDirs) : tree.kind[p] \in SecretKinds}

\* Commits are not told apart; a finding in the history has no file and line 0.
ScanGitHistory(tree) ==
  UNION {{Finding("SECRET_EXCAVATOR", u.title, <<"(git history)">>, 0)
          : u \in Broken(SecretRules, line)} : line \in tree.history}

SecretExcavator(tree) ==
  Lines("SECRET_EXCAVATOR", tree, SecretFiles(tree), SecretRules \cup EntropyRules, <<>>)
  \cup ScanGitHistory(tree)
-------------------------------------------------------------------------------
(* IaCSecurity: its paths are relative to the working directory *)

CallbackDirs == {"node_modules", ".git", "dist"}

AuditedFiles(tree) == Kept(Walk(tree, {}, TRUE), CallbackDirs)

Text(tree, p) == UNION {tree.text[p][i] : i \in DOMAIN tree.text[p]}

AuditDockerfile(tree, p) ==
  IF "USER" \in Text(tree, p) THEN {}
  ELSE {Finding("IaC_SECURITY", "Running as Root", ToRoot \o p, 1)}

ComposeRules == {Rule("Privileged Mode", "privileged", {}),
                 Rule("Database Port", "dbPort", {}),
                 Rule("Database Port", "mysqlPort", {})}

AuditDockerCompose(tree, p) == Lines("IaC_SECURITY", tree, {p}, ComposeRules, ToRoot)

AuditKubernetesYaml(tree, p) ==
  IF "apiVersion" \in Text(tree, p) /\ "limits" \notin Text(tree, p)
    THEN {Finding("IaC_SECURITY", "Resource Limits", ToRoot \o p, 1)} ELSE {}

IaCSecurity(tree) ==
  UNION {CASE tree.kind[p] = "dockerfile" -> AuditDockerfile(tree, p)
           [] tree.kind[p] = "compose" -> AuditDockerCompose(tree, p) \cup AuditKubernetesYaml(tree, p)
           [] tree.kind[p] = "yaml" -> AuditKubernetesYaml(tree, p)
           [] OTHER -> {} : p \in AuditedFiles(tree)}
-------------------------------------------------------------------------------
(* AuthGuardAuditor *)

\* "@": the line starts with a decorator; a guard also counts in a comment.
IsRoute(line) == line \cap {"route", "otherRoute"} # {}

\* The lines above the first exported class, upwards: blank ones are passed over.
IsClassLevelGuarded(ls) ==
  LET classes == {i \in DOMAIN ls : "class" \in ls[i]}
      guarded[j \in 0..Len(ls)] ==
        IF j = 0 THEN FALSE
        ELSE IF ls[j] = {} THEN guarded[j - 1]
        ELSE "guard" \in ls[j] \/ ("@" \in ls[j] /\ guarded[j - 1])
  IN  \E c \in classes : (\A i \in classes : c <= i) /\ guarded[c - 1]

\* The lines above a route, upwards, to the route before it or other code.
HasPrecedingGuard(ls, i) ==
  LET guarded[j \in 0..Len(ls)] ==
        IF j = 0 THEN FALSE
        ELSE "guard" \in ls[j] \/ ("@" \in ls[j] /\ ~IsRoute(ls[j]) /\ guarded[j - 1])
  IN  guarded[i - 1]

AuditController(tree, p) ==
  LET ls == tree.text[p]
  IN  {Finding("AUTH_GUARD_AUDIT", "Exposed Endpoint", p, i) : i \in
         {i \in DOMAIN ls : IsRoute(ls[i]) /\ ~IsClassLevelGuarded(ls) /\ ~HasPrecedingGuard(ls, i)}}
      \cup Lines("AUTH_GUARD_AUDIT", tree, {p}, {Rule("Raw Query", "rawQuery", {})}, <<>>)

AuthGuardAuditor(tree) ==
  UNION {AuditController(tree, p) : p \in {p \in AuditedFiles(tree) : tree.kind[p] = "controller"}}
-------------------------------------------------------------------------------
(* FleetVulnerabilityAuditor *)

ScriptKinds == {"controller", "authController", "script"}

ResidentRules == {Rule("IDOR Query", "findById", {"tenantId"}),
                  Rule("Hash Work Factor", "fewRounds", {}),
                  Rule("Cookie Flags", "cookie", {"cookieFlags"})}

GruvsRules == {Rule("Unlocked Mutation", "mutation", {"lock"}),
               Rule("Shell Invocation", "exec", {})}

ExcelencyRules == {Rule("CSV Serialization", "csv", {"sanitize"}),
                   Rule("Buffer Read", "readUpload", {})}

VGruvsRules == {Rule("Socket Mount", "dockerSocket", {}),
                Rule("Host Privileged Mode", "privileged", {}),
                Rule("Host Network", "hostNetwork", {})}

CollectFiles(tree) == Walk(tree, {"node_modules", ".git", "dist", ".next", "build", "coverage"}, FALSE)

OfKind(tree, files, kinds) == {p \in files : tree.kind[p] \in kinds}

FleetVulnerabilityAuditor(tree) ==
  LET files == CollectFiles(tree)
      Audit(rules, kinds) == Lines("FLEET_ENCLAVE_AUDIT", tree, OfKind(tree, files, kinds), rules, <<>>)
  IN  Audit(ResidentRules \cup GruvsRules, ScriptKinds)
      \cup Lines("FLEET_ENCLAVE_AUDIT", tree, files, ExcelencyRules, <<>>)
      \cup Audit(VGruvsRules, {"compose", "yaml", "dockerfile"})
-------------------------------------------------------------------------------
(* SupplyChainIntegrity and CVEIntelligence: the package.json of the root *)

PackageJson == <<"package.json">>
HasPackage(tree) == PackageJson \in DOMAIN tree.text

\* Names are sequences of letters.
Popular == {<<"l", "o">>, <<"r", "x", "j">>}

LevenshteinDistance(s1, s2) ==
  LET Least(a, b) == IF a <= b THEN a ELSE b
      track[c \in (0..Len(s2)) \X (0..Len(s1))] ==
        LET j == c[1]  i == c[2]
        IN  IF j = 0 THEN i
            ELSE IF i = 0 THEN j
            ELSE Least(Least(track[<<j, i - 1>>] + 1, track[<<j - 1, i>>] + 1),
                       track[<<j - 1, i - 1>>] + (IF s1[i] = s2[j] THEN 0 ELSE 1))
  IN  track[<<Len(s2), Len(s1)>>]

SupplyChainIntegrity(tree) ==
  IF ~HasPackage(tree) THEN {}
  ELSE {Finding("SUPPLY_CHAIN", "Typosquatting", ToRoot \o PackageJson, 1)
          : d \in {d \in tree.deps : \E n \in Popular : LevenshteinDistance(d.name, n) = 1}}
       \cup {Finding("SUPPLY_CHAIN", "Source Dependency", ToRoot \o PackageJson, 1)
          : d \in {d \in tree.deps : d.range = "git"}}

\* The version of the lock file, or the range without its operators.
ResolveDependencyVersions(tree) ==
  {<<d.name, IF d.locked # "none" THEN d.locked ELSE d.range>> : d \in tree.deps}

\* answer.advisories: what OSV has on a package at a version; none when the batch query
\* fails.  answer.details: the advisories whose details could be fetched.
QueryBatch(queries, answer) ==
  {a \in answer.advisories : <<a.name, a.version>> \in queries}

\* Promise.allSettled, eight at a time: one that fails is left out.
FetchVulnDetails(ids, answer) == ids \cap answer.details

CVEIntelligence(tree, answer) ==
  LET ids == {a.id : a \in QueryBatch(ResolveDependencyVersions(tree), answer)}
  IN  IF HasPackage(tree)
        THEN {Finding("CVE_INTELLIGENCE", id, PackageJson, 1) : id \in FetchVulnDetails(ids, answer)}
        ELSE {}
-------------------------------------------------------------------------------
(* SemgrepScanner: present or not *)

SemgrepScanner(tree, present) ==
  Lines("SEMGREP_SAST", tree,
        IF present THEN Walk(tree, {"node_modules", ".git", "dist", ".next"}, FALSE) ELSE {},
        {Rule("Semgrep Rule", "sast", {})}, <<>>)

\* All seven, as the orchestrator runs them.
ScanTree(tree, answer) ==
  SecretExcavator(tree) \cup IaCSecurity(tree) \cup CVEIntelligence(tree, answer)
  \cup SupplyChainIntegrity(tree) \cup AuthGuardAuditor(tree)
  \cup FleetVulnerabilityAuditor(tree) \cup SemgrepScanner(tree, answer.semgrep)
-------------------------------------------------------------------------------
(* What should be reported, said without walking or scanning upwards *)

\* Some directory on the way to the file is skipped, or its path contains an excluded
\* name, or a dangling link comes before it or before an ancestor of it.
PassedOver(tree, p, skip, excluded) ==
  \/ \E i \in 1..(Len(p) - 1) : p[i] \in skip
  \/ \E i \in DOMAIN p : Includes(p[i], excluded)
  \/ \E q \in tree.dangling :
       LET n == Len(q)
           At(name) == CHOOSE i \in DOMAIN tree.entries[SubSeq(q, 1, n - 1)] :
                         tree.entries[SubSeq(q, 1, n - 1)][i] = name
       IN  Len(p) >= n /\ SubSeq(p, 1, n - 1) = SubSeq(q, 1, n - 1) /\ At(q[n]) <= At(p[n])

\* Neither the decorators of the route nor those of the first class mention a guard.
Exposed(ls, i) ==
  /\ IsRoute(ls[i])
  /\ \A j \in 1..(i - 1) : "guard" \in ls[j] =>
       \E k \in (j + 1)..(i - 1) : IsRoute(ls[k]) \/ "@" \notin ls[k]
  /\ \A c \in DOMAIN ls : \A j \in 1..(c - 1) : "class" \in ls[c] /\ "guard" \in ls[j] =>
       \E k \in 1..(c - 1) : "class" \in ls[k] \/ (k > j /\ ls[k] # {} /\ "@" \notin ls[k])

OneEdit(a, b) ==
  LET Without(s, i) == SubSeq(s, 1, i - 1) \o SubSeq(s, i + 1, Len(s))
  IN  \/ \E i \in DOMAIN a : Without(a, i) = b
      \/ \E i \in DOMAIN b : Without(b, i) = a
      \/ Len(a) = Len(b) /\ Cardinality({i \in DOMAIN a : a[i] # b[i]}) = 1

Defective(tree, p, i, rules, kinds) ==
  {u.title : u \in IF tree.kind[p] \in kinds THEN Broken(rules, tree.text[p][i]) ELSE {}}

\* Per module: which titles the i-th line of file p deserves.
SoughtAt(tree, module, p, i) ==
  LET kind == tree.kind[p]
      line == tree.text[p][i]
      All == Text(tree, p)
      first == i = 1
  IN  CASE module = "SECRET_EXCAVATOR" /\ ~PassedOver(tree, p, SecretDirs, SecretDirs) ->
             Defective(tree, p, i, SecretRules \cup EntropyRules, SecretKinds)
        [] module = "IaC_SECURITY" /\ ~PassedOver(tree, p, {}, CallbackDirs) ->
             Defective(tree, p, i, ComposeRules, {"compose"})
             \cup (IF first /\ kind = "dockerfile" /\ "USER" \notin All
                     THEN {"Running as Root"} ELSE {})
             \cup (IF first /\ kind \in {"yaml", "compose"} /\ "apiVersion" \in All /\ "limits" \notin All
                     THEN {"Resource Limits"} ELSE {})
        [] module = "AUTH_GUARD_AUDIT" /\ ~PassedOver(tree, p, {}, CallbackDirs) /\ kind = "controller" ->
             (IF Exposed(tree.text[p], i) THEN {"Exposed Endpoint"} ELSE {})
             \cup (IF "rawQuery" \in line THEN {"Raw Query"} ELSE {})
        [] module = "FLEET_ENCLAVE_AUDIT" /\ ~ThroughLink(tree, p)
             /\ \A k \in DOMAIN p : p[k] \notin {"node_modules", ".git", "dist", ".next", "build", "coverage"} ->
             Defective(tree, p, i, ResidentRules \cup GruvsRules, ScriptKinds)
             \cup Defective(tree, p, i, ExcelencyRules, {kind})
             \cup Defective(tree, p, i, VGruvsRules, {"compose", "yaml", "dockerfile"})
        [] OTHER -> {}

\* What the five modules that depend on the tree alone should report of it.
SoughtIn(tree) ==
  (UNION {UNION {UNION {
      {Finding(m, t, (IF m = "IaC_SECURITY" THEN ToRoot ELSE <<>>) \o p, i) : t \in SoughtAt(tree, m, p, i)}
      : i \in DOMAIN tree.text[p]} : p \in DOMAIN tree.text}
    : m \in {"SECRET_EXCAVATOR", "IaC_SECURITY", "AUTH_GUARD_AUDIT", "FLEET_ENCLAVE_AUDIT"}})
  \cup {Finding("SECRET_EXCAVATOR", u.title, <<"(git history)">>, 0)
        : u \in {u \in SecretRules : \E line \in tree.history : u.pattern \in line /\ u.unless \cap line = {}}}
  \cup {Finding("SUPPLY_CHAIN", t, ToRoot \o PackageJson, 1) :
        t \in {t \in {"Typosquatting", "Source Dependency"} :
                 /\ PackageJson \in DOMAIN tree.text
                 /\ \E d \in tree.deps : IF t = "Typosquatting" THEN \E n \in Popular : OneEdit(d.name, n)
                                                                ELSE d.range = "git"}}
===============================================================================
