------------------------------ MODULE MCFindings ------------------------------
(***************************************************************************)
(* Findings for TLC: three small repositories that between them hold every *)
(* pattern, the uploads about them, and the lines pushed into them.        *)
(***************************************************************************)
EXTENDS Findings, TLC

CONSTANTS
  r1, r2, r3,
  MaxLinks  \* bound: links on one path that the system follows

\* Controllers: a guarded route, routes without a guard, one with a guard in a comment,
\* one with the guard below it; a class guarded across blank lines; generated code.
Controllers ==
  LET gen == <<"dist", "gen.controller.ts">>
      app == <<"app.controller.ts">>
      safe == <<"safe.controller.ts">>
      auth == <<"auth.controller.ts">>
      main == <<"src", "main.ts">>
  IN [entries |-> (<<>> :> <<"app.controller.ts", "auth.controller.ts", "dist", "package.json",
                             "safe.controller.ts", "src">>)
                  @@ (<<"dist">> :> <<"gen.controller.ts">>) @@ (<<"src">> :> <<"main.ts">>),
      kind |-> (app :> "controller") @@ (safe :> "controller") @@ (gen :> "controller")
               @@ (auth :> "authController") @@ (main :> "script")
               @@ (PackageJson :> "package"),
      text |-> (app :> <<{"@"}, {"class"}, {"@", "guard"}, {"@", "route"}, {"findById"},
                         {"@", "route"}, {"findById", "tenantId", "rawQuery", "sqlConcat"},
                         {"guard"}, {"@", "otherRoute"}, {"fewRounds", "cookie"},
                         {"@", "route"}, {"@", "guard"}, {"@", "otherRoute"}>>)
               @@ (safe :> <<{"@", "guard"}, {}, {"@"}, {"class"}, {"@", "route"}, {"exec"},
                             {"class"}, {"@", "route"}, {"cookie", "cookieFlags"}>>)
               @@ (gen :> <<{"class"}, {"@", "route"}>>)
               @@ (auth :> <<{"class"}, {"@", "route"}, {"mutation"}>>)
               @@ (main :> <<{"bootstrap", "helmet"}, {"assign", "hardcoded"}>>)
               @@ (PackageJson :> <<{}>>),
      links |-> {}, dangling |-> {}, history |-> {{"providerKey"}, {"privateKey", "placeholder"}},
      deps |-> {[name |-> <<"l", "o">>, range |-> "v1", locked |-> "v2"],
                [name |-> <<"l", "a">>, range |-> "git", locked |-> "none"],
                [name |-> <<"r", "j">>, range |-> "v1", locked |-> "none"]}]

\* Keys and configuration beside a dangling link, and behind it.
Secrets ==
  LET keys == <<"src", "keys.ts">>
      env == <<"src", "link.env">>
      deep == <<"lib", "inner", "a.ts">>
      late == <<"lib", "z.ts">>
      first == <<"lib", "a.ts">>
  IN [entries |-> (<<>> :> <<"lib", "src">>) @@ (<<"lib">> :> <<"a.ts", "gone", "inner", "z.ts">>)
                  @@ (<<"lib", "inner">> :> <<"a.ts">>) @@ (<<"src">> :> <<"keys.ts", "link.env">>),
      kind |-> (keys :> "script") @@ (env :> "env") @@ (deep :> "script") @@ (late :> "script")
               @@ (first :> "script"),
      text |-> (keys :> <<{"rsaKey"}, {"assign", "providerKey", "entropy"}, {"privateKey"},
                          {"assign", "entropy", "hardcoded"}, {"providerKey", "placeholder"}, {"ecKey"},
                          {"providerKey"}>>)
               @@ (env :> <<{"providerToken", "entropy"}>>)
               @@ (deep :> <<{"privateKey"}, {"csv"}>>)
               @@ (late :> <<{"privateKey"}, {"readUpload"}>>)
               @@ (first :> <<{"privateKey"}, {"csv", "sanitize"}, {"mutation", "lock"}>>),
      links |-> {env}, dangling |-> {<<"lib", "gone">>}, history |-> {}, deps |-> {}]

\* Containers; names that contain an excluded one; modules of other people; and a directory
\* with a link to itself.
Containers ==
  LET compose == <<"docker-compose.yml">>
      docker == <<"Dockerfile">>
      hub == <<".github", "ci.yml">>
      far == <<"distance", "pod.yaml">>
      pod == <<"deploy", "pod.yaml">>
      other == <<"node_modules", "x", "run.ts">>
      Deep(k) == [i \in 1..(k + 1) |-> IF i = 1 THEN "deploy" ELSE "again"]
      links == {Deep(k) : k \in 1..MaxLinks}
      pods == {Append(d, "pod.yaml") : d \in links}
  IN [entries |-> (<<>> :> <<".github", "Dockerfile", "deploy", "distance", "docker-compose.yml",
                             "node_modules">>)
                  @@ (<<".github">> :> <<"ci.yml">>) @@ [d \in {Deep(0)} \cup links |-> <<"again", "pod.yaml">>]
                  @@ (<<"distance">> :> <<"pod.yaml">>)
                  @@ (<<"node_modules">> :> <<"x">>) @@ (<<"node_modules", "x">> :> <<"run.ts">>),
      kind |-> (compose :> "compose") @@ (docker :> "dockerfile") @@ (hub :> "yaml")
               @@ (far :> "yaml") @@ (pod :> "yaml") @@ (other :> "script") @@ [p \in pods |-> "yaml"],
      text |-> (compose :> <<{"mysqlPort"}, {"dbPort", "port"}, {"privileged"}, {"hostNetwork"}>>)
               @@ (docker :> <<{}, {"dockerSocket"}>>)
               @@ (hub :> <<{"providerKey", "dockerSocket"}>>)
               @@ (far :> <<{"apiVersion"}, {"privileged"}>>)
               @@ [p \in {pod} \cup pods |-> <<{"apiVersion"}, {"sast", "hostNetwork"}>>]
               @@ (other :> <<{"exec", "privateKey"}>>),
      links |-> links, dangling |-> {Deep(MaxLinks + 1)}, history |-> {}, deps |-> {}]

MCTrees == {"controllers", "secrets", "containers"}
Base == [controllers |-> Controllers, secrets |-> Secrets, containers |-> Containers]
PushedInto == [controllers |-> <<"app.controller.ts">>, secrets |-> <<"src", "keys.ts">>,
               containers |-> <<"docker-compose.yml">>]

MCTreeAt ==
  [v \in [tree : MCTrees, pushed : 0..MaxPushes] |->
     [Base[v.tree] EXCEPT !.text[PushedInto[v.tree]] = [i \in 1..v.pushed |-> {}] \o @]]

\* The hypothesis of FixesAreOfTheirFindings: the trees of the run are as plain as it takes.
ASSUME PlainTrees == \A v \in Versions : PlainLines(TreeAt[v])

MCLookups == {[version |-> 4, groups |-> <<140, 82, 121, 4>>],
              [version |-> 4, groups |-> <<172, 16, 0, 1>>]}

Advisory(id, name, version) == [id |-> id, name |-> name, version |-> version]
MCAdvisories == {Advisory("GHSA-1", <<"l", "o">>, "v1"), Advisory("GHSA-2", <<"l", "o">>, "v2"),
                 Advisory("GHSA-3", <<"r", "j">>, "v1")}

\* OSV answers, not in full, or it does not; semgrep is installed or it is not.
MCAnswers == {[advisories |-> {}, details |-> {}, semgrep |-> TRUE],
              [advisories |-> MCAdvisories, details |-> {"GHSA-1", "GHSA-3"}, semgrep |-> FALSE]}

\* Below the root or in it, where a dangling link is, or not.
MCScanRuns ==
  [controllers |-> {<<<<"src">>, <<>>>>},
   secrets |-> {<<<<>>, <<>>>>},
   containers |-> {<<<<>>, <<>>>>}]

MCDropped == [controllers |-> {"other link"}, secrets |-> {}, containers |-> {}]

MCTyped ==
  [controllers |-> {},
   secrets |-> {<<"Private Key Block", <<"src", "keys.ts">>, 3>>,
                <<"Private Key Block", <<"", "src", "keys.ts">>, 3>>},
   containers |-> {<<"Database Port", <<"docker-compose.yml">>, 1>>,
                   <<"Database Port", <<"docker-compose.yml">>, 2>>,
                   <<"Database Port", <<"docker-compose.yml">>, 0>>}]

RequestSymmetry == Permutations(Requests)
===============================================================================
