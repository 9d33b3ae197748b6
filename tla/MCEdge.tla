------------------------------- MODULE MCEdge -------------------------------
(***************************************************************************)
(* What the panel puts into the cluster besides the apps, side by side:    *)
(* the verdict of the guard's rules on one visit, the add-ons with the     *)
(* rules and tokens on their way to them, the rotation of the master key,  *)
(* what is read out of somebody's code, the pod that builds it, and the    *)
(* images the builds leave in the registry, with two commits that build to *)
(* the same image and no build left behind.  A behaviour is one part's;    *)
(* the parts share no state.                                               *)
(***************************************************************************)
EXTENDS Edge, EdgeRules, Secrets, Detect, BuildPod, Registry
CONSTANTS c1, c2

VARIABLE part

OwnedMC == [a1 |-> {"h1"}, a2 |-> {}]
EnvOfMC == [a1 |-> "n1", a2 |-> "n2"]
EMix(kinds, moves, faults) == [kinds |-> kinds, moves |-> moves, faults |-> faults]
EdgeMixesMC == {EMix({"install", "rules"}, 3, 0), EMix({"install", "rules", "domain"}, 3, 1),
                EMix({"install", "token", "gone", "crash"}, 4, 0), EMix({"install", "rules", "guard", "crash"}, 3, 0),
                EMix({"install", "token"}, 4, 1)}
DomainMixMC == {EMix({"install", "rules", "domain"}, 3, 0)}

Is(field, op, wanted) == [kind |-> "test", subs |-> <<>>, test |-> [field |-> field, op |-> op, wanted |-> wanted]]
Group(kind, subs) == [kind |-> kind, subs |-> subs, test |-> <<>>]
TestsMC == {Is("ip.country", "in", {"ID"}), Is("ip.asn", "not_in", {"AS1"}), Is("ip.src", "in", {"a1", "a2"}),
            Is("http.path", "starts_with", {"/admin"})}
\* A test the panel refuses, a pattern that does not compile, a group with nothing in it, no condition.
OddMC == {Is("ip.asn", "matches", {"AS1"}), Is("http.path", "matches", {"("}), Group("any", <<>>), Group("none", <<>>)}
PairsMC == {Group(k, <<x, y>>) : k \in {"any", "all"}, x \in TestsMC, y \in TestsMC}
ExprsMC == TestsMC \cup OddMC \cup PairsMC \cup {Group("not", <<e>>) : e \in PairsMC \cup TestsMC}
Rule(action, e, on) == [action |-> action, expr |-> e, enabled |-> on]
RuleSetsMC ==
    {[default |-> "block", rules |-> <<Rule("allow", e, TRUE)>>] : e \in ExprsMC} \cup
    {[default |-> "", rules |-> <<Rule("block", e, on), Rule("allow", f, TRUE)>>] :
        on \in BOOLEAN, e \in TestsMC \cup OddMC, f \in {Group("not", <<t>>) : t \in TestsMC}}
ForgedMC == {<<>>, <<"a2">>, <<"p1">>, <<"bad">>, <<"a2", "p2">>}
VisitsMC ==
    {[from |-> a, hops |-> h, forged |-> x, path |-> "/admin", tunnel |-> t, named |-> t] :
        a \in {"a1", "a3"}, h \in {<<>>, <<"p1">>, <<"p1", "p2">>}, x \in ForgedMC, t \in BOOLEAN}
    \cup {[from |-> "a2", hops |-> <<"p1">>, forged |-> <<>>, path |-> "/", tunnel |-> TRUE, named |-> FALSE]}
TrustsMC == {[proxies |-> {"p1", "p2"}, cloudflare |-> c] : c \in BOOLEAN} \cup {[proxies |-> {"p2"}, cloudflare |-> FALSE]}
CountryOfMC == [a1 |-> "ID", a2 |-> "NL", a3 |-> "NL", p1 |-> "NL", p2 |-> "", bad |-> ""]
NetworkOfMC == [a1 |-> "AS1", a2 |-> "AS2", a3 |-> "AS1", p1 |-> "", p2 |-> "", bad |-> ""]
LoadedMC == {{"ip.country", "ip.asn"}, {"ip.asn"}}
WithinMC == {<<"starts_with", "/admin", "/admin">>, <<"matches", "/admin", "/admin">>}

SMix(kinds, moves, rotations) == [kinds |-> kinds, moves |-> moves, rotations |-> rotations]
SecretMixesMC == {SMix({"write", "crash", "save"}, 3, 2), SMix({"write", "back", "update"}, 3, 2),
                  SMix({"write", "list", "crash", "delete"}, 3, 2), SMix({"write"}, 2, 3)}

BareMC == [files |-> {}, deps |-> {}, scripts |-> {}, parsed |-> TRUE, schema |-> [engine |-> "", variable |-> ""],
           connection |-> "", example |-> {}]
FilesMC == {<<"Dockerfile">>, <<"docker", "Dockerfile">>, <<"compose.yml">>, <<"package.json">>, <<"requirements.txt">>,
            <<"composer.json">>, <<"index.php">>, <<"dist", "index.html">>, <<"index.html">>}
LangFilesMC == {<<"go.mod">>, <<"Gemfile">>, <<"Cargo.toml">>, <<"pom.xml">>, <<"package.json">>}
\* Which files there are; what a package.json says; what it needs; a monorepo's.
FileTreesMC == {[BareMC EXCEPT !.files = fs] : fs \in SUBSET FilesMC \cup {{f, g} : f, g \in LangFilesMC}}
NodeTreesMC == {[BareMC EXCEPT !.files = {<<"package.json">>}, !.deps = ds, !.scripts = sc, !.parsed = ok] :
                ds \in SUBSET {<<"node", "next">>, <<"node", "express">>, <<"dev", "vite">>, <<"node", "react-scripts">>},
                sc \in SUBSET {"start", "build"}, ok \in BOOLEAN}
NeedTreesMC == {[BareMC EXCEPT !.files = fs, !.deps = ds, !.schema = sch, !.connection = c, !.example = ex] :
                fs \in {{<<"package.json">>}, {<<"package.json">>, <<"data", "db.sqlite">>}},
                ds \in SUBSET {<<"node", "pg">>, <<"node", "mysql2">>, <<"node", "@vercel/postgres">>, <<"dev", "prisma">>,
                               <<"node", "sqlite3">>, <<"python", "django">>},
                sch \in {[engine |-> "", variable |-> ""], [engine |-> "sqlite", variable |-> "DB"], [engine |-> "postgres", variable |-> "DB"]},
                c \in {"", "mysql", "sqlite"}, ex \in {{}, {"POSTGRES_URL", "PORT"}}}
RootTreesMC == {[BareMC EXCEPT !.files = fs] :
                fs \in SUBSET {<<"web", "Dockerfile">>, <<"web", "docker", "Dockerfile">>, <<"web", "index.html">>, <<"go.mod">>}}
TreesMC == FileTreesMC \cup NodeTreesMC \cup NeedTreesMC \cup RootTreesMC
NodeRulesMC == <<[dep |-> "next", port |-> 3000, dir |-> ""], [dep |-> "express", port |-> 3000, dir |-> ""],
                 [dep |-> "vite", port |-> 80, dir |-> "dist"], [dep |-> "react-scripts", port |-> 80, dir |-> "build"]>>
DriverRulesMC == <<[eco |-> "node", engine |-> "postgres", packages |-> <<"pg", "@vercel/postgres">>],
                   [eco |-> "node", engine |-> "mysql", packages |-> <<"mysql2">>],
                   [eco |-> "node", engine |-> "sqlite", packages |-> <<"sqlite3">>]>>
RootsMC == {<<>>, <<"web">>}
BuildsMC == [upload : BOOLEAN, builder : {"railpack", "dockerfile"}, old : BOOLEAN]

TwoAlike == [c \in Commits |-> IF c = c2 THEN c1 ELSE c]

AnyOf(S) == CHOOSE x \in S : TRUE
MCEdgeInit ==
    /\ part \in {"rules", "edge", "secrets", "code", "pod", "images"}
    /\ part = "rules" \/ asked = [visit |-> AnyOf(Visits), set |-> AnyOf(RuleSets), trust |-> AnyOf(Trusts),
                                  known |-> AnyOf(Loaded), verdict |-> {}]
    /\ part = "edge" \/ emix = AnyOf(EdgeMixes)
    /\ part = "secrets" \/ smix = AnyOf(SecretMixes)
    /\ part = "code" \/ request = [done |-> FALSE]
    /\ part = "pod" \/ build = AnyOf(Builds)
    /\ (part = "rules" => EdgeRulesInit) /\ EdgeInit /\ SecretInit /\ (part = "code" => DetectInit) /\ PodInit /\ Init
MCEdgeNext ==
    \/ part = "rules" /\ EdgeRulesNext /\ UNCHANGED <<edgeVars, secretVars, detectVars, podVars, vars, part>>
    \/ part = "edge" /\ EdgeNext /\ UNCHANGED <<edgeRuleVars, secretVars, detectVars, podVars, vars, part>>
    \/ part = "secrets" /\ SecretNext /\ UNCHANGED <<edgeRuleVars, edgeVars, detectVars, podVars, vars, part>>
    \/ part = "code" /\ DetectNext /\ UNCHANGED <<edgeRuleVars, edgeVars, secretVars, podVars, vars, part>>
    \/ part = "pod" /\ PodNext /\ UNCHANGED <<edgeRuleVars, edgeVars, secretVars, detectVars, vars, part>>
    \/ part = "images" /\ Next /\ UNCHANGED <<edgeRuleVars, edgeVars, secretVars, detectVars, podVars, part>>
\* A guard reloads on a ticker of its own, and the kubelet syncs its volumes.
EdgeFairness == WF_edgeVars(part = "edge" /\ GuardStep)
\* A running pod goes on to its end, and every wait of the panel has a limit.
PodFairness == WF_podVars(part = "pod" /\ PodStep) /\ WF_podVars(part = "pod" /\ PanelStep)
\* The fairness of Registry, asked of its part.
ImageFairness ==
    /\ \A n \in Ids : /\ WF_vars(part = "images" /\ DeployStep(n))
                      /\ WF_vars(part = "images" /\ BuildJobStep(n))
    /\ WF_vars(part = "images" /\ SweepDue)
    /\ WF_vars(part = "images" /\ SweepStep)
    /\ WF_vars(part = "images" /\ CollectorStep)
MCEdgeSpec == /\ MCEdgeInit
              /\ [][MCEdgeNext]_<<edgeRuleVars, edgeVars, secretVars, detectVars, podVars, vars, part>>
              /\ EdgeFairness /\ PodFairness /\ ImageFairness
PodOnly == MCEdgeSpec /\ part = "pod"
CodeOnly == MCEdgeSpec /\ part = "code"
EdgeOnly == MCEdgeSpec /\ part = "edge"
SecretsOnly == MCEdgeSpec /\ part = "secrets"
=============================================================================
