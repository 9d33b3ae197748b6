---------------------------- MODULE MCWorkloads -----------------------------
(* Apps, databases and environments, each on its own small instance; a     *)
(* behaviour is of one part and meets one mix of requests and faults.      *)
EXTENDS Apps, Databases, Environments

VARIABLE part

WMix(kinds, faults, overlap, asks, ports, deployed) ==
    [kinds |-> kinds, faults |-> faults, overlap |-> overlap, asks |-> asks,
     ports |-> ports, deployed |-> deployed]
AppMixesMC == {
    WMix({"update", "scale", "addDomain", "deleteDomain", "deploy"}, FALSE, FALSE, 3, {0, 8080}, {"a1"}),
    WMix({"scale", "addDomain"}, TRUE, FALSE, 2, {8080}, {"a1"}),
    WMix({"setVariable", "deleteVariable", "setShared", "deleteShared"}, FALSE, FALSE, 3, {8080}, {"a1", "a2"}),
    WMix({"createVolume", "deleteVolume", "setJob", "deleteJob", "scale"}, FALSE, FALSE, 3, {8080}, {"a1"}),
    WMix({"setJob", "deleteJob"}, TRUE, FALSE, 2, {8080}, {"a1"}),
    WMix({"create", "delete", "deploy", "run"}, TRUE, FALSE, 3, {0, 8080}, {"a2"}),
    WMix({"addDomain", "deleteDomain", "deploy", "settings"}, FALSE, FALSE, 4, {8080}, {"a1", "a2"}),
    WMix({"addDomain", "deploy", "settings"}, FALSE, TRUE, 2, {8080}, {"a1", "a2"})}
SharedMixMC == {WMix({"setShared"}, FALSE, FALSE, 1, {8080}, {"a1", "a2"})}
TypedHostsMC == {<<"own", "test">>, <<"a1", "10.0.0.1">>}

DMix(kinds, faults, overlap, early, asks, engine) ==
    [kinds |-> kinds, faults |-> faults, overlap |-> overlap, early |-> early, asks |-> asks, engine |-> engine]
DbMixesMC == {
    DMix({"createDb", "createApp", "deploy", "deleteDb", "deleteApp"}, {}, FALSE, FALSE, 5, "mysql"),
    DMix({"createDb", "get", "deleteDb"}, {"cluster", "restart"}, FALSE, TRUE, 3, "postgres"),
    DMix({"createDb", "createApp", "get", "deleteDb"}, {"cluster", "restart"}, FALSE, FALSE, 4, "redis"),
    DMix({"createDb", "createApp", "deploy", "link", "unlink", "deleteDb"}, {"rows"}, FALSE, TRUE, 6, "postgres"),
    DMix({"createDb", "get"}, {"cluster", "cut", "limit", "restart"}, TRUE, TRUE, 3, "postgres"),
    DMix({"createDb", "template", "deploy", "link", "unlink", "deleteDb"}, {"cluster"}, FALSE, TRUE, 4, "redis")}

EMix(kinds, faults, refusals, overlap, asks, events, host) ==
    [kinds |-> kinds, faults |-> faults, refusals |-> refusals, overlap |-> overlap, asks |-> asks,
     events |-> events, host |-> host, shared |-> {"sharedSecret"}]
EnvMixesMC == {
    EMix({"createProject", "deleteProject", "createEnv", "updateEnv", "deleteEnv"}, {}, 1, FALSE, 4, 0, "github"),
    EMix({}, {}, 0, FALSE, 0, 5, "github"),
    EMix({"hook"}, {}, 0, TRUE, 2, 2, "gitlab"),
    EMix({}, {"lose", "repeat", "secret", "age"}, 0, FALSE, 0, 2, "gitea"),
    EMix({}, {"reorder", "age"}, 1, FALSE, 0, 3, "github"),
    EMix({"deleteEnv"}, {"age"}, 0, TRUE, 1, 2, "github")}
ProjectSlugsMC == {<<"shop">>, <<"shop", "eu">>}
EnvSlugsMC == {<<"production">>, <<"eu", "production">>}
PullsMC == {[repo |-> "r1", number |-> 5, head |-> "r1"], [repo |-> "r1", number |-> 6, head |-> ""]}

AnyOf(S) == CHOOSE x \in S : TRUE

WorkloadsInit ==
    /\ part \in {"apps", "databases", "environments"}
    /\ AppInit /\ DbInit /\ EnvInit
    /\ part # "apps" => wmix = AnyOf(AppMixes)
    /\ part # "databases" => dbmix = AnyOf(DbMixes)
    /\ part # "environments" => emix = AnyOf(EnvMixes)

WorkloadsNext ==
    \/ part = "apps" /\ AppNext /\ UNCHANGED <<dbVars, envVars, part>>
    \/ part = "databases" /\ DbNext /\ UNCHANGED <<appVars, envVars, part>>
    \/ part = "environments" /\ EnvNext /\ UNCHANGED <<appVars, dbVars, part>>

\* Goroutines, requests and passes go on by themselves, time passes, and a refusal is not for
\* ever; nobody has to make the next request.
DbFairness == WF_dbVars(part = "databases" /\ DbWork)
EnvFairness == WF_envVars(part = "environments" /\ EnvWork)
WorkloadsSpec == /\ WorkloadsInit /\ [][WorkloadsNext]_<<appVars, dbVars, envVars, part>>
                 /\ DbFairness /\ EnvFairness
=============================================================================
