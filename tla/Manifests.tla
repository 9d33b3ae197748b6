------------------------------ MODULE Manifests ------------------------------
(***************************************************************************)
(* What an app is in the cluster: the builders of kube/manifests.go,       *)
(* kube/scaletozero.go, kube/runjob.go and kube/podsecurity.go as          *)
(* functions of an app's specification, and what deploy/deployer.go makes  *)
(* of them on a cluster that already holds something: it applies the       *)
(* objects that are wanted, one after another, and then removes the ones   *)
(* that are not.                                                           *)
(***************************************************************************)
EXTENDS Naturals, FiniteSets, Sequences

None == "none"
NoObject == {}   \* a builder returns nil, or the set of the one object
Larger(a, b) == IF a > b THEN a ELSE b

-----------------------------------------------------------------------------
(* Which replicas, and whose.                                              *)

ScaleToZeroEnabled(s) == s.scaleToZero /\ s.port > 0 /\ s.domains # {}
ReplicasAreSomebodyElses(s) == s.autoscale \/ ScaleToZeroEnabled(s)
DesiredReplicas(s) == IF s.autoscale THEN Larger(s.min, 1) ELSE s.replicas

(* How tightly the container is held.                                      *)
AllowsRoot(s) == s.level = "baseline"
RunAsUser(s) == s.builtHere
RunAsNonRoot(s) == s.builtHere \/ ~AllowsRoot(s)
DropAllCapabilities(s) == s.builtHere \/ ~AllowsRoot(s)
UnprivilegedPortStart(s) == s.port > 0 /\ s.port < 1024 /\ DropAllCapabilities(s)
Confinement(s) == [user |-> RunAsUser(s), nonRoot |-> RunAsNonRoot(s),
                   drop |-> DropAllCapabilities(s), lowPorts |-> UnprivilegedPortStart(s)]

\* The limits of one resource: a limit, when there is one, is not below the request.
LimitAllows(s) == s.limit > 0 => s.limit >= s.request
BuildResources(s) == [request |-> s.request, limit |-> s.limit]

-----------------------------------------------------------------------------
(* AppSpec.Validate.                                                       *)
SpecIsValid(s) ==
    /\ s.image # None
    /\ s.autoscale => s.min >= 1 /\ s.max >= s.min /\ s.target > 0
    /\ LimitAllows(s)
    /\ \A v, w \in s.volumes : v.mount = w.mount => v = w
    /\ \A d, e \in s.domains : d.host = e.host => d = e

BuildDeployment(s) ==
   {[image |-> s.image, confinement |-> Confinement(s), resources |-> BuildResources(s),
     port |-> s.port, probed |-> s.port > 0,
     mounts |-> {<<v.name, v.mount>> : v \in s.volumes},
     strategy |-> IF s.volumes = {} THEN "rolling" ELSE "recreate",
     replicas |-> IF ReplicasAreSomebodyElses(s) THEN {} ELSE {DesiredReplicas(s)}]}

BuildService(s) == IF s.port = 0 THEN NoObject ELSE {[app |-> s.app]}

TlsHosts(s) == {d.host : d \in {e \in s.domains : e.tls}}
BuildIngress(s) ==
    IF s.port = 0 \/ s.domains = {} THEN NoObject
    ELSE {[hosts |-> {d.host : d \in s.domains}, tls |-> TlsHosts(s),
          redirect |-> TlsHosts(s) # {} /\ s.issuer,
          guarded |-> s.protected,
          backend |-> IF ScaleToZeroEnabled(s) THEN "wake" ELSE "service"]}

BuildHPA_Always(s) ==  \* mutant: an app that sleeps keeps a second autoscaler
    IF ~s.autoscale THEN NoObject ELSE {[min |-> Larger(s.min, 1), max |-> s.max, target |-> s.target]}
BuildHPA(s) == IF ~s.autoscale \/ ScaleToZeroEnabled(s) THEN NoObject
               ELSE {[min |-> Larger(s.min, 1), max |-> s.max, target |-> s.target]}

BuildPDB(s) == IF DesiredReplicas(s) < 2 /\ ~s.autoscale THEN NoObject ELSE {[unavailable |-> 1]}

BuildInterceptorService(s) == IF ScaleToZeroEnabled(s) THEN {[to |-> "keda"]} ELSE NoObject

BuildHTTPScaledObject(s) ==
    IF ~ScaleToZeroEnabled(s) THEN NoObject
    ELSE {[hosts |-> {d.host : d \in s.domains}, min |-> 0,
          max |-> IF ~s.autoscale \/ s.max < 1 THEN Larger(s.replicas, 1) ELSE s.max]}

BuildPVCs(s) == {[name |-> v.name, size |-> Larger(v.size, 1)] : v \in s.volumes}
BuildEnvSecret(values) == {[values |-> values]}

\* A run is the app's own container with another command, and never its label.
BuildRunJob(s, command) ==
    [image |-> s.image, command |-> command, confinement |-> Confinement(s),
     resources |-> BuildResources(s), mounts |-> {<<v.name, v.mount>> : v \in s.volumes},
     label |-> "run"]
BuildCronJob(s, j) == [run |-> BuildRunJob(s, j.command), schedule |-> j.schedule, overlap |-> FALSE]

-----------------------------------------------------------------------------
(* What the cluster holds of one app.                                      *)
Kinds == {"secret", "deployment", "service", "ingress", "hpa", "pdb", "wake", "scaled"}
EmptyCluster == [objects |-> [k \in Kinds |-> NoObject], claims |-> {}, crons |-> {}, runs |-> {}]

\* The order in which apply hands the objects to ApplyAll.
ApplyOrder == <<"secret", "claims", "deployment", "service", "ingress", "hpa", "pdb", "wake", "scaled">>

Built(s, values) ==
    [secret |-> BuildEnvSecret(values), deployment |-> BuildDeployment(s),
     service |-> BuildService(s), ingress |-> BuildIngress(s), hpa |-> BuildHPA(s),
     pdb |-> BuildPDB(s), wake |-> BuildInterceptorService(s), scaled |-> BuildHTTPScaledObject(s)]

\* The API server folds stringData into data, so the panel's apply owns no key of data: it sets
\* the keys it names and leaves the others, which the container gets through envFrom as well.
HeldValues(c) == UNION {o.values : o \in c.objects["secret"]}
PatchSecret(c, values) ==
    {[values |-> values \cup {h \in HeldValues(c) : \A v \in values : v[1] # h[1]}]}
SecretGives(c, values) == {h \in HeldValues(c) : \E v \in values : v[1] = h[1]} = values

\* ApplyAll skips what a builder left out; n of the order were applied before a failure.
ApplyAll(c, s, values, n) ==
    LET done == {ApplyOrder[i] : i \in 1..n}
        want == [k \in Kinds |-> IF k = "secret" THEN PatchSecret(c, values) ELSE Built(s, values)[k]]
        kept == {x \in c.claims : \A v \in BuildPVCs(s) : v.name # x.name}
    IN  [c EXCEPT !.objects = [k \in Kinds |-> IF k \in done /\ want[k] # NoObject
                                               THEN want[k] ELSE c.objects[k]],
                  !.claims = IF "claims" \in done THEN kept \cup BuildPVCs(s) ELSE c.claims]

\* Commands are applied one by one; a refused one is reported and passed over.
ApplyScheduledCommands(c, s, jobs, refused) ==
    LET wanted == {j \in jobs : j.enabled /\ j.name \notin refused}
    IN  {x \in c.crons : \A j \in wanted : x.name # j.name}
        \cup {[name |-> j.name, cron |-> BuildCronJob(s, j)] : j \in wanted}

\* The ones no longer wanted are removed; a refused one is not wanted either.
ApplyScheduledJobs(c, s, jobs, refused) ==
    [c EXCEPT !.crons = {x \in ApplyScheduledCommands(c, s, jobs, refused) :
        \E j \in jobs : j.enabled /\ j.name = x.name /\ j.name \notin refused}]

\* removeUnwanted asks the builders, except for the ingress.
RemoveUnwanted_AsksTheRow(c, s, failed) ==  \* mutant: asks whether autoscaling is off
    LET gone == (IF s.domains = {} THEN {"ingress"} ELSE {})
                \cup (IF ~s.autoscale THEN {"hpa"} ELSE {})
                \cup (IF BuildPDB(s) = NoObject THEN {"pdb"} ELSE {})
                \cup (IF ~ScaleToZeroEnabled(s) THEN {"wake", "scaled"} ELSE {})
    IN  [c EXCEPT !.objects = [k \in Kinds |-> IF k \in gone \ failed THEN NoObject ELSE @[k]]]
RemoveUnwanted(c, s, failed) ==
    LET gone == (IF s.domains = {} THEN {"ingress"} ELSE {})
                \cup (IF BuildHPA(s) = NoObject THEN {"hpa"} ELSE {})
                \cup (IF BuildPDB(s) = NoObject THEN {"pdb"} ELSE {})
                \cup (IF ~ScaleToZeroEnabled(s) THEN {"wake", "scaled"} ELSE {})
    IN  [c EXCEPT !.objects = [k \in Kinds |-> IF k \in gone \ failed THEN NoObject ELSE @[k]]]

\* Client.DeleteApp, in its order; the runs come last, and the claims stay.
DeleteOrder == <<"ingress", "wake", "scaled", "hpa", "pdb", "service", "deployment", "secret">>
DeleteRuns(c) == [c EXCEPT !.crons = {}, !.runs = {}]
DeleteApp(c, n) ==
    LET left == [c EXCEPT !.objects = [k \in Kinds |-> IF \E i \in 1..n : DeleteOrder[i] = k THEN NoObject ELSE @[k]]]
    IN  IF n = Len(DeleteOrder) THEN DeleteRuns(left) ELSE left

\* Cluster.Manifests: the same objects, without the secret.
RenderedManifests(s, jobs) ==
    [objects |-> [k \in Kinds \ {"secret"} |-> Built(s, {})[k]], claims |-> BuildPVCs(s),
     crons |-> {[name |-> j.name, cron |-> BuildCronJob(s, j)] : j \in {i \in jobs : i.enabled}}]
=============================================================================
