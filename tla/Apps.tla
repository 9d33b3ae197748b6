-------------------------------- MODULE Apps --------------------------------
(***************************************************************************)
(* An app's rows and what the cluster holds of it.  Every handler that     *)
(* changes an app (api/apps_handlers.go, api/deploy_handlers.go) reads a   *)
(* row, writes one and then asks the deployer to Sync, which reads every   *)
(* row again, builds the specification and brings the cluster to it        *)
(* (deploy/deployer.go, deploy/run.go, cluster/cluster.go).  Most handlers *)
(* only log a Sync that failed; a few never ask for one.                   *)
(***************************************************************************)
EXTENDS Manifests

CONSTANTS
    AppIds,     \* the apps of one project
    AppCallers, \* requests that may be in progress at once
    TypedHosts, \* hostnames people type
    AppMixes    \* what a behaviour meets

AppKinds == {"create", "update", "scale", "setVariable", "deleteVariable", "setShared",
             "deleteShared", "addDomain", "deleteDomain", "createVolume", "deleteVolume",
             "setJob", "deleteJob", "run", "deploy", "delete", "settings"}

ASSUME AppMixesAssumption ==
    AppMixes \subseteq [kinds : SUBSET AppKinds, faults : BOOLEAN, overlap : BOOLEAN,
                        asks : Nat, ports : SUBSET Nat, deployed : SUBSET AppIds]

VARIABLES
    stored,  \* stored[a]: the app's row, variables, domains, volumes, jobs, last success
    shared,  \* the project's shared variables
    setting, \* the wildcard domain and the cluster's address
    cluster, \* cluster[a]: what the cluster holds of it
    keda,    \* the component row of scale to zero
    request, \* request[q]: a handler in progress
    lagging, \* history: apps whose last change did not reach the cluster
    asked, wmix

appVars == <<stored, shared, setting, cluster, keda, request, lagging, asked, wmix>>

Keys == {"KEY"}
Values == {"x", "y"}
NoRow == [image |-> None]
NoHost == <<>>
NoApp == [on |-> FALSE, row |-> NoRow, vars |-> {}, domains |-> {}, volumes |-> {}, jobs |-> {}, last |-> None]
NoRequest == [kind |-> None, at |-> "off", a |-> None, row |-> NoRow, change |-> None,
              image |-> None, spec |-> None, values |-> {}, left |-> {}]

\* What handleCreateApp gives a new app: a port, one replica, no autoscaling.
DefaultAppPort == 8080
NewApp(port) ==
    [port |-> IF port = 0 THEN DefaultAppPort ELSE port, request |-> 1, limit |-> 4, image |-> None, builtHere |-> TRUE,
     replicas |-> 1, autoscale |-> FALSE, min |-> 1, max |-> 3, target |-> 75,
     scaleToZero |-> FALSE]

Exists(a) == stored[a].on
HostsInUse == UNION {{d.host : d \in stored[a].domains} : a \in AppIds}
DomainOwner(h) == {a \in AppIds : \E d \in stored[a].domains : d.host = h}

-----------------------------------------------------------------------------
(* The statements of store/apps.go, as what they leave of an app's rows.   *)
PutVariable(rows, c) == {v \in rows : v.key # c.key} \cup {c}
DropVariable(rows, key) == {v \in rows : v.key # key}
PutShared(rows, c) == {s \in rows : s[1] # c[1]} \cup {c}
DropShared(rows, key) == {s \in rows : s[1] # key}
PutDomain(rows, c) == rows \cup {c}
DropDomain(rows, gone) == rows \ gone
SetAutoDomain(rows, h, tls) == {d \in rows : ~d.auto} \cup {[host |-> h, tls |-> tls, auto |-> TRUE]}
PutVolume(rows, c) == rows \cup {[c EXCEPT !.size = Larger(@, 1)]}
DropVolume(rows, name) == {v \in rows : v.name # name}
PutJob(rows, c) == {j \in rows : j.name # c.name} \cup {c}
DropJob(rows, name) == {j \in rows : j.name # name}
SaveRow(a, row) == stored' = IF Exists(a) THEN [stored EXCEPT ![a].row = row] ELSE stored
\* Everything that hangs on an app goes with its row.
DropApp(a) == stored' = [stored EXCEPT ![a] = NoApp]

-----------------------------------------------------------------------------
(* The automatic address.                                                  *)

\* autoHostname: under the wildcard domain, else under the address, else none.
AutoHostname(a, own) ==
    LET base == IF setting.wildcard # None THEN setting.wildcard ELSE setting.address
    IN  IF base = None THEN NoHost ELSE IF own THEN <<a, "id", base>> ELSE <<a, base>>
Candidates(a) == {h \in {AutoHostname(a, FALSE), AutoHostname(a, TRUE)} : h # NoHost}
Free(h, a) == DomainOwner(h) \subseteq {a}
FreeAutoHostname(a) ==
    IF Candidates(a) = {} THEN NoHost
    ELSE IF Free(AutoHostname(a, FALSE), a) THEN AutoHostname(a, FALSE)
    ELSE IF Free(AutoHostname(a, TRUE), a) THEN AutoHostname(a, TRUE) ELSE NoHost

AutoDomains(a) == {d \in stored[a].domains : d.auto}
AutoTls == setting.wildcard # None

\* What EnsureAutoDomain leaves of an app's domains; a hostname in use refuses the write.
EnsureAutoDomain_Preferred(a) ==  \* mutant: the longer address an app has is not accepted
    LET now == AutoDomains(a)
        h == FreeAutoHostname(a)
    IN  IF \/ \E d \in now : d.tls = AutoTls /\ d.host = AutoHostname(a, FALSE)
           \/ h = NoHost \/ h \in HostsInUse
        THEN stored[a].domains ELSE SetAutoDomain(stored[a].domains, h, AutoTls)
EnsureAutoDomain(a) ==
    LET now == AutoDomains(a)
        h == FreeAutoHostname(a)
    IN  IF \/ \E d \in now : d.tls = AutoTls /\ d.host \in Candidates(a)
           \/ h = NoHost
           \/ h \in HostsInUse \ {d.host : d \in now}
        THEN stored[a].domains ELSE SetAutoDomain(stored[a].domains, h, AutoTls)

-----------------------------------------------------------------------------
(* The specification and the variables of an app, read from its rows.      *)
SpecFor(a, row, image) ==
    [app |-> a, image |-> image, port |-> row.port, replicas |-> row.replicas,
     request |-> row.request, limit |-> row.limit, autoscale |-> row.autoscale,
     min |-> row.min, max |-> row.max, target |-> row.target,
     scaleToZero |-> row.scaleToZero, level |-> "restricted", builtHere |-> row.builtHere,
     volumes |-> stored[a].volumes, domains |-> stored[a].domains,
     protected |-> FALSE, issuer |-> FALSE]

\* The shared ones first, then the app's own over them.
RuntimeVariables(a) ==
    LET own == {<<v.key, v.value>> : v \in stored[a].vars}
    IN  own \cup {s \in shared : \A v \in stored[a].vars : v.key # s[1]}

-----------------------------------------------------------------------------
(* Requests.                                                               *)
Ended(q) == request' = [request EXCEPT ![q] = NoRequest]
To(q, where) == request' = [request EXCEPT ![q].at = where]
SyncThese(q, apps) == request' = [request EXCEPT ![q].at = "sync", ![q].left = apps]
At(q, where) == request[q].at = where
AtOne(q, kinds) == At(q, "write") /\ request[q].kind \in kinds
Idle == \A q \in AppCallers : At(q, "off")

Scaling(r, au, mn, mx, z) ==
    [replicas |-> r, autoscale |-> au, min |-> mn, max |-> mx, target |-> 75, scaleToZero |-> z]
Scalings == {Scaling(1, FALSE, 1, 3, FALSE), Scaling(2, FALSE, 1, 3, FALSE),
             Scaling(1, TRUE, 1, 3, FALSE), Scaling(1, TRUE, 1, 3, TRUE),
             Scaling(2, FALSE, 1, 3, TRUE), Scaling(1, TRUE, 2, 1, FALSE),
             Scaling(1, TRUE, 2, 3, TRUE)}
\* validateScaling
ScalingIsValid(s) == /\ s.autoscale => s.min >= 1 /\ s.max >= s.min /\ s.target > 0
                     /\ ~(s.scaleToZero /\ s.autoscale /\ s.min > 1)

Changes(kind) ==
    CASE kind = "create" -> {[port |-> p, vars |-> vs] : p \in wmix.ports,
                                vs \in {{}, {[key |-> "KEY", value |-> "x", build |-> FALSE]}}}
      [] kind = "update" -> {[port |-> p, limit |-> l] : p \in wmix.ports, l \in {0, 4}}
      [] kind = "scale" -> Scalings
      [] kind = "setVariable" -> [key : Keys, value : Values, build : BOOLEAN]
      [] kind = "setShared" -> Keys \X Values
      [] kind \in {"deleteVariable", "deleteShared"} -> Keys
      [] kind = "addDomain" -> [host : TypedHosts, tls : BOOLEAN, auto : {FALSE}]
      [] kind = "deleteDomain" -> HostsInUse
      [] kind = "createVolume" -> [name : {"data", "logs"}, mount : {"/data"}, size : {0}]
      [] kind = "deleteVolume" -> {"data", "logs"}
      [] kind = "setJob" -> [name : {"nightly"}, command : {"go"}, schedule : {"03:00", None}, enabled : BOOLEAN]
      [] kind = "deleteJob" -> {"nightly"}
      [] kind = "settings" -> [wildcard : {None, "apps.test"}, address : {"10.0.0.1"}]
      [] OTHER -> {None}

\* authorizeApp reads the row the handler goes on with.
Begin(q, kind, a, c) ==
    /\ At(q, "off") /\ kind \in wmix.kinds /\ asked < wmix.asks
    /\ ~wmix.overlap => Idle
    /\ Exists(a) <=> kind # "create"
    /\ request' = [request EXCEPT ![q] = [NoRequest EXCEPT !.kind = kind, !.at = "write",
                       !.a = a, !.row = stored[a].row, !.change = c]]
    /\ asked' = asked + 1
    /\ UNCHANGED <<stored, shared, setting, cluster, keda, lagging, wmix>>

AppInit ==
    /\ wmix \in AppMixes
    /\ shared = {} /\ asked = 0 /\ lagging = {} /\ keda = "missing"
    /\ setting = [wildcard |-> None, address |-> "10.0.0.1"]
    /\ stored = [a \in AppIds |->
          IF a \in wmix.deployed
          THEN [NoApp EXCEPT !.on = TRUE, !.row = NewApp(CHOOSE p \in wmix.ports : p > 0), !.last = "v1"]
          ELSE NoApp]
    /\ cluster = [a \in AppIds |->
          IF a \in wmix.deployed THEN ApplyAll(EmptyCluster, SpecFor(a, stored[a].row, "v1"), {}, 9)
          ELSE EmptyCluster]
    /\ request = [q \in AppCallers |-> NoRequest]

-----------------------------------------------------------------------------
(* The writes, one action per handler.                                     *)

\* handleCreateApp: the row, then the variables it came with, as far as their names are usable;
\* its databases, its webhook and its first deployment are requests of their own.
CreateApp(q) ==
    /\ AtOne(q, {"create"})
    /\ stored' = [stored EXCEPT ![request[q].a] = [NoApp EXCEPT !.on = TRUE, !.row = NewApp(request[q].change.port)]]
    /\ To(q, "variables")
    /\ UNCHANGED <<shared, setting, cluster, keda, lagging, asked, wmix>>

SetInitialVariables(q, usable) ==
    LET a == request[q].a
    IN  /\ At(q, "variables")
        /\ stored' = IF usable /\ Exists(a) THEN [stored EXCEPT ![a].vars = request[q].change.vars] ELSE stored
        /\ Ended(q)
        /\ UNCHANGED <<shared, setting, cluster, keda, lagging, asked, wmix>>

\* applyResourceChanges: the bounds an edited row has to keep.
ApplyResourceChanges(row) == LimitAllows(row)

\* handleUpdateApp writes back the whole row it read, with its edits.
UpdateApp(q) ==
    LET a == request[q].a
        row == [request[q].row EXCEPT !.port = request[q].change.port, !.limit = request[q].change.limit]
    IN  /\ AtOne(q, {"update"})
        /\ IF ApplyResourceChanges(row) /\ Exists(a)
           THEN SaveRow(a, row) /\ SyncThese(q, {a})
           ELSE UNCHANGED stored /\ Ended(q)
        /\ UNCHANGED <<shared, setting, cluster, keda, lagging, asked, wmix>>

\* handleSetScaling: KEDA first, and nothing is changed when it cannot be had.
SetScaling(q) ==
    LET a == request[q].a
        c == request[q].change
        row == [request[q].row EXCEPT !.replicas = c.replicas, !.autoscale = c.autoscale,
                   !.min = c.min, !.max = c.max, !.target = c.target, !.scaleToZero = c.scaleToZero]
    IN  /\ AtOne(q, {"scale"})
        /\ \E ok \in (IF wmix.faults /\ keda # "installed" THEN BOOLEAN ELSE {TRUE}) :
              /\ keda' = IF ~(ScalingIsValid(c) /\ c.scaleToZero) THEN keda
                         ELSE IF ok THEN "installed" ELSE "failed"
              /\ IF ScalingIsValid(c) /\ (c.scaleToZero => ok) /\ Exists(a)
                 THEN SaveRow(a, row) /\ SyncThese(q, {a})
                 ELSE UNCHANGED stored /\ Ended(q)
        /\ UNCHANGED <<shared, setting, cluster, lagging, asked, wmix>>

\* handleSetVariable and handleDeleteVariable: one that only the build reads is not synced.
SetVariable(q) ==
    LET a == request[q].a
        c == request[q].change
    IN  /\ AtOne(q, {"setVariable"}) /\ Exists(a)
        /\ stored' = [stored EXCEPT ![a].vars = PutVariable(@, c)]
        /\ IF c.build THEN Ended(q) /\ lagging' = lagging \cup {a}
           ELSE SyncThese(q, {a}) /\ UNCHANGED lagging
        /\ UNCHANGED <<shared, setting, cluster, keda, asked, wmix>>

DeleteVariable(q) ==
    LET a == request[q].a
        rows == DropVariable(stored[a].vars, request[q].change)
    IN  /\ AtOne(q, {"deleteVariable"})
        /\ stored' = [stored EXCEPT ![a].vars = rows]
        /\ IF rows = stored[a].vars THEN Ended(q) ELSE SyncThese(q, {a})
        /\ UNCHANGED <<shared, setting, cluster, keda, lagging, asked, wmix>>

\* ListAppsForProject: prefixColumns cuts the list of columns at every comma, also the one in
\* COALESCE(git_source_id,''), and SQLite refuses the statement: the handler gets no apps.
ListAppsForProject == {}
SharedLag == lagging \cup ({a \in AppIds : Exists(a)} \ ListAppsForProject)

\* handleSetSharedVariable syncs the apps it is given; deleting one syncs none.
SetSharedVariable(q) ==
    LET c == request[q].change
    IN  /\ AtOne(q, {"setShared"})
        /\ shared' = PutShared(shared, c)
        /\ lagging' = IF shared' = shared THEN lagging ELSE SharedLag
        /\ SyncThese(q, ListAppsForProject)
        /\ UNCHANGED <<stored, setting, cluster, keda, asked, wmix>>

DeleteSharedVariable(q) ==
    /\ AtOne(q, {"deleteShared"})
    /\ shared' = DropShared(shared, request[q].change)
    /\ lagging' = IF shared' = shared THEN lagging ELSE lagging \cup {a \in AppIds : Exists(a)}
    /\ Ended(q)
    /\ UNCHANGED <<stored, setting, cluster, keda, asked, wmix>>

\* handleAddDomain: a hostname belongs to one app; handleDeleteDomain keeps the automatic one.
AddDomain(q) ==
    LET a == request[q].a
        c == request[q].change
    IN  /\ AtOne(q, {"addDomain"})
        /\ IF c.host \in HostsInUse \/ ~Exists(a) THEN UNCHANGED stored /\ Ended(q)
           ELSE stored' = [stored EXCEPT ![a].domains = PutDomain(@, c)] /\ SyncThese(q, {a})
        /\ UNCHANGED <<shared, setting, cluster, keda, lagging, asked, wmix>>

DeleteDomain(q) ==
    LET a == request[q].a
        gone == {d \in stored[a].domains : d.host = request[q].change /\ ~d.auto}
    IN  /\ AtOne(q, {"deleteDomain"})
        /\ stored' = [stored EXCEPT ![a].domains = DropDomain(@, gone)]
        /\ IF gone = {} THEN Ended(q) ELSE SyncThese(q, {a})
        /\ UNCHANGED <<shared, setting, cluster, keda, lagging, asked, wmix>>

\* handleCreateVolume asks for a free name, not for a free mount path.
CreateVolume(q) ==
    LET a == request[q].a
        c == request[q].change
    IN  /\ AtOne(q, {"createVolume"})
        /\ IF ~Exists(a) \/ \E v \in stored[a].volumes : v.name = c.name THEN UNCHANGED stored /\ Ended(q)
           ELSE stored' = [stored EXCEPT ![a].volumes = PutVolume(@, c)] /\ SyncThese(q, {a})
        /\ UNCHANGED <<shared, setting, cluster, keda, lagging, asked, wmix>>

\* handleDeleteVolume forgets the row; the next Sync unmounts it.
DeleteVolume(q) ==
    LET a == request[q].a
        rows == DropVolume(stored[a].volumes, request[q].change)
    IN  /\ AtOne(q, {"deleteVolume"})
        /\ stored' = [stored EXCEPT ![a].volumes = rows]
        /\ lagging' = IF rows = stored[a].volumes THEN lagging ELSE lagging \cup {a}
        /\ Ended(q)
        /\ UNCHANGED <<shared, setting, cluster, keda, asked, wmix>>

\* The handlers of scheduled commands; a name is one command.  buildAppJob: one without a name,
\* a command or a readable schedule is refused.
BuildAppJob(c) == IF c.schedule = None \/ c.command = None THEN {} ELSE {c}
SyncAfterJobChange(q) == SyncThese(q, {request[q].a})
SetJob(q) ==
    LET a == request[q].a
    IN  /\ AtOne(q, {"setJob"}) /\ Exists(a)
        /\ IF BuildAppJob(request[q].change) = {} THEN UNCHANGED stored /\ Ended(q)
           ELSE stored' = [stored EXCEPT ![a].jobs = PutJob(@, request[q].change)] /\ SyncAfterJobChange(q)
        /\ UNCHANGED <<shared, setting, cluster, keda, lagging, asked, wmix>>

DeleteJob(q) ==
    LET a == request[q].a
        rows == DropJob(stored[a].jobs, request[q].change)
    IN  /\ AtOne(q, {"deleteJob"})
        /\ stored' = [stored EXCEPT ![a].jobs = rows]
        /\ IF rows = stored[a].jobs THEN Ended(q) ELSE SyncAfterJobChange(q)
        /\ UNCHANGED <<shared, setting, cluster, keda, lagging, asked, wmix>>

\* RunOnce: a command in the app's own image, or in the one that last succeeded.
RunSpecFor(a) == IF ~Exists(a) \/ stored[a].last = None THEN {}
                 ELSE {SpecFor(a, stored[a].row, stored[a].last)}
RunOnce(q) ==
    LET a == request[q].a
    IN  /\ AtOne(q, {"run"})
        /\ cluster' = [cluster EXCEPT ![a].runs = @ \cup {BuildRunJob(s, "once") : s \in RunSpecFor(a)}]
        /\ Ended(q)
        /\ UNCHANGED <<stored, shared, setting, keda, lagging, asked, wmix>>

\* An operator sets the wildcard domain or the address; addresses move at the next apply.
ChangeSettings(q) ==
    /\ AtOne(q, {"settings"})
    /\ setting' = request[q].change
    /\ lagging' = IF setting' = setting THEN lagging ELSE AppIds
    /\ Ended(q)
    /\ UNCHANGED <<stored, shared, cluster, keda, asked, wmix>>

\* handleDeleteApp: the cluster first, its failure only logged; the row and all that hangs on it.
DeleteAppObjects(q, n) ==
    LET a == request[q].a
    IN  /\ AtOne(q, {"delete"})
        /\ n = Len(DeleteOrder) \/ wmix.faults
        /\ cluster' = [cluster EXCEPT ![a] = DeleteApp(@, n)]
        /\ To(q, "row")
        /\ UNCHANGED <<stored, shared, setting, keda, lagging, asked, wmix>>

DeleteAppRow(q) ==
    /\ At(q, "row")
    /\ DropApp(request[q].a)
    /\ Ended(q)
    /\ UNCHANGED <<shared, setting, cluster, keda, lagging, asked, wmix>>

-----------------------------------------------------------------------------
(* Sync, and a deployment's own apply: both end in Deployer.apply.         *)

\* Sync reads the row and the image that last succeeded; without one it has nothing to do.
SyncBegin(q) ==
    /\ At(q, "sync")
    /\ IF request[q].left = {} THEN Ended(q) /\ UNCHANGED lagging
       ELSE \E a \in request[q].left :
              /\ request' = [request EXCEPT ![q].left = @ \ {a}, ![q].a = a, ![q].row = stored[a].row,
                     ![q].at = IF Exists(a) /\ stored[a].last # None THEN "domain" ELSE "sync",
                     ![q].image = stored[a].last]
              /\ lagging' = lagging \ {a}
    /\ UNCHANGED <<stored, shared, setting, cluster, keda, asked, wmix>>

\* A deployment applies the image it has just built.
StartDeploy(q) ==
    /\ AtOne(q, {"deploy"})
    /\ request' = [request EXCEPT ![q].at = "domain", ![q].image = "v2"]
    /\ lagging' = lagging \ {request[q].a}
    /\ UNCHANGED <<stored, shared, setting, cluster, keda, asked, wmix>>

GiveAutoDomain(q) ==
    LET a == request[q].a
    IN  /\ At(q, "domain")
        /\ stored' = IF Exists(a) THEN [stored EXCEPT ![a].domains = EnsureAutoDomain(a)] ELSE stored
        /\ To(q, "read")
        /\ UNCHANGED <<shared, setting, cluster, keda, lagging, asked, wmix>>

Apart(q) == IF request[q].kind = "deploy" THEN "off" ELSE "sync"
Missed(q) == lagging' = lagging \cup {request[q].a}

\* SpecFor and runtimeVariables; a specification that does not validate ends it.
ReadSpec(q) ==
    LET a == request[q].a
        spec == SpecFor(a, request[q].row, request[q].image)
    IN  /\ At(q, "read")
        /\ IF SpecIsValid(spec) /\ Exists(a)
           THEN /\ request' = [request EXCEPT ![q].at = "apply", ![q].spec = spec,
                                              ![q].values = RuntimeVariables(a)]
                /\ UNCHANGED lagging
           ELSE /\ Missed(q)
                /\ IF Apart(q) = "off" THEN Ended(q) ELSE To(q, "sync")
        /\ UNCHANGED <<stored, shared, setting, cluster, keda, asked, wmix>>

ApplyObjects(q, n) ==
    LET a == request[q].a
        r == request[q]
    IN  /\ At(q, "apply")
        /\ n = Len(ApplyOrder) \/ wmix.faults
        /\ cluster' = [cluster EXCEPT ![a] = ApplyAll(@, r.spec, r.values, n)]
        /\ IF n = Len(ApplyOrder) THEN To(q, "jobs") /\ UNCHANGED lagging
           ELSE Missed(q) /\ IF Apart(q) = "off" THEN Ended(q) ELSE To(q, "sync")
        /\ UNCHANGED <<stored, shared, setting, keda, asked, wmix>>

\* Refused commands are logged; a list that fails leaves the old ones.
ApplyJobs(q, refused, listed) ==
    LET a == request[q].a
        c == cluster[a]
        jobs == stored[a].jobs
    IN  /\ At(q, "jobs")
        /\ (refused = {} /\ listed) \/ wmix.faults
        /\ cluster' = [cluster EXCEPT ![a] =
              IF listed THEN ApplyScheduledJobs(c, request[q].spec, jobs, refused)
              ELSE [c EXCEPT !.crons = ApplyScheduledCommands(c, request[q].spec, jobs, refused)]]
        /\ To(q, "remove")
        /\ IF refused = {} /\ listed THEN UNCHANGED lagging ELSE Missed(q)
        /\ UNCHANGED <<stored, shared, setting, keda, asked, wmix>>

\* A removal that fails is logged.  Then the rollout is waited for: only the answer depends on it.
Remove(q, failed) ==
    LET a == request[q].a
    IN  /\ At(q, "remove")
        /\ failed = {} \/ wmix.faults
        /\ cluster' = [cluster EXCEPT ![a] = RemoveUnwanted(@, request[q].spec, failed)]
        /\ IF failed = {} THEN UNCHANGED lagging ELSE Missed(q)
        /\ To(q, "rollout")
        /\ UNCHANGED <<stored, shared, setting, keda, asked, wmix>>

\* A deployment that rolled out is the one the next Sync applies.
Rollout(q, ready) ==
    LET a == request[q].a
    IN  /\ At(q, "rollout")
        /\ ready \/ wmix.faults
        /\ IF request[q].kind = "deploy"
           THEN /\ stored' = IF ready /\ Exists(a) THEN [stored EXCEPT ![a].last = "v2"] ELSE stored
                /\ lagging' = IF ready THEN lagging ELSE lagging \cup {a}
                /\ Ended(q)
           ELSE To(q, "sync") /\ UNCHANGED <<stored, lagging>>
        /\ UNCHANGED <<shared, setting, cluster, keda, asked, wmix>>

-----------------------------------------------------------------------------
AppNext ==
    \/ \E q \in AppCallers, kind \in AppKinds, a \in AppIds : \E c \in Changes(kind) : Begin(q, kind, a, c)
    \/ \E q \in AppCallers :
          \/ CreateApp(q) \/ (\E usable \in BOOLEAN : SetInitialVariables(q, usable)) \/ UpdateApp(q) \/ SetScaling(q) \/ SetVariable(q) \/ DeleteVariable(q)
          \/ SetSharedVariable(q) \/ DeleteSharedVariable(q) \/ AddDomain(q) \/ DeleteDomain(q)
          \/ CreateVolume(q) \/ DeleteVolume(q) \/ SetJob(q) \/ DeleteJob(q) \/ RunOnce(q) \/ ChangeSettings(q)
          \/ \E n \in 0..Len(DeleteOrder) : DeleteAppObjects(q, n)
          \/ DeleteAppRow(q) \/ SyncBegin(q) \/ StartDeploy(q) \/ GiveAutoDomain(q) \/ ReadSpec(q)
          \/ \E n \in 0..Len(ApplyOrder) : ApplyObjects(q, n)
          \/ \E refused \in SUBSET {"nightly"}, listed \in BOOLEAN : ApplyJobs(q, refused, listed)
          \/ \E failed \in SUBSET {"ingress", "hpa"} : Remove(q, failed)
          \/ \E ready \in BOOLEAN : Rollout(q, ready)

AppSpec == AppInit /\ [][AppNext]_appVars

-----------------------------------------------------------------------------
(* Properties.                                                             *)

(* When no request is in progress, the cluster holds what an app's rows    *)
(* and the image of its last success make: no autoscaler, disruption       *)
(* budget, route, waker or scheduled command of an earlier configuration   *)
(* is left behind, and each of its variables has its value in the secret   *)
(* (a variable that was deleted is still there, see OnlyItsVariables).  A  *)
(* failed Sync is made good by the next one that ends well.  Requests come *)
(* one after another; lagging are the apps whose last Sync failed, and the *)
(* ones changed by a handler that does not sync.  The Service and the      *)
(* Ingress of an app whose port was taken away are the exception, see      *)
(* NothingIsLeftBehind.                                                    *)
ClusterShowsTheRows ==
    Idle /\ ~wmix.overlap => \A a \in AppIds :
        Exists(a) /\ stored[a].last # None /\ a \notin lagging =>
            LET shown == RenderedManifests(SpecFor(a, stored[a].row, stored[a].last), stored[a].jobs)
            IN  /\ \A k \in Kinds \ {"secret"} :
                      \/ cluster[a].objects[k] = shown.objects[k]
                      \/ stored[a].row.port = 0 /\ k \in {"service", "ingress"}
                /\ SecretGives(cluster[a], RuntimeVariables(a))
                /\ shown.claims \subseteq cluster[a].claims
                /\ cluster[a].crons = shown.crons

(* "A shared variable reaches every app in the project, so every app needs *)
(* a rollout" (handleSetSharedVariable): when the request has ended, the   *)
(* secret of every deployed app holds the variables it should.             *)
SharedVariableReaches ==
    Idle /\ wmix.kinds = {"setShared"} => \A a \in AppIds :
        Exists(a) /\ stored[a].last # None => SecretGives(cluster[a], RuntimeVariables(a))

(* "BuildEnvSecret renders the Secret holding an app's environment         *)
(* variables" (kube/manifests.go): and no others, once a variable has been *)
(* deleted and the Sync that applies the removal has ended well.           *)
OnlyItsVariables ==
    Idle /\ ~wmix.overlap => \A a \in AppIds :
        Exists(a) /\ stored[a].last # None /\ a \notin lagging =>
            HeldValues(cluster[a]) = RuntimeVariables(a)

(* "what a user reads here is what is actually running, not a hand-written *)
(* approximation" (Cluster.Manifests): the Deployment the page renders,    *)
(* with the image of the app's row, is the one in the cluster.             *)
PageShowsWhatRuns ==
    Idle /\ ~wmix.overlap => \A a \in AppIds :
        Exists(a) /\ stored[a].last # None /\ a \notin lagging =>
            cluster[a].objects["deployment"] =
                RenderedManifests(SpecFor(a, stored[a].row, stored[a].row.image), {}).objects["deployment"]

(* "removeUnwanted deletes objects the app no longer needs" (deployer.go): *)
(* also the Service and the Ingress, when the app no longer has a port.    *)
NothingIsLeftBehind ==
    Idle /\ ~wmix.overlap => \A a \in AppIds :
        Exists(a) /\ stored[a].last # None /\ a \notin lagging /\ stored[a].row.port = 0 =>
            cluster[a].objects["service"] = NoObject /\ cluster[a].objects["ingress"] = NoObject

(* An app keeps the automatic address it was given for as long as that     *)
(* address is one it could be given: neither another app's domain, nor a   *)
(* preferred address that has become free, moves it (EnsureAutoDomain).    *)
AddressIsKept ==
    [][\A a \in AppIds : \A d \in AutoDomains(a) :
          d.tls = AutoTls /\ d.host \in Candidates(a) =>
              d \in stored'[a].domains \/ ~stored'[a].on]_appVars
=============================================================================
