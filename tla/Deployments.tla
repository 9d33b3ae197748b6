---------------------------- MODULE Deployments ----------------------------
(***************************************************************************)
(* The life of an app's deployments: internal/deploy/deployer.go on top of *)
(* the deployments table of internal/store/deployments.go, for ONE app     *)
(* (every statement is filtered by app_id).                                *)
(*                                                                         *)
(* Three kinds of actor interleave:                                        *)
(*   - API requests (Deploy, Rollback, Cancel, a settings change followed  *)
(*     by Sync), which run on the request's context and take several       *)
(*     database statements each;                                           *)
(*   - one goroutine per started deployment (run), which owns a context    *)
(*     that another request, or the 45 minute limit, may kill;             *)
(*   - the panel process, which can stop and start at any moment.          *)
(*                                                                         *)
(* A statement on the database is atomic (writeMu).  A statement or a call *)
(* on a dead context has no effect: database/sql and client-go refuse it.  *)
(* With the fault "refusal" the database also refuses statements of a      *)
(* goroutine whose context lives, most of which the code only logs.        *)
(* A call to the cluster takes effect at the instant its context is looked *)
(* at.  Deployment ids and numbers are identified.                         *)
(***************************************************************************)
EXTENDS Naturals, FiniteSets

CONSTANTS
    MaxDeployments, \* bound: how many deployments the history may hold
    Requests,       \* the API requests that can be in progress at once
    Commits,        \* the commits an app may be deployed from
    NoImage,        \* the empty image column
    Configs,        \* values of the app's runtime settings
    Keep,           \* registry.KeptPerApp
    Calls,          \* which requests this instance makes
    Faults          \* which faults this instance meets

CallKinds  == {"deploy", "rollback", "cancel", "settings"}
FaultKinds == {"restart", "panic", "timeout", "disconnect", "refusal"}

ASSUME MaxDeploymentsAssumption == MaxDeployments \in Nat
ASSUME KeepAssumption == Keep \in Nat \ {0}
ASSUME ConfigsAssumption == Configs # {}
ASSUME ImageAssumption == NoImage \notin Commits
ASSUME ScenarioAssumption == Calls \subseteq CallKinds /\ Faults \subseteq FaultKinds

Ids == 1..MaxDeployments
Images == Commits \cup {NoImage}

VARIABLES
    status,    \* status[n]: the row's status, "none" while there is no row
    image,     \* image[n]: the row's image
    commit,    \* commit[n]: the row's commit, which is its build fingerprint
    spec,      \* spec[n]: the runtime_spec snapshot of the row
    req,       \* req[r]: where an API request is and what it has read
    pc,        \* pc[n]: where deployment n's goroutine is
    loaded,    \* loaded[n]: the settings the goroutine read when it started
    ctx,       \* ctx[n]: its context, "ended" when it was cancelled or expired
    running,   \* Deployer.running: the deployments that can be cancelled
    applied,   \* what the cluster's Deployment object carries
    landed,    \* history: every deployment that ever reached the cluster
    config,    \* the app row's runtime settings
    appStatus  \* the app row's status

rows    == <<status, image, commit, spec>>
work    == <<pc, loaded, ctx, running>>
cluster == <<applied, landed>>
app     == <<config, appStatus>>
vars    == <<rows, req, work, cluster, app>>

(***************************************************************************)
(* The deployments table.                                                  *)
(***************************************************************************)
InFlightStatus == {"queued", "building", "deploying"}
TerminalStatus == {"succeeded", "failed", "cancelled", "superseded"}
InFlight(n)    == status[n] \in InFlightStatus

\* SELECT MAX(number), plus one: n is above every row and right after one.
IsNextNumber(n) ==
    /\ \A m \in Ids : status[m] # "none" => m < n
    /\ \A m \in Ids : m = n - 1 => status[m] # "none"

\* ORDER BY number DESC LIMIT 1 over the rows that satisfy P.
IsNewest(P(_), n) == P(n) /\ \A m \in Ids : P(m) => m <= n

Succeeded(n) == status[n] = "succeeded"

\* Mutant: the status filter dropped from the query.
LatestSuccessfulDeployment_AnyStatus(n) == IsNewest(LAMBDA m : status[m] # "none", n)

LatestSuccessfulDeployment(n) == IsNewest(Succeeded, n)

FindDeploymentByFingerprint(c, n) ==
    IsNewest(LAMBDA m : Succeeded(m) /\ commit[m] = c /\ image[m] # NoImage, n)

WithinRollbackWindow(n) ==
    /\ Succeeded(n) /\ image[n] # NoImage
    /\ Cardinality({m \in Ids : Succeeded(m) /\ image[m] # NoImage /\ m >= n}) <= Keep

\* Mutant: the guard left to the caller.
UpdateDeploymentStatus_Unguarded(n, s) == status' = [status EXCEPT ![n] = s]

\* The guard is in the statement: a finished deployment never moves.
UpdateDeploymentStatus(n, s) ==
    status' = [status EXCEPT ![n] = IF @ \in InFlightStatus THEN s ELSE @]

\* A statement of the goroutine of n can be refused.
MayBeRefused(n) == ctx[n] # "live" \/ "refusal" \in Faults

\* The same write made by the goroutine of n, on n's own context; a refusal is logged.
UpdateOwnStatus(n, s) ==
    \/ ctx[n] = "live" /\ UpdateDeploymentStatus(n, s)
    \/ MayBeRefused(n) /\ UNCHANGED status

SetAppStatus(n, s) ==
    \/ ctx[n] = "live" /\ appStatus' = s
    \/ MayBeRefused(n) /\ UNCHANGED appStatus

-----------------------------------------------------------------------------
(***************************************************************************)
(* Init: an app that was created and never deployed.                       *)
(***************************************************************************)
NoConfig  == CHOOSE c \in Configs : TRUE
IdleReq   == [at |-> "idle", id |-> 0, commit |-> NoImage, image |-> NoImage,
              spec |-> NoConfig, rollback |-> FALSE, stopping |-> {}]
Nothing   == [id |-> 0, config |-> NoConfig]

Init ==
    /\ status = [n \in Ids |-> "none"]
    /\ image  = [n \in Ids |-> NoImage]
    /\ commit = [n \in Ids |-> NoImage]
    /\ spec   = [n \in Ids |-> NoConfig]
    /\ req    = [r \in Requests |-> IdleReq]
    /\ pc     = [n \in Ids |-> "off"]
    /\ loaded = [n \in Ids |-> NoConfig]
    /\ ctx    = [n \in Ids |-> "none"]
    /\ running = {}
    /\ applied = Nothing
    /\ landed  = {}
    /\ config \in Configs
    /\ appStatus = "created"

-----------------------------------------------------------------------------
(***************************************************************************)
(* Deploy.                                                                 *)
(***************************************************************************)
At(r, where)   == req[r].at = where
Goto(r, where) == req' = [req EXCEPT ![r].at = where]
Done(r)        == req' = [req EXCEPT ![r] = IdleReq]

\* Bound: a request is only made while its row would still fit.
RoomForARow ==
    Cardinality({r \in Requests : At(r, "create")})
        < Cardinality({n \in Ids : status[n] = "none"})

\* Everything Deploy reads before it writes: the app, the settings it will
\* snapshot, and the row whose image it may reuse.
DeployRead(r) ==
    /\ "deploy" \in Calls /\ At(r, "idle") /\ RoomForARow
    /\ \E c \in Commits, force \in BOOLEAN, i \in Images :
          /\ \/ \E n \in Ids : ~force /\ FindDeploymentByFingerprint(c, n) /\ i = image[n]
             \/ /\ force \/ ~\E n \in Ids : FindDeploymentByFingerprint(c, n)
                /\ i = NoImage
          /\ req' = [req EXCEPT ![r] = [IdleReq EXCEPT
                       !.at = "create", !.commit = c, !.image = i, !.spec = config]]
    /\ UNCHANGED <<rows, work, cluster, app>>

\* The number is allocated inside the inserting transaction.
CreateDeployment(r) ==
    /\ At(r, "create")
    /\ \E n \in Ids :
          /\ IsNextNumber(n)
          /\ status' = [status EXCEPT ![n] = "queued"]
          /\ image'  = [image  EXCEPT ![n] = req[r].image]
          /\ commit' = [commit EXCEPT ![n] = req[r].commit]
          /\ spec'   = [spec   EXCEPT ![n] = req[r].spec]
          /\ req'    = [req EXCEPT ![r].id = n,
                            ![r].at = IF req[r].rollback THEN "restore" ELSE "select"]
    /\ UNCHANGED <<work, cluster, app>>

\* The caller went away before the insert: nothing was written.
CreateFails(r) ==
    /\ "disconnect" \in Faults /\ At(r, "create")
    /\ Done(r)
    /\ UNCHANGED <<rows, work, cluster, app>>

\* SupersedeRunningDeployments, first statement: which rows are in flight.
SupersedeSelect(r) ==
    /\ At(r, "select")
    /\ LET ids == {m \in Ids \ {req[r].id} : InFlight(m)} IN
          req' = [req EXCEPT ![r].at = IF ids = {} THEN "start" ELSE "mark",
                             ![r].stopping = ids]
    /\ UNCHANGED <<rows, work, cluster, app>>

\* Mutant: a queued deployment is not thought of as running.
SupersedeMark_SkipsQueued(r) ==
    /\ At(r, "mark")
    /\ status' = [m \in Ids |-> IF m # req[r].id /\ status[m] \in {"building", "deploying"}
                                THEN "superseded" ELSE status[m]]
    /\ Goto(r, "stop")
    /\ UNCHANGED <<image, commit, spec, work, cluster, app>>

\* Second statement: mark whatever is in flight by now.
SupersedeMark(r) ==
    /\ At(r, "mark")
    /\ status' = [m \in Ids |-> IF m # req[r].id /\ InFlight(m)
                                THEN "superseded" ELSE status[m]]
    /\ Goto(r, "stop")
    /\ UNCHANGED <<image, commit, spec, work, cluster, app>>

\* The caller went away between two statements of the supersede: Deploy logs
\* a warning, stops nothing and starts the deployment all the same.
SupersedeFails(r) ==
    /\ "disconnect" \in Faults
    /\ At(r, "select") \/ At(r, "mark")
    /\ req' = [req EXCEPT ![r].at = "start", ![r].stopping = {}]
    /\ UNCHANGED <<rows, work, cluster, app>>

\* Mutant: the row is marked and its goroutine is left alone.
StopSuperseded_OnlyMarked(r) ==
    /\ At(r, "stop")
    /\ req' = [req EXCEPT ![r].stopping = {}, ![r].at = "start"]
    /\ UNCHANGED <<rows, work, cluster, app>>

\* Deployer.stop on one of the superseded deployments.
StopSuperseded(r) ==
    /\ At(r, "stop")
    /\ \E m \in req[r].stopping :
          /\ ctx' = IF m \in running /\ ctx[m] = "live"
                    THEN [ctx EXCEPT ![m] = "ended"] ELSE ctx
          /\ req' = [req EXCEPT ![r].stopping = @ \ {m},
                        ![r].at = IF req[r].stopping = {m} THEN "start" ELSE "stop"]
    /\ UNCHANGED <<rows, pc, loaded, running, cluster, app>>

\* Deployer.start: register the cancel function and let the goroutine go.
Start(r) ==
    /\ At(r, "start")
    /\ LET n == req[r].id IN
          IF n \in running
          THEN UNCHANGED <<pc, ctx, running>>
          ELSE /\ running' = running \cup {n}
               /\ ctx' = [ctx EXCEPT ![n] = "live"]
               /\ pc'  = [pc  EXCEPT ![n] = "load"]
    /\ Done(r)
    /\ UNCHANGED <<rows, loaded, cluster, app>>

(***************************************************************************)
(* Rollback, Cancel, and a settings change with its Sync.                  *)
(***************************************************************************)
RollbackRead(r) ==
    /\ "rollback" \in Calls /\ At(r, "idle") /\ RoomForARow
    /\ \E p \in Ids :
          /\ WithinRollbackWindow(p)
          /\ req' = [req EXCEPT ![r] =
                       [IdleReq EXCEPT !.at = "create", !.rollback = TRUE,
                           !.commit = commit[p], !.image = image[p], !.spec = spec[p]]]
    /\ UNCHANGED <<rows, work, cluster, app>>

\* A rollback whose settings cannot be written back goes ahead without them.
RestoreRuntimeSpec(r) ==
    /\ At(r, "restore")
    /\ \/ config' = req[r].spec
       \/ "disconnect" \in Faults /\ UNCHANGED config
    /\ Goto(r, "start")
    /\ UNCHANGED <<rows, work, cluster, appStatus>>

\* handleCancelDeployment refuses a deployment that has already finished.
CancelRead(r) ==
    /\ "cancel" \in Calls /\ At(r, "idle")
    /\ \E n \in Ids : /\ InFlight(n)
                      /\ req' = [req EXCEPT ![r].at = "cancel", ![r].id = n]
    /\ UNCHANGED <<rows, work, cluster, app>>

\* Mutant: Cancel marks the row and leaves the goroutine alone.
CancelStop_OnlyMarks(r) ==
    /\ At(r, "cancel")
    /\ IF req[r].id \in running THEN Goto(r, "cancelled") ELSE Done(r)
    /\ UNCHANGED <<rows, work, cluster, app>>

\* Deployer.Cancel: refused unless the deployment is registered as running.
CancelStop(r) ==
    /\ At(r, "cancel")
    /\ LET n == req[r].id IN
          IF n \in running
          THEN /\ ctx' = IF ctx[n] = "live" THEN [ctx EXCEPT ![n] = "ended"] ELSE ctx
               /\ Goto(r, "cancelled")
          ELSE Done(r) /\ UNCHANGED ctx
    /\ UNCHANGED <<rows, pc, loaded, running, cluster, app>>

\* The row is marked on the request's context, so a caller that went away
\* leaves it unmarked.
CancelMark(r) ==
    /\ At(r, "cancelled")
    /\ \/ UpdateDeploymentStatus(req[r].id, "cancelled")
       \/ "disconnect" \in Faults /\ UNCHANGED status
    /\ Done(r)
    /\ UNCHANGED <<image, commit, spec, work, cluster, app>>

\* A handler that stores a runtime setting and then calls Sync.
UpdateSettings(r) ==
    /\ "settings" \in Calls /\ At(r, "idle")
    /\ \E c \in Configs \ {config} : config' = c
    /\ Goto(r, "sync")
    /\ UNCHANGED <<rows, work, cluster, appStatus>>

\* Mutant: no check for an app that was never deployed.
SyncRead_AssumesOne(r) ==
    /\ At(r, "sync")
    /\ \E last \in Ids \cup {0} :
          /\ \/ last # 0 /\ LatestSuccessfulDeployment(last)
             \/ last = 0 /\ ~\E n \in Ids : LatestSuccessfulDeployment(n)
          /\ req' = [req EXCEPT ![r].at = "syncapply", ![r].id = last, ![r].spec = config]
    /\ UNCHANGED <<rows, work, cluster, app>>

\* Sync reads the app and its latest successful deployment; with none there
\* is nothing to update.
SyncRead(r) ==
    /\ At(r, "sync")
    /\ \/ \E last \in Ids :
             /\ LatestSuccessfulDeployment(last)
             /\ req' = [req EXCEPT ![r].at = "syncapply", ![r].id = last, ![r].spec = config]
       \/ /\ ~\E n \in Ids : LatestSuccessfulDeployment(n)
          /\ Done(r)
    /\ UNCHANGED <<rows, work, cluster, app>>

\* A row without an image renders a pod the cluster does not accept.
SyncApply(r) ==
    /\ At(r, "syncapply")
    /\ \/ /\ image[req[r].id] # NoImage
          /\ applied' = [id |-> req[r].id, config |-> req[r].spec]
          /\ landed' = landed \cup {req[r].id}
       \/ UNCHANGED cluster                         \* the apply was refused
    /\ Done(r)
    /\ UNCHANGED <<rows, work, app>>

-----------------------------------------------------------------------------
(***************************************************************************)
(* Deployer.run, the goroutine of deployment n.                            *)
(***************************************************************************)
Live(n)     == ctx[n] = "live"
Move(n, where) == pc' = [pc EXCEPT ![n] = where]

\* The deployment, the app and the environment are read once, here: without the
\* first nothing more is done, without the others the deployment fails.
RunLoad(n) ==
    /\ pc[n] = "load"
    /\ \/ /\ Live(n)
          /\ loaded' = [loaded EXCEPT ![n] = config]
          /\ Move(n, IF image[n] = NoImage THEN "building" ELSE "deploying")
       \/ /\ MayBeRefused(n)
          /\ \E next \in {"finish", "fail"} : Move(n, next)
          /\ UNCHANGED loaded
    /\ UNCHANGED <<rows, req, ctx, running, cluster, app>>

RunBuilding(n) ==
    /\ pc[n] = "building"
    /\ UpdateOwnStatus(n, "building")
    /\ Move(n, "build")
    /\ UNCHANGED <<image, commit, spec, req, loaded, ctx, running, cluster, app>>

\* build: it can fail for many reasons, and always fails on a dead context.
Build(n) ==
    /\ pc[n] = "build"
    /\ \/ Live(n) /\ Move(n, "record")
       \/ Move(n, "fail")
    /\ UNCHANGED <<rows, req, loaded, ctx, running, cluster, app>>

\* The image is tagged with the commit it was built from.  When the row cannot be
\* written that is logged, and the deployment goes on with the image it holds.
SetDeploymentImage(n) ==
    /\ pc[n] = "record"
    /\ \/ Live(n) /\ image' = [image EXCEPT ![n] = commit[n]]
       \/ MayBeRefused(n) /\ UNCHANGED image
    /\ Move(n, "deploying")
    /\ UNCHANGED <<status, commit, spec, req, loaded, ctx, running, cluster, app>>

RunDeploying(n) ==
    /\ pc[n] = "deploying"
    /\ UpdateOwnStatus(n, "deploying")
    /\ Move(n, "ask")
    /\ UNCHANGED <<image, commit, spec, req, loaded, ctx, running, cluster, app>>

\* The blocking plugin hook and then the release command, either of which
\* may stop the deployment.
AskPlugins(n) ==
    /\ pc[n] = "ask"
    /\ \E answer \in {"release", "fail"} : Move(n, answer)
    /\ UNCHANGED <<rows, req, loaded, ctx, running, cluster, app>>

RunRelease(n) ==
    /\ pc[n] = "release"
    /\ \E outcome \in {"apply", "fail"} : Move(n, outcome)
    /\ UNCHANGED <<rows, req, loaded, ctx, running, cluster, app>>

\* Mutant: the rollout runs on a context nobody can cancel.
Apply_IgnoresContext(n) ==
    /\ pc[n] = "apply"
    /\ applied' = [id |-> n, config |-> loaded[n]]
    /\ landed' = landed \cup {n}
    /\ Move(n, "rollout")
    /\ UNCHANGED <<rows, req, loaded, ctx, running, app>>

\* Mutant: an apply that was refused is only logged.
Apply_IgnoresRefusal(n) ==
    /\ pc[n] = "apply"
    /\ \/ /\ Live(n)
          /\ applied' = [id |-> n, config |-> loaded[n]]
          /\ landed' = landed \cup {n}
       \/ UNCHANGED cluster
    /\ Move(n, "rollout")
    /\ UNCHANGED <<rows, req, loaded, ctx, running, app>>

\* apply: ApplyAll may be refused before the Deployment object (the cluster
\* is untouched) or after it (the cluster carries n and the deploy fails).
Apply(n) ==
    /\ pc[n] = "apply"
    /\ \/ /\ Live(n)
          /\ applied' = [id |-> n, config |-> loaded[n]]
          /\ landed' = landed \cup {n}
          /\ \E outcome \in {"rollout", "fail"} : Move(n, outcome)
       \/ Move(n, "fail") /\ UNCHANGED cluster
    /\ UNCHANGED <<rows, req, loaded, ctx, running, app>>

WaitForRollout(n) ==
    /\ pc[n] = "rollout"
    /\ \/ Live(n) /\ Move(n, "succeed")
       \/ Move(n, "fail")
    /\ UNCHANGED <<rows, req, loaded, ctx, running, cluster, app>>

RunSucceeded(n) ==
    /\ pc[n] = "succeed"
    /\ UpdateOwnStatus(n, "succeeded")
    /\ Move(n, "live")
    /\ UNCHANGED <<image, commit, spec, req, loaded, ctx, running, cluster, app>>

RunLive(n) ==
    /\ pc[n] = "live"
    /\ SetAppStatus(n, "running")
    /\ Move(n, "finish")
    /\ UNCHANGED <<rows, req, loaded, ctx, running, cluster, config>>

\* Mutant: a deployment that failed only takes the app down with it.
FailRow_LeavesTheRow(n) ==
    /\ pc[n] \in {"fail", "panicked"}
    /\ Move(n, IF pc[n] = "fail" THEN "failapp" ELSE "panickedapp")
    /\ UNCHANGED <<rows, req, loaded, ctx, running, cluster, app>>

\* fail and failPanicked: the row first, the app second, both on the context
\* of the deployment that failed.
FailRow(n) ==
    /\ pc[n] \in {"fail", "panicked"}
    /\ UpdateOwnStatus(n, "failed")
    /\ Move(n, IF pc[n] = "fail" THEN "failapp" ELSE "panickedapp")
    /\ UNCHANGED <<image, commit, spec, req, loaded, ctx, running, cluster, app>>

FailApp(n) ==
    /\ pc[n] \in {"failapp", "panickedapp"}
    /\ SetAppStatus(n, "failed")
    /\ Move(n, "finish")
    /\ UNCHANGED <<rows, req, loaded, ctx, running, cluster, config>>

\* finish, then the deferred cancel that ends the context.
Finish(n) ==
    /\ pc[n] = "finish"
    /\ running' = running \ {n}
    /\ ctx' = [ctx EXCEPT ![n] = "none"]
    /\ loaded' = [loaded EXCEPT ![n] = NoConfig]
    /\ Move(n, "done")
    /\ UNCHANGED <<rows, req, cluster, app>>

RunSteps == {"load", "building", "build", "record", "deploying", "ask", "release",
             "apply", "rollout", "succeed", "live", "fail", "failapp"}

\* Mutant: nothing unregisters a deployment that panicked.
Panic_StaysRegistered(n) ==
    /\ "panic" \in Faults /\ pc[n] \in RunSteps
    /\ Move(n, "panicked")
    /\ UNCHANGED <<rows, req, loaded, ctx, running, cluster, app>>

\* A panic anywhere in run: the deferred finish unregisters the deployment
\* before failPanicked writes anything.
Panic(n) ==
    /\ "panic" \in Faults /\ pc[n] \in RunSteps
    /\ running' = running \ {n}
    /\ Move(n, "panicked")
    /\ UNCHANGED <<rows, req, loaded, ctx, cluster, app>>

\* maxDeployDuration passes, which takes a build at the least.
Expire(n) ==
    /\ "timeout" \in Faults /\ n \in running /\ Live(n)
    /\ pc[n] \notin {"load", "building"}
    /\ ctx' = [ctx EXCEPT ![n] = "ended"]
    /\ UNCHANGED <<rows, req, pc, loaded, running, cluster, app>>

(***************************************************************************)
(* The panel stops, whatever it was doing, and starts again:               *)
(* markInterruptedDeployments runs before the listener does.               *)
(***************************************************************************)
Restart ==
    /\ "restart" \in Faults
    /\ status'  = [n \in Ids |-> IF InFlight(n) THEN "failed" ELSE status[n]]
    /\ req'     = [r \in Requests |-> IdleReq]
    /\ pc'      = [n \in Ids |-> IF status[n] = "none" THEN "off" ELSE "done"]
    /\ ctx'     = [n \in Ids |-> "none"]
    /\ running' = {}
    /\ loaded'  = [n \in Ids |-> NoConfig]
    /\ UNCHANGED <<image, commit, spec, cluster, app>>

-----------------------------------------------------------------------------
RequestStep(r) ==
    \/ CreateDeployment(r) \/ CreateFails(r) \/ SupersedeSelect(r) \/ SupersedeMark(r)
    \/ SupersedeFails(r) \/ StopSuperseded(r) \/ Start(r)
    \/ RestoreRuntimeSpec(r) \/ CancelStop(r) \/ CancelMark(r)
    \/ SyncRead(r) \/ SyncApply(r)

NewRequest(r) ==
    DeployRead(r) \/ RollbackRead(r) \/ CancelRead(r) \/ UpdateSettings(r)

RunStep(n) ==
    \/ RunLoad(n) \/ RunBuilding(n) \/ Build(n) \/ SetDeploymentImage(n)
    \/ RunDeploying(n) \/ AskPlugins(n) \/ RunRelease(n) \/ Apply(n)
    \/ WaitForRollout(n) \/ RunSucceeded(n) \/ RunLive(n)
    \/ FailRow(n) \/ FailApp(n) \/ Finish(n)

Next ==
    \/ \E r \in Requests : NewRequest(r) \/ RequestStep(r)
    \/ \E n \in Ids : RunStep(n) \/ Panic(n) \/ Expire(n)
    \/ Restart

Spec == Init /\ [][Next]_vars

\* Every call a request or a goroutine makes is bounded by a timeout, so each
\* of them takes its next step; nobody is obliged to make another request, to
\* panic, to time out or to restart.
Fairness ==
    /\ \A r \in Requests : WF_vars(RequestStep(r))
    /\ \A n \in Ids : WF_vars(RunStep(n))

FairSpec == Spec /\ Fairness

-----------------------------------------------------------------------------
(***************************************************************************)
(* Properties.                                                             *)
(***************************************************************************)
ReqSteps == {"idle", "create", "select", "mark", "stop", "start", "restore",
             "cancel", "cancelled", "sync", "syncapply"}
RequestType == [at: ReqSteps, id: Ids \cup {0}, commit: Images, image: Images,
                spec: Configs, rollback: BOOLEAN, stopping: SUBSET Ids]
GoroutineSteps == RunSteps \cup {"finish"}
PanickedSteps  == {"panicked", "panickedapp"}

\* Every variable has the values the code can give it.
TypeOK ==
    /\ status \in [Ids -> InFlightStatus \cup TerminalStatus \cup {"none"}]
    /\ image \in [Ids -> Images]
    /\ commit \in [Ids -> Images]
    /\ spec \in [Ids -> Configs]
    /\ req \in [Requests -> RequestType]
    /\ pc \in [Ids -> GoroutineSteps \cup PanickedSteps \cup {"off", "done"}]
    /\ loaded \in [Ids -> Configs]
    /\ ctx \in [Ids -> {"none", "live", "ended"}]
    /\ running \subseteq Ids
    /\ applied \in [id: Ids \cup {0}, config: Configs]
    /\ landed \subseteq Ids
    /\ config \in Configs
    /\ appStatus \in {"created", "running", "failed"}

\* UpdateDeploymentStatus and SupersedeRunningDeployments: a deployment that
\* has finished never moves again, however late a write for it arrives.
TerminalIsFinal ==
    [][\A n \in Ids : status[n] \in TerminalStatus => status'[n] = status[n]]_vars

\* run: a deployment is only recorded as succeeded when its objects reached
\* the cluster, whichever statements and calls before that were refused.  Its row may
\* name no image: when SetDeploymentImage is refused run logs it and goes on.
SucceededReachedTheCluster ==
    \A n \in Ids : Succeeded(n) => n \in landed

\* start, finish and the recover in start: a deployment is registered as
\* running exactly while there is a goroutine that will unregister it.
RegisteredWhileItRuns ==
    \A n \in Ids : IF n \in running THEN pc[n] \in GoroutineSteps /\ ctx[n] # "none"
                                    ELSE pc[n] \notin RunSteps

\* Cancel kills the context before it marks the row: what a user cancelled
\* does not reach the cluster afterwards.
CancelledNeverLands ==
    [][\A n \in Ids : status[n] = "cancelled" /\ n \notin landed => n \notin landed']_vars

\* Deploy: "Marking the row is not enough: the build it belongs to is still
\* running, and would go on to roll out an older version after this one."
SupersededNeverLands ==
    [][\A n \in Ids : (/\ status[n] = "superseded" /\ n \notin landed
                       /\ \A r \in Requests : ~(At(r, "stop") /\ n \in req[r].stopping))
                       => n \notin landed']_vars

\* The reason Deploy supersedes at all: an older version is never rolled out
\* over a newer one.
NewerNeverReplacedByOlder == [][applied'.id >= applied.id]_vars

\* Once Deploy has started a deployment every earlier one has been told to
\* stop: two of them never work towards the cluster at once.
TowardsTheCluster == {"load", "building", "build", "record", "deploying", "ask",
                      "release", "apply", "rollout"}
AtMostOneLiveRun ==
    Cardinality({n \in running : Live(n) /\ pc[n] \in TowardsTheCluster}) <= 1

\* SupersedeRunningDeployments: an older row is in flight only while the
\* Deploy that replaces it has not marked it yet.
OlderRowsAreSuperseded ==
    \A m, n \in Ids : m < n /\ InFlight(m) /\ InFlight(n)
        => \E r \in Requests : req[r].id = n /\ req[r].at \in {"select", "mark"}

\* Every deployment that was queued comes to an end the user can read.
EveryDeploymentEnds ==
    \A n \in Ids : InFlight(n) ~> status[n] \in TerminalStatus

\* Sync re-applies the latest successful deployment: whatever it puts back on
\* the cluster had succeeded, and still has when the apply lands.
SyncReappliesASuccess ==
    [][applied' # applied =>
          pc[applied'.id] = "apply" \/ status[applied'.id] = "succeeded"]_vars

\* Sync and run: once nothing is in progress and the last deployment
\* succeeded, the cluster runs the settings the app row holds.
Quiet == /\ \A r \in Requests : At(r, "idle")
         /\ \A n \in Ids : pc[n] \in {"off", "done"}
SettingsReachTheCluster ==
    Quiet /\ (\E n \in Ids : LatestSuccessfulDeployment(n) /\ IsNewest(LAMBDA m : status[m] # "none", n))
        => applied.config = config

\* The deployments that may still reach the cluster or be recorded as a success.
OnItsWay == {n \in Ids : Live(n) /\ pc[n] \in TowardsTheCluster \cup {"succeed"}}

Turns == INSTANCE Rollouts WITH
    Versions <- Ids, Settings <- Configs, Resyncs <- "settings" \in Calls,
    turns <- {n \in Ids : pc[n] # "off"}, heading <- OnItsWay,
    version <- applied.id, settings <- applied.config, reached <- landed, succeeded <- {n \in Ids : Succeeded(n)}

\* The deployer implements Rollouts: versions set out one after another, only
\* the newest that has set out reaches the cluster, its success is recorded
\* while the cluster carries it, and what Sync puts back is a success.
RolloutsInOrder == Turns!RolloutsSpec

=============================================================================
