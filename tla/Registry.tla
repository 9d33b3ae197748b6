------------------------------ MODULE Registry ------------------------------
(***************************************************************************)
(* The in-cluster registry and the two things that write to it: builds     *)
(* (internal/deploy/build.go), which push, and the weekly sweep            *)
(* (internal/cluster/registry.go), which untags what no deployment can     *)
(* reach and then runs the registry's own garbage collector.  One app, one *)
(* repository: the lock is shared by all of them, the rest is per app.     *)
(*                                                                         *)
(* The build Job and the collector Job run in the cluster: neither stops   *)
(* because the goroutine that started it, or the panel, stopped.           *)
(*                                                                         *)
(* A tag is the commit it was built from, and its manifest is identified   *)
(* by what was built, so two commits may share one (ContentOf).            *)
(***************************************************************************)
EXTENDS Naturals, FiniteSets

CONSTANTS
    MaxDeployments,      \* bound: how many deployments the history may hold
    MaxSweeps,           \* bound: how many sweeps a run may see
    Commits,             \* the commits an app may be deployed from
    Contents,            \* what a build may produce
    ContentOf,           \* ContentOf[c]: what the build of commit c produces
    NoTag,               \* the empty image column, the absent manifest
    Keep,                \* registry.KeptPerApp
    Faults               \* which faults this instance meets

ASSUME BoundsAssumption == MaxDeployments \in Nat /\ MaxSweeps \in Nat
ASSUME KeepAssumption == Keep \in Nat \ {0}
ASSUME ContentAssumption == ContentOf \in [Commits -> Contents]
ASSUME TagAssumption == NoTag \notin Commits /\ NoTag \notin Contents
ASSUME FaultsAssumption == Faults \subseteq {"fail", "sweep", "collector", "abandon", "restart"}

Ids == 1..MaxDeployments

VARIABLES
    stage,     \* stage[n]: where deployment n is, its row and its goroutine
    commit,    \* commit[n]: the commit of row n
    image,     \* image[n]: the tag recorded in row n
    job,       \* job[n]: deployment n's build Job in the cluster
    readers,   \* who holds registryMu for reading
    manifest,  \* manifest[t]: what tag t points at
    blobs,     \* the contents whose layers are in the registry's storage
    sweep,     \* the sweep: where it is, what it keeps, what it deletes
    gc,        \* the collector Job: where it is and what it marked
    sweeps,    \* how many sweeps have started
    gone       \* the app was deleted, and its rows with it

deployments == <<stage, commit, image>>
storage     == <<manifest, blobs>>
maintenance == <<sweep, gc, sweeps>>
vars        == <<deployments, job, readers, storage, maintenance, gone>>

Finished    == {"succeeded", "failed"}
Tagged(t)   == manifest[t] # NoTag
Pullable(t) == Tagged(t) /\ manifest[t] \in blobs

(***************************************************************************)
(* The queries.                                                            *)
(***************************************************************************)
\* ROW_NUMBER() OVER (ORDER BY number DESC) among the rows that satisfy P.
Rank(P(_), n) == Cardinality({m \in Ids : P(m) /\ m >= n})

HasImage(n)   == stage[n] # "none" /\ image[n] # NoTag
CanServe(n)   == stage[n] = "succeeded" /\ image[n] # NoTag

\* Mutant: the rows without an image are not filtered out.
ImagesWorthKeeping_EvenEmpty ==
    IF gone THEN {}
    ELSE {image[n] : n \in {m \in Ids : stage[m] # "none" /\ Rank(HasImage, m) <= Keep}}

\* Rows of every status count, and a deleted app has none.
ImagesWorthKeeping ==
    IF gone THEN {}
    ELSE {image[n] : n \in {m \in Ids : HasImage(m) /\ Rank(HasImage, m) <= Keep}}

\* Only the rows that succeeded count.
WithinRollbackWindow(n) == ~gone /\ CanServe(n) /\ Rank(CanServe, n) <= Keep

FindDeploymentByFingerprint(c, n) ==
    /\ CanServe(n) /\ commit[n] = c
    /\ \A m \in Ids : CanServe(m) /\ commit[m] = c => m <= n

IsNextNumber(n) ==
    /\ stage[n] = "none"
    /\ \A m \in Ids : m < n => stage[m] # "none"

-----------------------------------------------------------------------------
NoSweep == [at |-> "idle", keep |-> {}, todo |-> {}]
NoGC    == [at |-> "none", marked |-> {}]

Init ==
    /\ stage    = [n \in Ids |-> "none"]
    /\ commit   = [n \in Ids |-> NoTag]
    /\ image    = [n \in Ids |-> NoTag]
    /\ job      = [n \in Ids |-> "none"]
    /\ readers  = {}
    /\ manifest = [t \in Commits |-> NoTag]
    /\ blobs    = {}
    /\ sweep    = NoSweep
    /\ gc       = NoGC
    /\ sweeps   = 0
    /\ gone     = FALSE

(***************************************************************************)
(* Deployments, as far as images go.                                       *)
(***************************************************************************)
Create(n, c, i) ==
    /\ commit' = [commit EXCEPT ![n] = c]
    /\ image'  = [image  EXCEPT ![n] = i]
    /\ stage'  = [stage  EXCEPT ![n] = IF i = NoTag THEN "queued" ELSE "rollout"]
    /\ UNCHANGED <<job, readers, storage, maintenance, gone>>

\* Deploy reuses the image of a deployment with the same build inputs, unless
\* the caller forces a build.
Deploy(n) ==
    /\ ~gone /\ IsNextNumber(n)
    /\ \E c \in Commits :
          \/ \E p \in Ids : FindDeploymentByFingerprint(c, p) /\ Create(n, c, image[p])
          \/ Create(n, c, NoTag)

Rollback(n) ==
    /\ ~gone /\ IsNextNumber(n)
    /\ \E p \in Ids : WithinRollbackWindow(p) /\ Create(n, commit[p], image[p])

\* build takes registryMu for reading.  A waiting writer goes first.
BeginBuild(n) ==
    /\ stage[n] = "queued" /\ sweep.at = "idle"
    /\ readers' = readers \cup {n}
    /\ stage'   = [stage EXCEPT ![n] = "prepare"]
    /\ UNCHANGED <<commit, image, job, storage, maintenance, gone>>

\* Mutant: the lock is taken for the preparation and not for the push.
StartBuildJob_Unlocks(n) ==
    /\ stage[n] = "prepare"
    /\ job'     = [job   EXCEPT ![n] = "building"]
    /\ stage'   = [stage EXCEPT ![n] = "building"]
    /\ readers' = readers \ {n}
    /\ UNCHANGED <<commit, image, storage, maintenance, gone>>

StartBuildJob(n) ==
    /\ stage[n] = "prepare"
    /\ job'   = [job   EXCEPT ![n] = "building"]
    /\ stage' = [stage EXCEPT ![n] = "building"]
    /\ UNCHANGED <<commit, image, readers, storage, maintenance, gone>>

\* The build container uploads the layers ...
UploadLayers(n) ==
    /\ job[n] = "building"
    /\ job'   = [job EXCEPT ![n] = "uploaded"]
    /\ blobs' = blobs \cup {ContentOf[commit[n]]}
    /\ UNCHANGED <<deployments, readers, manifest, maintenance, gone>>

\* ... and then the manifest, which the registry refuses when a layer is gone.
PushManifest(n) ==
    /\ job[n] = "uploaded"
    /\ IF ContentOf[commit[n]] \in blobs
       THEN /\ manifest' = [manifest EXCEPT ![commit[n]] = ContentOf[commit[n]]]
            /\ job' = [job EXCEPT ![n] = "done"]
       ELSE job' = [job EXCEPT ![n] = "failed"] /\ UNCHANGED manifest
    /\ UNCHANGED <<deployments, readers, blobs, maintenance, gone>>

BuildJobFails(n) ==
    /\ "fail" \in Faults /\ job[n] \in {"building", "uploaded"}
    /\ job' = [job EXCEPT ![n] = "failed"]
    /\ UNCHANGED <<deployments, readers, storage, maintenance, gone>>

\* Mutant: the lock is not given back when the build failed.
BuildReturns_KeepsTheLock(n) ==
    /\ stage[n] = "building" /\ job[n] \in {"done", "failed"}
    /\ stage'   = [stage EXCEPT ![n] = IF job[n] = "done" THEN "record" ELSE "failed"]
    /\ readers' = IF job[n] = "done" THEN readers \ {n} ELSE readers
    /\ UNCHANGED <<commit, image, job, storage, maintenance, gone>>

\* waitForJob saw the Job end; build returns and gives the lock back.
BuildReturns(n) ==
    /\ stage[n] = "building" /\ job[n] \in {"done", "failed"}
    /\ stage'   = [stage EXCEPT ![n] = IF job[n] = "done" THEN "record" ELSE "failed"]
    /\ readers' = readers \ {n}
    /\ UNCHANGED <<commit, image, job, storage, maintenance, gone>>

\* build returns early: the deployment was cancelled, superseded or out of
\* time, or a call to the cluster failed.  Nobody deletes the Job.
BuildAbandoned(n) ==
    /\ "abandon" \in Faults /\ stage[n] \in {"prepare", "building"}
    /\ stage'   = [stage EXCEPT ![n] = "failed"]
    /\ readers' = readers \ {n}
    /\ UNCHANGED <<commit, image, job, storage, maintenance, gone>>

\* The image is recorded; a row that cannot be written is logged and the rollout goes on.
SetDeploymentImage(n) ==
    /\ stage[n] = "record"
    /\ \/ image' = [image EXCEPT ![n] = commit[n]]
       \/ "fail" \in Faults /\ UNCHANGED image
    /\ stage' = [stage EXCEPT ![n] = "rollout"]
    /\ UNCHANGED <<commit, job, readers, storage, maintenance, gone>>

\* The image the goroutine holds, whether its row has it or not.
Pulled(n) == IF image[n] = NoTag THEN commit[n] ELSE image[n]

\* The new pods pull the image; a rollout fails for other reasons too.
Rollout(n) ==
    /\ stage[n] = "rollout"
    /\ \/ Pullable(Pulled(n)) /\ stage' = [stage EXCEPT ![n] = "succeeded"]
       \/ /\ ~Pullable(Pulled(n)) \/ "fail" \in Faults
          /\ stage' = [stage EXCEPT ![n] = "failed"]
    /\ UNCHANGED <<commit, image, job, readers, storage, maintenance, gone>>

\* The rows go with the app.  A build that is running goes on.
DeleteApp ==
    /\ ~gone /\ gone' = TRUE
    /\ UNCHANGED <<deployments, job, readers, storage, maintenance>>

-----------------------------------------------------------------------------
(***************************************************************************)
(* CollectRegistryGarbage.                                                 *)
(***************************************************************************)
Sweeping(where) == sweep.at = where
SweepTo(where)  == sweep' = [sweep EXCEPT !.at = where]
SweepOnly       == UNCHANGED <<deployments, job, readers, gone>>

\* MaintainRegistry, once a week.
SweepDue ==
    /\ Sweeping("idle") /\ sweeps < MaxSweeps
    /\ sweeps' = sweeps + 1
    /\ SweepTo("lock")
    /\ UNCHANGED <<gc, storage>> /\ SweepOnly

\* registryMu.Lock waits for the builds that hold it.
SweepLock ==
    /\ Sweeping("lock") /\ readers = {}
    /\ SweepTo("read")
    /\ UNCHANGED <<gc, sweeps, storage>> /\ SweepOnly

SweepRead ==
    /\ Sweeping("read")
    /\ sweep' = [sweep EXCEPT !.at = "list", !.keep = ImagesWorthKeeping]
    /\ UNCHANGED <<gc, sweeps, storage>> /\ SweepOnly

\* Mutant: a repository with nothing to keep is skipped, not emptied.
Prunable_SkipsUnknown(t) == Tagged(t) /\ t \notin sweep.keep /\ sweep.keep # {}

\* Mutant: everything in the repository is fair game.
Prunable_IgnoresKeep(t) == Tagged(t)

\* The cache tag is not one of the tags of this model.
Prunable(t) == Tagged(t) /\ t \notin sweep.keep

\* The tags of the repository; when they cannot be listed it is left alone this time.
SweepList ==
    /\ Sweeping("list")
    /\ \E todo \in {{t \in Commits : Prunable(t)}} \cup (IF "sweep" \in Faults THEN {{}} ELSE {}) :
          sweep' = [sweep EXCEPT !.at = "delete", !.todo = todo]
    /\ UNCHANGED <<gc, sweeps, storage>> /\ SweepOnly

\* Digest and DeleteManifest: every tag that points at the digest goes.
DeleteManifest(t) ==
    manifest' = [u \in Commits |-> IF Tagged(t) /\ manifest[u] = manifest[t]
                                   THEN NoTag ELSE manifest[u]]

\* One tag after another; a digest or a delete that is refused is logged and passed over.
SweepDelete ==
    /\ Sweeping("delete")
    /\ \E t \in sweep.todo :
          /\ \/ DeleteManifest(t)
             \/ "sweep" \in Faults /\ UNCHANGED manifest
          /\ sweep' = [sweep EXCEPT !.todo = @ \ {t}]
    /\ UNCHANGED <<gc, sweeps, blobs>> /\ SweepOnly

\* The previous collector Job is deleted and the next one applied.
SweepCollect ==
    /\ Sweeping("delete") /\ sweep.todo = {}
    /\ gc' = [NoGC EXCEPT !.at = "start"]
    /\ SweepTo("wait")
    /\ UNCHANGED <<sweeps, storage>> /\ SweepOnly

\* The collector ended, or a step failed, or it was waited for too long: the lock is given
\* back, in the last case beside a collector that goes on.
SweepReturns ==
    /\ \/ Sweeping("wait") /\ (gc.at = "done" \/ "collector" \in Faults)
       \/ "sweep" \in Faults /\ sweep.at \in {"read", "list"}
       \/ "sweep" \in Faults /\ Sweeping("delete") /\ sweep.todo = {}
    /\ sweep' = NoSweep
    /\ UNCHANGED <<gc, sweeps, storage>> /\ SweepOnly

\* The collector marks what the manifests reference ...
CollectorMarks ==
    /\ gc.at = "start"
    /\ gc' = [at |-> "marked", marked |-> {manifest[t] : t \in {u \in Commits : Tagged(u)}}]
    /\ UNCHANGED <<sweep, sweeps, storage>> /\ SweepOnly

\* ... and deletes every layer it did not mark, or some of them before it fails.
CollectorSweeps ==
    /\ gc.at = "marked"
    /\ \/ blobs' = blobs \cap gc.marked
       \/ "sweep" \in Faults /\ \E left \in SUBSET (blobs \ gc.marked) : blobs' = (blobs \cap gc.marked) \cup left
    /\ gc' = [NoGC EXCEPT !.at = "done"]
    /\ UNCHANGED <<sweep, sweeps, manifest>> /\ SweepOnly

(***************************************************************************)
(* The panel restarts: its lock and its goroutines are gone, the Jobs in   *)
(* the cluster are not.                                                    *)
(***************************************************************************)
Restart ==
    /\ "restart" \in Faults
    /\ stage'   = [n \in Ids |-> IF stage[n] = "none" \/ stage[n] \in Finished
                                 THEN stage[n] ELSE "failed"]
    /\ readers' = {}
    /\ sweep'   = NoSweep
    /\ UNCHANGED <<commit, image, job, storage, gc, sweeps, gone>>

-----------------------------------------------------------------------------
BuildJobStep(n) == UploadLayers(n) \/ PushManifest(n) \/ BuildJobFails(n)
DeployStep(n) ==
    \/ BeginBuild(n) \/ StartBuildJob(n) \/ BuildReturns(n)
    \/ SetDeploymentImage(n) \/ Rollout(n)
SweepStep ==
    \/ SweepLock \/ SweepRead \/ SweepList \/ SweepDelete \/ SweepCollect \/ SweepReturns
CollectorStep == CollectorMarks \/ CollectorSweeps

Next ==
    \/ \E n \in Ids : \/ Deploy(n) \/ Rollback(n)
                      \/ DeployStep(n) \/ BuildJobStep(n) \/ BuildAbandoned(n)
    \/ DeleteApp
    \/ SweepDue \/ SweepStep \/ CollectorStep
    \/ Restart

Spec == Init /\ [][Next]_vars

\* Jobs and goroutines are bounded by deadlines, so they move on; the
\* scheduler starts the weekly sweep.  Nobody is obliged to deploy.
Fairness ==
    /\ \A n \in Ids : WF_vars(DeployStep(n)) /\ WF_vars(BuildJobStep(n))
    /\ WF_vars(SweepDue) /\ WF_vars(SweepStep) /\ WF_vars(CollectorStep)

FairSpec == Spec /\ Fairness

-----------------------------------------------------------------------------
(***************************************************************************)
(* Properties.                                                             *)
(***************************************************************************)
\* Every variable has the values the code can give it.
TypeOK ==
    /\ stage \in [Ids -> {"none", "queued", "prepare", "building", "record", "rollout"}
                         \cup Finished]
    /\ commit \in [Ids -> Commits \cup {NoTag}]
    /\ image \in [Ids -> Commits \cup {NoTag}]
    /\ job \in [Ids -> {"none", "building", "uploaded", "done", "failed"}]
    /\ readers \subseteq Ids
    /\ manifest \in [Commits -> Contents \cup {NoTag}]
    /\ blobs \subseteq Contents
    /\ sweep \in [at: {"idle", "lock", "read", "list", "delete", "wait"},
                  keep: SUBSET Commits, todo: SUBSET Commits]
    /\ gc \in [at: {"none", "start", "marked", "done"}, marked: SUBSET Contents]
    /\ sweeps \in 0..MaxSweeps
    /\ gone \in BOOLEAN

\* BeginBuild and CollectRegistryGarbage: the sweep "never deletes a blob out
\* from under a layer that is still being written", so what a tag points at
\* is always complete, as long as neither a build nor the collector is left
\* running by a goroutine that gave up on it.
ImagesAreIntact == \A t \in Commits : Tagged(t) => manifest[t] \in blobs

\* The lock does its part: while the collector may delete, no push is under way.
NoPushDuringCollection ==
    gc.at \in {"start", "marked"} => \A n \in Ids : job[n] \notin {"building", "uploaded"}

\* Prunable: "The cache tag is never prunable, and neither is anything in
\* keep": what the sweep found worth keeping outlives the sweep.
KeptTagsStay ==
    [][\A t \in Commits : Tagged(t) /\ t \in sweep.keep => manifest'[t] # NoTag]_vars

\* ImagesWorthKeeping keeps "the one an app is running now".
IsServed(n) ==
    ~gone /\ stage[n] = "succeeded" /\ \A m \in Ids : stage[m] = "succeeded" => m <= n
ServedImageStays == \A n \in Ids : IsServed(n) => Tagged(Pulled(n))

\* WithinRollbackWindow "is the same question as whether its image still
\* exists": what the panel offers to go back to is what the sweep keeps.
RollbackTargetsAreKept == \A n \in Ids : WithinRollbackWindow(n) => image[n] \in ImagesWorthKeeping

\* concepts.md: to go back further than the images that are kept, "deploy that
\* commit again - it builds the same code fresh": only an image that is still
\* kept is reused.
RedeployBuildsFresh ==
    [][\A n \in Ids : stage[n] = "none" /\ stage'[n] = "rollout"
          => \E p \in Ids : WithinRollbackWindow(p) /\ image[p] = image'[n]]_vars

\* PruneRegistry: "a repository with nothing to keep is an app that was
\* deleted", and the sweep takes all of it.
DeletedAppIsSwept ==
    gone /\ sweeps < MaxSweeps /\ (\A n \in Ids : job[n] \notin {"building", "uploaded"})
        /\ Sweeping("idle") /\ (\A n \in Ids : stage[n] \in Finished \cup {"none"})
        ~> \A t \in Commits : ~Tagged(t)

\* A build held back by a sweep goes ahead once the sweep is over.
BuildsAreNotStarved ==
    \A n \in Ids : stage[n] = "queued" ~> stage[n] # "queued"
=============================================================================
