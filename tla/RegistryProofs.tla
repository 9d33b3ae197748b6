--------------------------- MODULE RegistryProofs ---------------------------
(***************************************************************************)
(* The lock of internal/cluster/registry.go does what it is for, as long   *)
(* as builds and sweeps stay with their Jobs to the end: for every number  *)
(* of deployments, commits and sweeps, and whatever fails on the way, no   *)
(* image in the registry ever loses a layer.  And whatever happens, the    *)
(* sweep leaves alone what it found worth keeping, as long as no two       *)
(* commits build to the same manifest.  Before an image there is somebody's*)
(* code: what Detect finds in it is what is built, for every code.         *)
(***************************************************************************)
EXTENDS Registry, Detect, FiniteSetTheorems, WellFoundedInduction, TLAPS

\* Every deployment was made from a commit, every build Job for a deployment.
RowsHaveCommits ==
    \A n \in Ids : /\ stage[n] # "none" => commit[n] \in Commits
                   /\ job[n] # "none" => stage[n] # "none"

BaseInv == TypeOK /\ RowsHaveCommits

\* A build Job runs only while the goroutine that started it holds the lock.
BuildsHoldTheLock ==
    \A n \in Ids : /\ job[n] \in {"building", "uploaded"} => stage[n] = "building"
                   /\ stage[n] \in {"prepare", "building"} => n \in readers

\* The sweep works, and the collector with it, only under the exclusive lock.
SweepHoldsTheLock ==
    /\ sweep.at \in {"read", "list", "delete", "wait"} => readers = {}
    /\ gc.at \in {"start", "marked"} => sweep.at = "wait"

\* Nothing is tagged between the collector's two passes.
MarkedCoversTheTags ==
    gc.at = "marked" => \A t \in Commits : Tagged(t) => manifest[t] \in gc.marked

LockInv ==
    /\ BuildsHoldTheLock
    /\ SweepHoldsTheLock
    /\ MarkedCoversTheTags
    /\ ImagesAreIntact

\* A tag points at what its own commit built.
TagsAreTheirBuilds == \A t \in Commits : Tagged(t) => manifest[t] = ContentOf[t]

\* The list of tags to delete is made from the list of tags to keep.
TodoIsNotKept ==
    /\ \A t \in sweep.todo : t \notin sweep.keep
    /\ sweep.at # "delete" => sweep.todo = {}

KeepInv == TagsAreTheirBuilds /\ TodoIsNotKept

-----------------------------------------------------------------------------
USE DEF Ids

\* The registry starts empty and unlocked.
LEMMA InitInv == Init => BaseInv /\ LockInv /\ KeepInv
<1> SUFFICES ASSUME Init PROVE BaseInv /\ LockInv /\ KeepInv
  OBVIOUS
<1> USE DEF Init, NoSweep, NoGC
<1>1. TypeOK
  <2>1. sweeps \in 0..MaxSweeps
    BY BoundsAssumption
  <2>2. sweep \in [at: {"idle", "lock", "read", "list", "delete", "wait"},
                  keep: SUBSET Commits, todo: SUBSET Commits]
    OBVIOUS
  <2>3. QED
    BY <2>1, <2>2 DEF TypeOK
<1>2. RowsHaveCommits /\ BuildsHoldTheLock /\ SweepHoldsTheLock
  BY DEF RowsHaveCommits, BuildsHoldTheLock, SweepHoldsTheLock
<1>3. MarkedCoversTheTags /\ ImagesAreIntact
  BY DEF MarkedCoversTheTags, ImagesAreIntact, Tagged
<1>4. TagsAreTheirBuilds /\ TodoIsNotKept
  BY DEF TagsAreTheirBuilds, TodoIsNotKept, Tagged
<1>5. QED
  BY <1>1, <1>2, <1>3, <1>4 DEF BaseInv, LockInv, KeepInv

-----------------------------------------------------------------------------
(***************************************************************************)
(* Types, under every fault.                                               *)
(***************************************************************************)
\* Deployments and build Jobs keep the types.
LEMMA BuildStepsKeepBaseInv ==
    ASSUME BaseInv, NEW n \in Ids,
           Deploy(n) \/ Rollback(n) \/ DeployStep(n) \/ BuildJobStep(n) \/ BuildAbandoned(n)
    PROVE  BaseInv'
<1> USE ContentAssumption, TagAssumption, BoundsAssumption
        DEF BaseInv, SweepOnly, deployments, storage, maintenance
<1>1. CASE Deploy(n)
  <2> USE <1>1 DEF Deploy, Create, IsNextNumber, FindDeploymentByFingerprint, CanServe
  <2>1. TypeOK'
    <3>1. PICK c \in Commits : \E i \in Commits \cup {NoTag} : Create(n, c, i)
      BY DEF TypeOK
    <3>2. QED
      BY <3>1 DEF TypeOK
  <2>2. RowsHaveCommits'
    BY DEF RowsHaveCommits, TypeOK, Finished, FindDeploymentByFingerprint, CanServe
  <2>3. QED
    BY <2>1, <2>2
<1>2. CASE Rollback(n)
  <2> USE <1>2 DEF Rollback, Create, IsNextNumber, WithinRollbackWindow, CanServe
  <2>1. TypeOK'
    BY DEF TypeOK, Finished, Tagged, RowsHaveCommits
  <2>2. RowsHaveCommits'
    BY DEF RowsHaveCommits, TypeOK, Finished, FindDeploymentByFingerprint, CanServe
  <2>3. QED
    BY <2>1, <2>2
<1>3. CASE BeginBuild(n)
  <2> USE <1>3 DEF BeginBuild
  <2>1. TypeOK'
    BY DEF TypeOK, Finished, Tagged, RowsHaveCommits
  <2>2. RowsHaveCommits'
    BY DEF RowsHaveCommits, TypeOK, Finished, FindDeploymentByFingerprint, CanServe
  <2>3. QED
    BY <2>1, <2>2
<1>4. CASE StartBuildJob(n)
  <2> USE <1>4 DEF StartBuildJob
  <2>1. TypeOK'
    BY DEF TypeOK, Finished, Tagged, RowsHaveCommits
  <2>2. RowsHaveCommits'
    BY DEF RowsHaveCommits, TypeOK, Finished, FindDeploymentByFingerprint, CanServe
  <2>3. QED
    BY <2>1, <2>2
<1>5. CASE BuildReturns(n)
  <2> USE <1>5 DEF BuildReturns
  <2>1. TypeOK'
    BY DEF TypeOK, Finished, Tagged, RowsHaveCommits
  <2>2. RowsHaveCommits'
    BY DEF RowsHaveCommits, TypeOK, Finished, FindDeploymentByFingerprint, CanServe
  <2>3. QED
    BY <2>1, <2>2
<1>6. CASE SetDeploymentImage(n)
  <2> USE <1>6 DEF SetDeploymentImage
  <2>1. TypeOK'
    BY DEF TypeOK, Finished, Tagged, RowsHaveCommits
  <2>2. RowsHaveCommits'
    BY DEF RowsHaveCommits, TypeOK, Finished, FindDeploymentByFingerprint, CanServe
  <2>3. QED
    BY <2>1, <2>2
<1>7. CASE Rollout(n)
  <2> USE <1>7 DEF Rollout, Pulled
  <2>1. TypeOK'
    BY DEF TypeOK, Finished, Tagged, RowsHaveCommits
  <2>2. RowsHaveCommits'
    BY DEF RowsHaveCommits, TypeOK, Finished, FindDeploymentByFingerprint, CanServe
  <2>3. QED
    BY <2>1, <2>2
<1>8. CASE UploadLayers(n)
  <2> USE <1>8 DEF UploadLayers
  <2>1. TypeOK'
    BY DEF TypeOK, Finished, Tagged, RowsHaveCommits
  <2>2. RowsHaveCommits'
    BY DEF RowsHaveCommits, TypeOK, Finished, FindDeploymentByFingerprint, CanServe
  <2>3. QED
    BY <2>1, <2>2
<1>9. CASE PushManifest(n)
  <2> USE <1>9 DEF PushManifest
  <2>1. TypeOK'
    BY DEF TypeOK, Finished, Tagged, RowsHaveCommits
  <2>2. RowsHaveCommits'
    BY DEF RowsHaveCommits, TypeOK, Finished, FindDeploymentByFingerprint, CanServe
  <2>3. QED
    BY <2>1, <2>2
<1>10. CASE BuildJobFails(n)
  <2> USE <1>10 DEF BuildJobFails
  <2>1. TypeOK'
    BY DEF TypeOK, Finished, Tagged, RowsHaveCommits
  <2>2. RowsHaveCommits'
    BY DEF RowsHaveCommits, TypeOK, Finished, FindDeploymentByFingerprint, CanServe
  <2>3. QED
    BY <2>1, <2>2
<1>11. CASE BuildAbandoned(n)
  <2> USE <1>11 DEF BuildAbandoned
  <2>1. TypeOK'
    BY DEF TypeOK, Finished, Tagged, RowsHaveCommits
  <2>2. RowsHaveCommits'
    BY DEF RowsHaveCommits, TypeOK, Finished, FindDeploymentByFingerprint, CanServe
  <2>3. QED
    BY <2>1, <2>2
<1>12. QED
  BY <1>1, <1>2, <1>3, <1>4, <1>5, <1>6, <1>7, <1>8, <1>9, <1>10, <1>11
     DEF DeployStep, BuildJobStep

\* So do the sweep, the collector, the deletion of the app and a restart.
LEMMA SweepStepsKeepBaseInv ==
    ASSUME BaseInv, DeleteApp \/ SweepDue \/ SweepStep \/ CollectorStep \/ Restart
    PROVE  BaseInv'
<1> USE ContentAssumption, TagAssumption, BoundsAssumption
        DEF BaseInv, SweepOnly, deployments, storage, maintenance
<1>1. CASE DeleteApp
  <2> USE <1>1 DEF DeleteApp
  <2>1. TypeOK'
    BY DEF TypeOK, Finished, Tagged, RowsHaveCommits
  <2>2. RowsHaveCommits'
    BY DEF RowsHaveCommits, TypeOK, Finished, FindDeploymentByFingerprint, CanServe
  <2>3. QED
    BY <2>1, <2>2
<1>2. CASE SweepDue
  <2> USE <1>2 DEF SweepDue, Sweeping, SweepTo
  <2>1. TypeOK'
    <3>1. sweeps' \in 0..MaxSweeps
      BY DEF TypeOK
    <3>2. sweep' \in [at: {"idle", "lock", "read", "list", "delete", "wait"},
                     keep: SUBSET Commits, todo: SUBSET Commits]
      BY DEF TypeOK
    <3>3. QED
      BY <3>1, <3>2 DEF TypeOK
  <2>2. RowsHaveCommits'
    BY DEF RowsHaveCommits, TypeOK, Finished, FindDeploymentByFingerprint, CanServe
  <2>3. QED
    BY <2>1, <2>2
<1>3. CASE SweepLock
  <2> USE <1>3 DEF SweepLock, Sweeping, SweepTo
  <2>1. TypeOK'
    BY DEF TypeOK, Finished, Tagged, RowsHaveCommits
  <2>2. RowsHaveCommits'
    BY DEF RowsHaveCommits, TypeOK, Finished, FindDeploymentByFingerprint, CanServe
  <2>3. QED
    BY <2>1, <2>2
<1>4. CASE SweepRead
  <2> USE <1>4 DEF SweepRead, Sweeping, ImagesWorthKeeping, HasImage
  <2>1. TypeOK'
    <3>5. \A m \in Ids : image[m] \in Commits \cup {NoTag}
      BY DEF TypeOK
    <3>1. ImagesWorthKeeping \in SUBSET Commits
      BY <3>5
    <3>2. sweep' = [sweep EXCEPT !.at = "list", !.keep = ImagesWorthKeeping]
      BY DEF SweepRead
    <3>3. sweep' \in [at: {"idle", "lock", "read", "list", "delete", "wait"},
                     keep: SUBSET Commits, todo: SUBSET Commits]
      BY <3>1, <3>2 DEF TypeOK
    <3>4. QED
      BY <3>3 DEF TypeOK
  <2>2. RowsHaveCommits'
    BY DEF RowsHaveCommits, TypeOK, Finished, FindDeploymentByFingerprint, CanServe
  <2>3. QED
    BY <2>1, <2>2
<1>5. CASE SweepList
  <2> USE <1>5 DEF SweepList, Prunable, Sweeping
  <2>0. PICK todo \in SUBSET Commits : sweep' = [sweep EXCEPT !.at = "delete", !.todo = todo]
    OBVIOUS
  <2>1. TypeOK'
    BY <2>0 DEF TypeOK
  <2>2. RowsHaveCommits'
    BY DEF RowsHaveCommits, TypeOK, Finished, FindDeploymentByFingerprint, CanServe
  <2>3. QED
    BY <2>1, <2>2
<1>6. CASE SweepDelete
  <2> USE <1>6 DEF SweepDelete, DeleteManifest, Sweeping
  <2>0. manifest' \in [Commits -> Contents \cup {NoTag}]
    BY DEF TypeOK, Tagged
  <2>1. TypeOK'
    BY <2>0 DEF TypeOK
  <2>2. RowsHaveCommits'
    BY DEF RowsHaveCommits, TypeOK, Finished, FindDeploymentByFingerprint, CanServe
  <2>3. QED
    BY <2>1, <2>2
<1>7. CASE SweepCollect
  <2> USE <1>7 DEF SweepCollect, Sweeping, SweepTo, NoGC
  <2>1. TypeOK'
    BY DEF TypeOK, Finished, Tagged, RowsHaveCommits
  <2>2. RowsHaveCommits'
    BY DEF RowsHaveCommits, TypeOK, Finished, FindDeploymentByFingerprint, CanServe
  <2>3. QED
    BY <2>1, <2>2
<1>8. CASE SweepReturns
  <2> USE <1>8 DEF SweepReturns, Sweeping, NoSweep
  <2>1. TypeOK'
    BY DEF TypeOK, Finished, Tagged, RowsHaveCommits
  <2>2. RowsHaveCommits'
    BY DEF RowsHaveCommits, TypeOK, Finished, FindDeploymentByFingerprint, CanServe
  <2>3. QED
    BY <2>1, <2>2
<1>9. CASE CollectorMarks
  <2> USE <1>9 DEF CollectorMarks
  <2>1. TypeOK'
    BY DEF TypeOK, Finished, Tagged, RowsHaveCommits
  <2>2. RowsHaveCommits'
    BY DEF RowsHaveCommits, TypeOK, Finished, FindDeploymentByFingerprint, CanServe
  <2>3. QED
    BY <2>1, <2>2
<1>10. CASE CollectorSweeps
  <2> USE <1>10 DEF CollectorSweeps, NoGC
  <2>1. TypeOK'
    BY DEF TypeOK, Finished, Tagged, RowsHaveCommits
  <2>2. RowsHaveCommits'
    BY DEF RowsHaveCommits, TypeOK, Finished, FindDeploymentByFingerprint, CanServe
  <2>3. QED
    BY <2>1, <2>2
<1>11. CASE Restart
  <2> USE <1>11 DEF Restart, Finished, NoSweep
  <2>1. TypeOK'
    BY DEF TypeOK, Finished, Tagged, RowsHaveCommits
  <2>2. RowsHaveCommits'
    BY DEF RowsHaveCommits, TypeOK, Finished, FindDeploymentByFingerprint, CanServe
  <2>3. QED
    BY <2>1, <2>2
<1>12. QED
  BY <1>1, <1>2, <1>3, <1>4, <1>5, <1>6, <1>7, <1>8, <1>9, <1>10, <1>11
     DEF SweepStep, CollectorStep

\* The types and the rows are in order in every reachable state.
LEMMA BaseInvHolds == Spec => []BaseInv
<1>1. ASSUME BaseInv, [Next]_vars PROVE BaseInv'
  <2>1. CASE UNCHANGED vars
    BY <1>1, <2>1 DEF BaseInv, vars, deployments, storage, maintenance, TypeOK,
         RowsHaveCommits
  <2>2. ASSUME NEW n \in Ids,
               Deploy(n) \/ Rollback(n) \/ DeployStep(n) \/ BuildJobStep(n) \/ BuildAbandoned(n)
        PROVE  BaseInv'
    BY <1>1, <2>2, BuildStepsKeepBaseInv
  <2>3. CASE DeleteApp \/ SweepDue \/ SweepStep \/ CollectorStep \/ Restart
    BY <1>1, <2>3, SweepStepsKeepBaseInv
  <2>4. QED
    BY <1>1, <2>1, <2>2, <2>3 DEF Next
<1>2. QED
  BY <1>1, InitInv, PTL DEF Spec

\* Registry keeps its types, whatever is abandoned, fails or restarts.
THEOREM TypeCorrect == Spec => []TypeOK
<1>1. BaseInv => TypeOK
  BY DEF BaseInv
<1>2. QED
  BY <1>1, BaseInvHolds, PTL

-----------------------------------------------------------------------------
(***************************************************************************)
(* The lock, when no build is left behind.                                 *)
(***************************************************************************)
\* Deployments and build Jobs respect the lock.
LEMMA BuildStepsKeepLockInv ==
    ASSUME BaseInv, LockInv, NEW n \in Ids,
           Deploy(n) \/ Rollback(n) \/ DeployStep(n) \/ BuildJobStep(n)
    PROVE  LockInv'
<1> USE ContentAssumption, TagAssumption, BoundsAssumption
        DEF BaseInv, LockInv, SweepOnly, deployments, storage, maintenance
<1>1. CASE Deploy(n)
  <2> USE <1>1 DEF Deploy, Create, IsNextNumber, FindDeploymentByFingerprint, CanServe
  <2>1. BuildsHoldTheLock'
    BY DEF BuildsHoldTheLock, TypeOK, RowsHaveCommits
  <2>2. SweepHoldsTheLock'
    BY DEF SweepHoldsTheLock, BuildsHoldTheLock, TypeOK
  <2>3. MarkedCoversTheTags'
    BY DEF MarkedCoversTheTags, SweepHoldsTheLock, BuildsHoldTheLock, Tagged, TypeOK
  <2>4. ImagesAreIntact'
    BY DEF ImagesAreIntact, MarkedCoversTheTags, Tagged, TypeOK
  <2>5. QED
    BY <2>1, <2>2, <2>3, <2>4
<1>2. CASE Rollback(n)
  <2> USE <1>2 DEF Rollback, Create, IsNextNumber, WithinRollbackWindow, CanServe
  <2>1. BuildsHoldTheLock'
    BY DEF BuildsHoldTheLock, TypeOK, RowsHaveCommits
  <2>2. SweepHoldsTheLock'
    BY DEF SweepHoldsTheLock, BuildsHoldTheLock, TypeOK
  <2>3. MarkedCoversTheTags'
    BY DEF MarkedCoversTheTags, SweepHoldsTheLock, BuildsHoldTheLock, Tagged, TypeOK
  <2>4. ImagesAreIntact'
    BY DEF ImagesAreIntact, MarkedCoversTheTags, Tagged, TypeOK
  <2>5. QED
    BY <2>1, <2>2, <2>3, <2>4
<1>3. CASE BeginBuild(n)
  <2> USE <1>3 DEF BeginBuild
  <2>1. BuildsHoldTheLock'
    BY DEF BuildsHoldTheLock, TypeOK, RowsHaveCommits
  <2>2. SweepHoldsTheLock'
    BY DEF SweepHoldsTheLock, BuildsHoldTheLock, TypeOK
  <2>3. MarkedCoversTheTags'
    BY DEF MarkedCoversTheTags, SweepHoldsTheLock, BuildsHoldTheLock, Tagged, TypeOK
  <2>4. ImagesAreIntact'
    BY DEF ImagesAreIntact, MarkedCoversTheTags, Tagged, TypeOK
  <2>5. QED
    BY <2>1, <2>2, <2>3, <2>4
<1>4. CASE StartBuildJob(n)
  <2> USE <1>4 DEF StartBuildJob
  <2>1. BuildsHoldTheLock'
    BY DEF BuildsHoldTheLock, TypeOK, RowsHaveCommits
  <2>2. SweepHoldsTheLock'
    BY DEF SweepHoldsTheLock, BuildsHoldTheLock, TypeOK
  <2>3. MarkedCoversTheTags'
    BY DEF MarkedCoversTheTags, SweepHoldsTheLock, BuildsHoldTheLock, Tagged, TypeOK
  <2>4. ImagesAreIntact'
    BY DEF ImagesAreIntact, MarkedCoversTheTags, Tagged, TypeOK
  <2>5. QED
    BY <2>1, <2>2, <2>3, <2>4
<1>5. CASE BuildReturns(n)
  <2> USE <1>5 DEF BuildReturns
  <2>1. BuildsHoldTheLock'
    BY DEF BuildsHoldTheLock, TypeOK, RowsHaveCommits
  <2>2. SweepHoldsTheLock'
    BY DEF SweepHoldsTheLock, BuildsHoldTheLock, TypeOK
  <2>3. MarkedCoversTheTags'
    BY DEF MarkedCoversTheTags, SweepHoldsTheLock, BuildsHoldTheLock, Tagged, TypeOK
  <2>4. ImagesAreIntact'
    BY DEF ImagesAreIntact, MarkedCoversTheTags, Tagged, TypeOK
  <2>5. QED
    BY <2>1, <2>2, <2>3, <2>4
<1>6. CASE SetDeploymentImage(n)
  <2> USE <1>6 DEF SetDeploymentImage
  <2>1. BuildsHoldTheLock'
    BY DEF BuildsHoldTheLock, TypeOK, RowsHaveCommits
  <2>2. SweepHoldsTheLock'
    BY DEF SweepHoldsTheLock, BuildsHoldTheLock, TypeOK
  <2>3. MarkedCoversTheTags'
    BY DEF MarkedCoversTheTags, SweepHoldsTheLock, BuildsHoldTheLock, Tagged, TypeOK
  <2>4. ImagesAreIntact'
    BY DEF ImagesAreIntact, MarkedCoversTheTags, Tagged, TypeOK
  <2>5. QED
    BY <2>1, <2>2, <2>3, <2>4
<1>7. CASE Rollout(n)
  <2> USE <1>7 DEF Rollout, Pulled
  <2>1. BuildsHoldTheLock'
    BY DEF BuildsHoldTheLock, TypeOK, RowsHaveCommits
  <2>2. SweepHoldsTheLock'
    BY DEF SweepHoldsTheLock, BuildsHoldTheLock, TypeOK
  <2>3. MarkedCoversTheTags'
    BY DEF MarkedCoversTheTags, SweepHoldsTheLock, BuildsHoldTheLock, Tagged, TypeOK
  <2>4. ImagesAreIntact'
    BY DEF ImagesAreIntact, MarkedCoversTheTags, Tagged, TypeOK
  <2>5. QED
    BY <2>1, <2>2, <2>3, <2>4
<1>8. CASE UploadLayers(n)
  <2> USE <1>8 DEF UploadLayers
  <2>1. BuildsHoldTheLock'
    BY DEF BuildsHoldTheLock, TypeOK, RowsHaveCommits
  <2>2. SweepHoldsTheLock'
    BY DEF SweepHoldsTheLock, BuildsHoldTheLock, TypeOK
  <2>3. MarkedCoversTheTags'
    BY DEF MarkedCoversTheTags, SweepHoldsTheLock, BuildsHoldTheLock, Tagged, TypeOK
  <2>4. ImagesAreIntact'
    BY DEF ImagesAreIntact, MarkedCoversTheTags, Tagged, TypeOK
  <2>5. QED
    BY <2>1, <2>2, <2>3, <2>4
<1>9. CASE PushManifest(n)
  <2> USE <1>9 DEF PushManifest
  <2>1. BuildsHoldTheLock'
    BY DEF BuildsHoldTheLock, TypeOK, RowsHaveCommits
  <2>2. SweepHoldsTheLock'
    BY DEF SweepHoldsTheLock, BuildsHoldTheLock, TypeOK
  <2>3. MarkedCoversTheTags'
    BY DEF MarkedCoversTheTags, SweepHoldsTheLock, BuildsHoldTheLock, Tagged, TypeOK
  <2>4. ImagesAreIntact'
    BY DEF ImagesAreIntact, MarkedCoversTheTags, Tagged, TypeOK
  <2>5. QED
    BY <2>1, <2>2, <2>3, <2>4
<1>10. CASE BuildJobFails(n)
  <2> USE <1>10 DEF BuildJobFails
  <2>1. BuildsHoldTheLock'
    BY DEF BuildsHoldTheLock, TypeOK, RowsHaveCommits
  <2>2. SweepHoldsTheLock'
    BY DEF SweepHoldsTheLock, BuildsHoldTheLock, TypeOK
  <2>3. MarkedCoversTheTags'
    BY DEF MarkedCoversTheTags, SweepHoldsTheLock, BuildsHoldTheLock, Tagged, TypeOK
  <2>4. ImagesAreIntact'
    BY DEF ImagesAreIntact, MarkedCoversTheTags, Tagged, TypeOK
  <2>5. QED
    BY <2>1, <2>2, <2>3, <2>4
<1>11. QED
  BY <1>1, <1>2, <1>3, <1>4, <1>5, <1>6, <1>7, <1>8, <1>9, <1>10
     DEF DeployStep, BuildJobStep

\* So do the sweep, the collector and the deletion of the app.
LEMMA SweepStepsKeepLockInv ==
    ASSUME "collector" \notin Faults, BaseInv, LockInv, DeleteApp \/ SweepDue \/ SweepStep \/ CollectorStep
    PROVE  LockInv'
<1> USE ContentAssumption, TagAssumption, BoundsAssumption
        DEF BaseInv, LockInv, SweepOnly, deployments, storage, maintenance
<1>1. CASE DeleteApp
  <2> USE <1>1 DEF DeleteApp
  <2>1. BuildsHoldTheLock'
    BY DEF BuildsHoldTheLock, TypeOK, RowsHaveCommits
  <2>2. SweepHoldsTheLock'
    BY DEF SweepHoldsTheLock, BuildsHoldTheLock, TypeOK
  <2>3. MarkedCoversTheTags'
    BY DEF MarkedCoversTheTags, SweepHoldsTheLock, BuildsHoldTheLock, Tagged, TypeOK
  <2>4. ImagesAreIntact'
    BY DEF ImagesAreIntact, MarkedCoversTheTags, Tagged, TypeOK
  <2>5. QED
    BY <2>1, <2>2, <2>3, <2>4
<1>2. CASE SweepDue
  <2> USE <1>2 DEF SweepDue, Sweeping, SweepTo
  <2>1. BuildsHoldTheLock'
    BY DEF BuildsHoldTheLock, TypeOK, RowsHaveCommits
  <2>2. SweepHoldsTheLock'
    BY DEF SweepHoldsTheLock, BuildsHoldTheLock, TypeOK
  <2>3. MarkedCoversTheTags'
    BY DEF MarkedCoversTheTags, SweepHoldsTheLock, BuildsHoldTheLock, Tagged, TypeOK
  <2>4. ImagesAreIntact'
    BY DEF ImagesAreIntact, MarkedCoversTheTags, Tagged, TypeOK
  <2>5. QED
    BY <2>1, <2>2, <2>3, <2>4
<1>3. CASE SweepLock
  <2> USE <1>3 DEF SweepLock, Sweeping, SweepTo
  <2>1. BuildsHoldTheLock'
    BY DEF BuildsHoldTheLock, TypeOK, RowsHaveCommits
  <2>2. SweepHoldsTheLock'
    BY DEF SweepHoldsTheLock, BuildsHoldTheLock, TypeOK
  <2>3. MarkedCoversTheTags'
    BY DEF MarkedCoversTheTags, SweepHoldsTheLock, BuildsHoldTheLock, Tagged, TypeOK
  <2>4. ImagesAreIntact'
    BY DEF ImagesAreIntact, MarkedCoversTheTags, Tagged, TypeOK
  <2>5. QED
    BY <2>1, <2>2, <2>3, <2>4
<1>4. CASE SweepRead
  <2> USE <1>4 DEF SweepRead, Sweeping, ImagesWorthKeeping, HasImage
  <2>1. BuildsHoldTheLock'
    BY DEF BuildsHoldTheLock, TypeOK, RowsHaveCommits
  <2>2. SweepHoldsTheLock'
    BY DEF SweepHoldsTheLock, BuildsHoldTheLock, TypeOK
  <2>3. MarkedCoversTheTags'
    BY DEF MarkedCoversTheTags, SweepHoldsTheLock, BuildsHoldTheLock, Tagged, TypeOK
  <2>4. ImagesAreIntact'
    BY DEF ImagesAreIntact, MarkedCoversTheTags, Tagged, TypeOK
  <2>5. QED
    BY <2>1, <2>2, <2>3, <2>4
<1>5. CASE SweepList
  <2> USE <1>5 DEF SweepList, Prunable, Sweeping
  <2>1. BuildsHoldTheLock'
    BY DEF BuildsHoldTheLock, TypeOK, RowsHaveCommits
  <2>2. SweepHoldsTheLock'
    BY DEF SweepHoldsTheLock, BuildsHoldTheLock, TypeOK
  <2>3. MarkedCoversTheTags'
    BY DEF MarkedCoversTheTags, SweepHoldsTheLock, BuildsHoldTheLock, Tagged, TypeOK
  <2>4. ImagesAreIntact'
    BY DEF ImagesAreIntact, MarkedCoversTheTags, Tagged, TypeOK
  <2>5. QED
    BY <2>1, <2>2, <2>3, <2>4
<1>6. CASE SweepDelete
  <2> USE <1>6 DEF SweepDelete, DeleteManifest, Sweeping
  <2>1. BuildsHoldTheLock'
    BY DEF BuildsHoldTheLock, TypeOK, RowsHaveCommits
  <2>2. SweepHoldsTheLock'
    BY DEF SweepHoldsTheLock, BuildsHoldTheLock, TypeOK
  <2>3. MarkedCoversTheTags'
    BY DEF MarkedCoversTheTags, SweepHoldsTheLock, BuildsHoldTheLock, Tagged, TypeOK
  <2>4. ImagesAreIntact'
    BY DEF ImagesAreIntact, MarkedCoversTheTags, Tagged, TypeOK
  <2>5. QED
    BY <2>1, <2>2, <2>3, <2>4
<1>7. CASE SweepCollect
  <2> USE <1>7 DEF SweepCollect, Sweeping, SweepTo, NoGC
  <2>1. BuildsHoldTheLock'
    BY DEF BuildsHoldTheLock, TypeOK, RowsHaveCommits
  <2>2. SweepHoldsTheLock'
    BY DEF SweepHoldsTheLock, BuildsHoldTheLock, TypeOK
  <2>3. MarkedCoversTheTags'
    BY DEF MarkedCoversTheTags, SweepHoldsTheLock, BuildsHoldTheLock, Tagged, TypeOK
  <2>4. ImagesAreIntact'
    BY DEF ImagesAreIntact, MarkedCoversTheTags, Tagged, TypeOK
  <2>5. QED
    BY <2>1, <2>2, <2>3, <2>4
<1>8. CASE SweepReturns
  <2> USE <1>8 DEF SweepReturns, Sweeping, NoSweep
  <2>1. BuildsHoldTheLock'
    BY DEF BuildsHoldTheLock, TypeOK, RowsHaveCommits
  <2>2. SweepHoldsTheLock'
    BY DEF SweepHoldsTheLock, BuildsHoldTheLock, TypeOK
  <2>3. MarkedCoversTheTags'
    BY DEF MarkedCoversTheTags, SweepHoldsTheLock, BuildsHoldTheLock, Tagged, TypeOK
  <2>4. ImagesAreIntact'
    BY DEF ImagesAreIntact, MarkedCoversTheTags, Tagged, TypeOK
  <2>5. QED
    BY <2>1, <2>2, <2>3, <2>4
<1>9. CASE CollectorMarks
  <2> USE <1>9 DEF CollectorMarks
  <2>1. BuildsHoldTheLock'
    BY DEF BuildsHoldTheLock, TypeOK, RowsHaveCommits
  <2>2. SweepHoldsTheLock'
    BY DEF SweepHoldsTheLock, BuildsHoldTheLock, TypeOK
  <2>3. MarkedCoversTheTags'
    BY DEF MarkedCoversTheTags, SweepHoldsTheLock, BuildsHoldTheLock, Tagged, TypeOK
  <2>4. ImagesAreIntact'
    BY DEF ImagesAreIntact, MarkedCoversTheTags, Tagged, TypeOK
  <2>5. QED
    BY <2>1, <2>2, <2>3, <2>4
<1>10. CASE CollectorSweeps
  <2> USE <1>10 DEF CollectorSweeps, NoGC
  <2>1. BuildsHoldTheLock'
    BY DEF BuildsHoldTheLock, TypeOK, RowsHaveCommits
  <2>2. SweepHoldsTheLock'
    BY DEF SweepHoldsTheLock, BuildsHoldTheLock, TypeOK
  <2>3. MarkedCoversTheTags'
    BY DEF MarkedCoversTheTags, SweepHoldsTheLock, BuildsHoldTheLock, Tagged, TypeOK
  <2>4. ImagesAreIntact'
    BY DEF ImagesAreIntact, MarkedCoversTheTags, Tagged, TypeOK
  <2>5. QED
    BY <2>1, <2>2, <2>3, <2>4
<1>11. QED
  BY <1>1, <1>2, <1>3, <1>4, <1>5, <1>6, <1>7, <1>8, <1>9, <1>10
     DEF SweepStep, CollectorStep

\* The lock is respected throughout, unless a build is left behind.
LEMMA LockInvHolds ==
    ASSUME "abandon" \notin Faults, "restart" \notin Faults, "collector" \notin Faults
    PROVE  Spec => []LockInv
<1>1. ASSUME BaseInv, LockInv, [Next]_vars PROVE LockInv'
  <2>1. CASE UNCHANGED vars
    BY <1>1, <2>1 DEF LockInv, vars, deployments, storage, maintenance, BuildsHoldTheLock,
                      SweepHoldsTheLock, MarkedCoversTheTags, ImagesAreIntact, Tagged
  <2>2. ASSUME NEW n \in Ids, Deploy(n) \/ Rollback(n) \/ DeployStep(n) \/ BuildJobStep(n)
        PROVE  LockInv'
    BY <1>1, <2>2, BuildStepsKeepLockInv
  <2>3. CASE DeleteApp \/ SweepDue \/ SweepStep \/ CollectorStep
    BY <1>1, <2>3, SweepStepsKeepLockInv
  <2>4. QED
    BY <1>1, <2>1, <2>2, <2>3 DEF Next, BuildAbandoned, Restart
<1>2. QED
  BY <1>1, InitInv, BaseInvHolds, PTL DEF Spec

\* BeginBuild and CollectRegistryGarbage: unless a build is left behind or the
\* collector outlives the wait for it, every tagged image is complete, whatever
\* fails and whatever the collector deletes.
THEOREM TheLockProtectsImages ==
    ASSUME "abandon" \notin Faults, "restart" \notin Faults, "collector" \notin Faults
    PROVE  Spec => []ImagesAreIntact
<1>1. LockInv => ImagesAreIntact
  BY DEF LockInv
<1>2. QED
  BY <1>1, LockInvHolds, PTL

\* The reason: where neither is left behind, the collector never runs while a
\* build Job can push.
THEOREM TheLockHoldsPushes ==
    ASSUME "abandon" \notin Faults, "restart" \notin Faults, "collector" \notin Faults
    PROVE  Spec => []NoPushDuringCollection
<1>1. LockInv => NoPushDuringCollection
  BY DEF LockInv, NoPushDuringCollection, SweepHoldsTheLock, BuildsHoldTheLock
<1>2. QED
  BY <1>1, LockInvHolds, PTL

-----------------------------------------------------------------------------
(***************************************************************************)
(* What the sweep keeps, when no two commits build to the same manifest.   *)
(***************************************************************************)
\* A push tags a commit with what it built.
LEMMA BuildStepsKeepKeepInv ==
    ASSUME BaseInv, KeepInv, NEW n \in Ids,
           Deploy(n) \/ Rollback(n) \/ DeployStep(n) \/ BuildJobStep(n) \/ BuildAbandoned(n)
    PROVE  KeepInv'
<1> USE ContentAssumption, TagAssumption, BoundsAssumption
        DEF BaseInv, KeepInv, SweepOnly, deployments, storage, maintenance
<1>1. CASE Deploy(n)
  <2> USE <1>1 DEF Deploy, Create, IsNextNumber, FindDeploymentByFingerprint, CanServe
  <2>1. TagsAreTheirBuilds'
    BY DEF TagsAreTheirBuilds, Tagged, TypeOK, RowsHaveCommits
  <2>2. TodoIsNotKept'
    BY DEF TodoIsNotKept, TypeOK
  <2>3. QED
    BY <2>1, <2>2
<1>2. CASE Rollback(n)
  <2> USE <1>2 DEF Rollback, Create, IsNextNumber, WithinRollbackWindow, CanServe
  <2>1. TagsAreTheirBuilds'
    BY DEF TagsAreTheirBuilds, Tagged, TypeOK, RowsHaveCommits
  <2>2. TodoIsNotKept'
    BY DEF TodoIsNotKept, TypeOK
  <2>3. QED
    BY <2>1, <2>2
<1>3. CASE BeginBuild(n)
  <2> USE <1>3 DEF BeginBuild
  <2>1. TagsAreTheirBuilds'
    BY DEF TagsAreTheirBuilds, Tagged, TypeOK, RowsHaveCommits
  <2>2. TodoIsNotKept'
    BY DEF TodoIsNotKept, TypeOK
  <2>3. QED
    BY <2>1, <2>2
<1>4. CASE StartBuildJob(n)
  <2> USE <1>4 DEF StartBuildJob
  <2>1. TagsAreTheirBuilds'
    BY DEF TagsAreTheirBuilds, Tagged, TypeOK, RowsHaveCommits
  <2>2. TodoIsNotKept'
    BY DEF TodoIsNotKept, TypeOK
  <2>3. QED
    BY <2>1, <2>2
<1>5. CASE BuildReturns(n)
  <2> USE <1>5 DEF BuildReturns
  <2>1. TagsAreTheirBuilds'
    BY DEF TagsAreTheirBuilds, Tagged, TypeOK, RowsHaveCommits
  <2>2. TodoIsNotKept'
    BY DEF TodoIsNotKept, TypeOK
  <2>3. QED
    BY <2>1, <2>2
<1>6. CASE SetDeploymentImage(n)
  <2> USE <1>6 DEF SetDeploymentImage
  <2>1. TagsAreTheirBuilds'
    BY DEF TagsAreTheirBuilds, Tagged, TypeOK, RowsHaveCommits
  <2>2. TodoIsNotKept'
    BY DEF TodoIsNotKept, TypeOK
  <2>3. QED
    BY <2>1, <2>2
<1>7. CASE Rollout(n)
  <2> USE <1>7 DEF Rollout, Pulled
  <2>1. TagsAreTheirBuilds'
    BY DEF TagsAreTheirBuilds, Tagged, TypeOK, RowsHaveCommits
  <2>2. TodoIsNotKept'
    BY DEF TodoIsNotKept, TypeOK
  <2>3. QED
    BY <2>1, <2>2
<1>8. CASE UploadLayers(n)
  <2> USE <1>8 DEF UploadLayers
  <2>1. TagsAreTheirBuilds'
    BY DEF TagsAreTheirBuilds, Tagged, TypeOK, RowsHaveCommits
  <2>2. TodoIsNotKept'
    BY DEF TodoIsNotKept, TypeOK
  <2>3. QED
    BY <2>1, <2>2
<1>9. CASE PushManifest(n)
  <2> USE <1>9 DEF PushManifest
  <2>1. TagsAreTheirBuilds'
    BY DEF TagsAreTheirBuilds, Tagged, TypeOK, RowsHaveCommits
  <2>2. TodoIsNotKept'
    BY DEF TodoIsNotKept, TypeOK
  <2>3. QED
    BY <2>1, <2>2
<1>10. CASE BuildJobFails(n)
  <2> USE <1>10 DEF BuildJobFails
  <2>1. TagsAreTheirBuilds'
    BY DEF TagsAreTheirBuilds, Tagged, TypeOK, RowsHaveCommits
  <2>2. TodoIsNotKept'
    BY DEF TodoIsNotKept, TypeOK
  <2>3. QED
    BY <2>1, <2>2
<1>11. CASE BuildAbandoned(n)
  <2> USE <1>11 DEF BuildAbandoned
  <2>1. TagsAreTheirBuilds'
    BY DEF TagsAreTheirBuilds, Tagged, TypeOK, RowsHaveCommits
  <2>2. TodoIsNotKept'
    BY DEF TodoIsNotKept, TypeOK
  <2>3. QED
    BY <2>1, <2>2
<1>12. QED
  BY <1>1, <1>2, <1>3, <1>4, <1>5, <1>6, <1>7, <1>8, <1>9, <1>10, <1>11
     DEF DeployStep, BuildJobStep

\* The sweep makes its list once and works through it.
LEMMA SweepStepsKeepKeepInv ==
    ASSUME BaseInv, KeepInv, DeleteApp \/ SweepDue \/ SweepStep \/ CollectorStep \/ Restart
    PROVE  KeepInv'
<1> USE ContentAssumption, TagAssumption, BoundsAssumption
        DEF BaseInv, KeepInv, SweepOnly, deployments, storage, maintenance
<1>1. CASE DeleteApp
  <2> USE <1>1 DEF DeleteApp
  <2>1. TagsAreTheirBuilds'
    BY DEF TagsAreTheirBuilds, Tagged, TypeOK, RowsHaveCommits
  <2>2. TodoIsNotKept'
    BY DEF TodoIsNotKept, TypeOK
  <2>3. QED
    BY <2>1, <2>2
<1>2. CASE SweepDue
  <2> USE <1>2 DEF SweepDue, Sweeping, SweepTo
  <2>1. TagsAreTheirBuilds'
    BY DEF TagsAreTheirBuilds, Tagged, TypeOK, RowsHaveCommits
  <2>2. TodoIsNotKept'
    BY DEF TodoIsNotKept, TypeOK
  <2>3. QED
    BY <2>1, <2>2
<1>3. CASE SweepLock
  <2> USE <1>3 DEF SweepLock, Sweeping, SweepTo
  <2>1. TagsAreTheirBuilds'
    BY DEF TagsAreTheirBuilds, Tagged, TypeOK, RowsHaveCommits
  <2>2. TodoIsNotKept'
    BY DEF TodoIsNotKept, TypeOK
  <2>3. QED
    BY <2>1, <2>2
<1>4. CASE SweepRead
  <2> USE <1>4 DEF SweepRead, Sweeping, ImagesWorthKeeping, HasImage
  <2>1. TagsAreTheirBuilds'
    BY DEF TagsAreTheirBuilds, Tagged, TypeOK, RowsHaveCommits
  <2>2. TodoIsNotKept'
    BY DEF TodoIsNotKept, TypeOK
  <2>3. QED
    BY <2>1, <2>2
<1>5. CASE SweepList
  <2> USE <1>5 DEF SweepList, Prunable, Sweeping
  <2>1. TagsAreTheirBuilds'
    BY DEF TagsAreTheirBuilds, Tagged, TypeOK, RowsHaveCommits
  <2>2. TodoIsNotKept'
    BY DEF TodoIsNotKept, TypeOK
  <2>3. QED
    BY <2>1, <2>2
<1>6. CASE SweepDelete
  <2> USE <1>6 DEF SweepDelete, DeleteManifest, Sweeping
  <2>1. TagsAreTheirBuilds'
    BY DEF TagsAreTheirBuilds, Tagged, TypeOK, RowsHaveCommits
  <2>2. TodoIsNotKept'
    BY DEF TodoIsNotKept, TypeOK
  <2>3. QED
    BY <2>1, <2>2
<1>7. CASE SweepCollect
  <2> USE <1>7 DEF SweepCollect, Sweeping, SweepTo, NoGC
  <2>1. TagsAreTheirBuilds'
    BY DEF TagsAreTheirBuilds, Tagged, TypeOK, RowsHaveCommits
  <2>2. TodoIsNotKept'
    BY DEF TodoIsNotKept, TypeOK
  <2>3. QED
    BY <2>1, <2>2
<1>8. CASE SweepReturns
  <2> USE <1>8 DEF SweepReturns, Sweeping, NoSweep
  <2>1. TagsAreTheirBuilds'
    BY DEF TagsAreTheirBuilds, Tagged, TypeOK, RowsHaveCommits
  <2>2. TodoIsNotKept'
    BY DEF TodoIsNotKept, TypeOK
  <2>3. QED
    BY <2>1, <2>2
<1>9. CASE CollectorMarks
  <2> USE <1>9 DEF CollectorMarks
  <2>1. TagsAreTheirBuilds'
    BY DEF TagsAreTheirBuilds, Tagged, TypeOK, RowsHaveCommits
  <2>2. TodoIsNotKept'
    BY DEF TodoIsNotKept, TypeOK
  <2>3. QED
    BY <2>1, <2>2
<1>10. CASE CollectorSweeps
  <2> USE <1>10 DEF CollectorSweeps, NoGC
  <2>1. TagsAreTheirBuilds'
    BY DEF TagsAreTheirBuilds, Tagged, TypeOK, RowsHaveCommits
  <2>2. TodoIsNotKept'
    BY DEF TodoIsNotKept, TypeOK
  <2>3. QED
    BY <2>1, <2>2
<1>11. CASE Restart
  <2> USE <1>11 DEF Restart, Finished, NoSweep
  <2>1. TagsAreTheirBuilds'
    BY DEF TagsAreTheirBuilds, Tagged, TypeOK, RowsHaveCommits
  <2>2. TodoIsNotKept'
    BY DEF TodoIsNotKept, TypeOK
  <2>3. QED
    BY <2>1, <2>2
<1>12. QED
  BY <1>1, <1>2, <1>3, <1>4, <1>5, <1>6, <1>7, <1>8, <1>9, <1>10, <1>11
     DEF SweepStep, CollectorStep

\* The list of tags to delete stays what it was made from.
LEMMA KeepInvHolds == Spec => []KeepInv
<1>1. ASSUME BaseInv, KeepInv, [Next]_vars PROVE KeepInv'
  <2>1. CASE UNCHANGED vars
    BY <1>1, <2>1 DEF KeepInv, vars, storage, maintenance, TagsAreTheirBuilds,
         TodoIsNotKept, Tagged
  <2>2. ASSUME NEW n \in Ids,
               Deploy(n) \/ Rollback(n) \/ DeployStep(n) \/ BuildJobStep(n) \/ BuildAbandoned(n)
        PROVE  KeepInv'
    BY <1>1, <2>2, BuildStepsKeepKeepInv
  <2>3. CASE DeleteApp \/ SweepDue \/ SweepStep \/ CollectorStep \/ Restart
    BY <1>1, <2>3, SweepStepsKeepKeepInv
  <2>4. QED
    BY <1>1, <2>1, <2>2, <2>3 DEF Next
<1>2. QED
  BY <1>1, InitInv, BaseInvHolds, PTL DEF Spec

\* PruneRegistry: what ImagesWorthKeeping named when the sweep read it is
\* still tagged when the sweep is over, whatever is pushed, abandoned or
\* restarted meanwhile.
THEOREM WhatIsKeptStays ==
    ASSUME \A c, d \in Commits : ContentOf[c] = ContentOf[d] => c = d
    PROVE  Spec => KeptTagsStay
<1>1. ASSUME BaseInv, KeepInv, [Next]_vars
      PROVE  \A t \in Commits : Tagged(t) /\ t \in sweep.keep => manifest'[t] # NoTag
  <2>1. CASE UNCHANGED manifest
    BY <2>1 DEF Tagged
  <2>2. ASSUME NEW n \in Ids, PushManifest(n)
        PROVE  \A t \in Commits : Tagged(t) => manifest'[t] # NoTag
    BY <1>1, <2>2, ContentAssumption, TagAssumption
       DEF PushManifest, BaseInv, RowsHaveCommits, TypeOK, Tagged
  <2>3. ASSUME NEW t \in sweep.todo, DeleteManifest(t)
        PROVE  \A u \in Commits : Tagged(u) /\ u \in sweep.keep => manifest'[u] # NoTag
    BY <1>1, <2>3 DEF DeleteManifest, BaseInv, TypeOK, KeepInv, TagsAreTheirBuilds,
                      TodoIsNotKept, Tagged
  <2>4. ASSUME NEW n \in Ids,
               Deploy(n) \/ Rollback(n) \/ DeployStep(n) \/ BuildJobStep(n) \/ BuildAbandoned(n)
        PROVE  UNCHANGED manifest \/ PushManifest(n)
    BY <2>4 DEF Deploy, Rollback, Create, DeployStep, BeginBuild, StartBuildJob,
         BuildReturns,
                SetDeploymentImage, Rollout, BuildJobStep, UploadLayers, BuildJobFails,
                BuildAbandoned, storage
  <2>5. ASSUME DeleteApp \/ SweepDue \/ SweepStep \/ CollectorStep \/ Restart
        PROVE  UNCHANGED manifest \/ \E t \in sweep.todo : DeleteManifest(t)
    BY <2>5 DEF DeleteApp, SweepDue, SweepStep, SweepLock, SweepRead, SweepList,
         SweepDelete,
                SweepCollect, SweepReturns, CollectorStep, CollectorMarks, CollectorSweeps,
                Restart, storage
  <2>6. CASE UNCHANGED vars
    BY <2>1, <2>6 DEF vars, storage
  <2>7. QED
    BY <1>1, <2>1, <2>2, <2>3, <2>4, <2>5, <2>6 DEF Next
<1>2. QED
  BY <1>1, BaseInvHolds, KeepInvHolds, PTL DEF Spec, KeptTagsStay

-----------------------------------------------------------------------------
(* From a folder to a build.                                               *)

LEMMA LeastOf == ASSUME NEW T, T \subseteq Nat, T # {} PROVE \E m \in T : \A y \in T : m <= y
<1>1. PICK m \in T : \A y \in T : ~(<<y, m>> \in OpToRel(<, Nat))
  BY NatLessThanWellFounded, WFMin
<1>2. \A y \in T : y < m => <<y, m>> \in OpToRel(<, Nat)
  BY DEF OpToRel
<1>3. \A y \in T : ~(y < m)
  BY <1>1, <1>2
<1>4. \A y \in T : y \in Nat /\ m \in Nat
  OBVIOUS
<1>5. QED BY <1>3, <1>4

\* What First picks is in the sequence and wanted, and it picks something when something is.
LEMMA FirstIs ==
    ASSUME NEW S, NEW s \in Seq(S), NEW W
    PROVE  /\ First(s, W) = <<>> \/ \E x \in S \cap W : x \in ToSet(s) /\ First(s, W) = <<x>>
           /\ First(s, W) # <<>> => First(s, W)[1] \in S \cap W \cap ToSet(s)
<1> DEFINE at == {i \in DOMAIN s : s[i] \in W}
<1>1. DOMAIN s \subseteq Nat /\ \A i \in DOMAIN s : s[i] \in S /\ s[i] \in ToSet(s)
  BY DEF ToSet
<1>2. CASE at = {}
  <2>1. First(s, W) = <<>>
    BY <1>2 DEF First
  <2>2. QED BY <2>1
<1>3. CASE at # {}
  <2> DEFINE i == CHOOSE k \in at : \A j \in at : k <= j
  <2>1. at \subseteq Nat
    BY <1>1
  <2>2. \E k \in at : \A j \in at : k <= j
    BY <1>3, <2>1, LeastOf
  <2>3. i \in at
    BY <2>2
  <2>4. First(s, W) = <<s[i]>>
    BY <1>3 DEF First
  <2> HIDE DEF i
  <2>5. s[i] \in S \cap W /\ s[i] \in ToSet(s)
    BY <1>1, <2>3
  <2>6. <<s[i]>>[1] = s[i]
    OBVIOUS
  <2>7. QED BY <2>4, <2>5, <2>6
<1>4. QED BY <1>2, <1>3

TreeType == [files : SUBSET Seq(STRING), deps : SUBSET (STRING \X STRING), scripts : SUBSET STRING,
             parsed : BOOLEAN, schema : [engine : STRING, variable : STRING], connection : STRING,
             example : SUBSET STRING]

Served == {r.dir : r \in ToSet(NodeRules)} \cup {"", ".", "public", "dist", "site"}
\* What a guess says: an app the default builder builds, or a directory that is served.
Languages == {"Node.js", "Python", "Go", "PHP", "Ruby", "Rust", "Java", "Static site", "unknown"}
GuessType == [builder : {"railpack", "static"}, language : Languages, port : Nat, confidence : {"high", "medium", "low"},
              dockerfile : {<<>>}, static : Served, command : BOOLEAN]
GuessOK(d) == d \in GuessType /\ (d.builder = "static" => d.static # "")

LEMMA PlainIs == ASSUME NEW l \in Languages, NEW p \in Nat PROVE Plain(l, p) \in GuessType /\ GuessOK(Plain(l, p))
BY DEF Plain, GuessOK, GuessType, Served
LEMMA ServedIs ==
    ASSUME NEW d \in GuessType, NEW w \in Served, w # ""
    PROVE  /\ GuessOK([d EXCEPT !.builder = "static", !.static = w])
           /\ GuessOK([d EXCEPT !.builder = "static", !.static = w, !.command = TRUE])
BY DEF GuessOK, GuessType
LEMMA UnservedIs ==
    ASSUME NEW d \in GuessType, d.builder = "railpack", NEW w \in Served, NEW c \in {"high", "medium", "low"}
    PROVE  GuessOK([d EXCEPT !.static = w, !.confidence = c])
BY DEF GuessOK, GuessType
LEMMA SureIs ==
    ASSUME NEW d, GuessOK(d), NEW c \in {"high", "medium", "low"} PROVE GuessOK([d EXCEPT !.confidence = c])
BY DEF GuessOK, GuessType
LEMMA LanguagesAre ==
    /\ \A p \in Nat, l \in Languages : Plain(l, p) \in GuessType /\ GuessOK(Plain(l, p)) /\ Plain(l, p).builder = "railpack"
    /\ {"Node.js", "Python", "Go", "PHP", "Ruby", "Rust", "Java", "Static site", "unknown"} \subseteq Languages
<1>1. \A p \in Nat, l \in Languages : Plain(l, p).builder = "railpack"
  BY DEF Plain
<1>2. QED BY <1>1, PlainIs DEF Languages

\* What a table of rules makes of a package.json.
ByRule(l, p, q, rules) ==
    IF rules = <<>> THEN Plain(l, p)
    ELSE IF rules[1].dir = "" THEN Plain(l, rules[1].port)
    ELSE [Plain(l, q) EXCEPT !.builder = "static", !.static = rules[1].dir, !.command = TRUE]
LEMMA ByRuleIs ==
    ASSUME NEW l \in Languages, NEW p \in Nat, NEW q \in Nat, NEW rules, rules = <<>> \/ (rules[1].port \in Nat /\ rules[1].dir \in Served)
    PROVE  GuessOK(ByRule(l, p, q, rules))
<1>1. l \in Languages
  OBVIOUS
<1>2. Plain(l, q) \in GuessType /\ GuessOK(Plain(l, p))
  <2>1. Plain(l, q) \in GuessType
    BY <1>1, PlainIs
  <2>2. GuessOK(Plain(l, p))
    BY <1>1, PlainIs
  <2>3. QED BY <2>1, <2>2
<1>3. CASE rules = <<>>
  BY <1>2, <1>3 DEF ByRule
<1>4. CASE rules # <<>> /\ rules[1].dir = ""
  <2>1. GuessOK(Plain(l, rules[1].port))
    BY <1>1, <1>4, PlainIs
  <2>2. ByRule(l, p, q, rules) = Plain(l, rules[1].port)
    BY <1>4 DEF ByRule
  <2>3. QED BY <2>1, <2>2
<1>5. CASE rules # <<>> /\ rules[1].dir # ""
  <2>1. PICK w \in Served : w = rules[1].dir /\ w # ""
    BY <1>5
  <2>2. GuessOK([Plain(l, q) EXCEPT !.builder = "static", !.static = w, !.command = TRUE])
    BY <1>2, <2>1, ServedIs, Zenon
  <2>3. ByRule(l, p, q, rules) = [Plain(l, q) EXCEPT !.builder = "static", !.static = w, !.command = TRUE]
    BY <1>5, <2>1 DEF ByRule
  <2>4. QED BY <2>2, <2>3
<1>6. QED BY <1>3, <1>4, <1>5

LEMMA GuessesAre == ASSUME NEW tree PROVE Guesses(tree) \in Seq({Absent} \cup {d \in GuessType : GuessOK(d)})
<1> DEFINE G == {Absent} \cup {d \in GuessType : GuessOK(d)}
<1>0. \A d : GuessOK(d) => d \in G
  BY DEF GuessOK
<1>1. DetectNode(tree) \in G
  <2> DEFINE wanted == {r \in ToSet(NodeRules) : /\ \E x \in {"node", "dev"} : <<x, r.dep>> \in tree.deps
                                                 /\ r.dir # "" => "build" \in tree.scripts}
             rules == First(NodeRules, wanted)
             d == IF rules = <<>> THEN Plain("Node.js", 3000)
                  ELSE IF rules[1].dir = "" THEN Plain("Node.js", rules[1].port)
                  ELSE [Plain("Node.js", 80) EXCEPT !.builder = "static", !.static = rules[1].dir, !.command = TRUE]
             sure == tree.parsed /\ ("start" \in tree.scripts \/ d.builder = "static")
  <2>1. rules = <<>> \/ rules[1] \in [dep : STRING, port : Nat, dir : STRING]
    BY DetectAssumption, FirstIs
  <2>1a. rules = <<>> \/ rules[1].dir \in Served
    <3>1. rules = <<>> \/ rules[1] \in ToSet(NodeRules)
      BY DetectAssumption, FirstIs
    <3> HIDE DEF rules
    <3>2. QED BY <3>1 DEF Served
  <2>2. GuessOK(d)
    <3>1. "Node.js" \in Languages
      BY DEF Languages
    <3>2. GuessOK(ByRule("Node.js", 3000, 80, rules))
      <4> HIDE DEF rules
      <4>1. rules = <<>> \/ (rules[1].port \in Nat /\ rules[1].dir \in Served)
        BY <2>1, <2>1a
      <4>2. \A p \in Nat, q \in Nat : GuessOK(ByRule("Node.js", p, q, rules))
        BY <3>1, <4>1, ByRuleIs
      <4>3. 3000 \in Nat /\ 80 \in Nat
        OBVIOUS
      <4>4. QED BY <4>2, <4>3
    <3>3. d = ByRule("Node.js", 3000, 80, rules)
      BY DEF ByRule
    <3> HIDE DEF d, rules
    <3>4. QED BY <3>2, <3>3
  <2>3. GuessOK([d EXCEPT !.confidence = IF sure THEN "high" ELSE "medium"])
    <3> HIDE DEF d, sure
    <3>1. QED BY <2>2, SureIs
  <2>4. DetectNode(tree) = Absent \/ DetectNode(tree) = [d EXCEPT !.confidence = IF sure THEN "high" ELSE "medium"]
    BY DEF DetectNode
  <2>5. QED BY <1>0, <2>3, <2>4
<1>2. DetectPython(tree) \in G /\ DetectGo(tree) \in G /\ DetectRuby(tree) \in G /\ DetectRust(tree) \in G /\ DetectJava(tree) \in G
  <2>1. /\ DetectPython(tree) \in {Absent, Plain("Python", 8501), Plain("Python", 8000)}
        /\ DetectGo(tree) \in {Absent, Plain("Go", 8080)} /\ DetectRuby(tree) \in {Absent, Plain("Ruby", 3000)}
        /\ DetectRust(tree) \in {Absent, Plain("Rust", 8080)} /\ DetectJava(tree) \in {Absent, Plain("Java", 8080)}
    BY DEF DetectPython, DetectGo, DetectRuby, DetectRust, DetectJava
  <2>2. {"Python", "Go", "Ruby", "Rust", "Java"} \subseteq Languages
    BY DEF Languages
  <2>3. \A l \in {"Python", "Go", "Ruby", "Rust", "Java"} : \A p \in {8501, 8000, 8080, 3000} : Plain(l, p) \in G
    <3>1. {8501, 8000, 8080, 3000} \subseteq Nat
      OBVIOUS
    <3>2. \A l \in Languages, p \in Nat : Plain(l, p) \in G
      BY <1>0, PlainIs
    <3> HIDE DEF G
    <3>3. QED BY <2>2, <3>1, <3>2
  <2> HIDE DEF G
  <2>4. Absent \in G
    BY DEF G
  <2>5. QED BY <2>1, <2>3, <2>4
<1>3. DetectPHP(tree) \in G
  <2>1. PICK s \in {"public", ""}, c \in {"high", "medium"} :
            DetectPHP(tree) \in {Absent, [Plain("PHP", 80) EXCEPT !.static = s, !.confidence = c]}
    BY DEF DetectPHP
  <2>2. "PHP" \in Languages /\ 80 \in Nat /\ s \in Served /\ c \in {"high", "medium", "low"}
    BY LanguagesAre DEF Served
  <2>3. GuessOK([Plain("PHP", 80) EXCEPT !.static = s, !.confidence = c])
    BY <2>2, LanguagesAre, UnservedIs
  <2>4. QED BY <1>0, <2>1, <2>3
<1>4. DetectStatic(tree) \in G
  <2> DEFINE places == First(StaticPlaces, tree.files)
  <2>1. StaticPlaces \in Seq({<<"dist", "index.html">>, <<"public", "index.html">>, <<"site", "index.html">>})
    BY DEF StaticPlaces
  <2>2. places = <<>> \/ places[1] \in {<<"dist", "index.html">>, <<"public", "index.html">>, <<"site", "index.html">>}
    BY <2>1, FirstIs
  <2>3. places = <<>> \/ places[1][1] \in {"dist", "public", "site"}
    BY <2>2
  <2> HIDE DEF places
  <2>4. CASE DetectStatic(tree) = Absent
    BY <2>4
  <2>5. CASE DetectStatic(tree) = [Plain("Static site", 80) EXCEPT !.builder = "static",
                                        !.static = IF places = <<>> THEN "." ELSE places[1][1]]
    <3> DEFINE where == IF places = <<>> THEN "." ELSE places[1][1]
    <3>1. where \in {".", "dist", "public", "site"}
      BY <2>3
    <3> HIDE DEF where
    <3>2. GuessOK([Plain("Static site", 80) EXCEPT !.builder = "static", !.static = where])
      <4>1. where \in Served /\ where # ""
        BY <3>1 DEF Served
      <4>2. "Static site" \in Languages /\ 80 \in Nat
        BY LanguagesAre
      <4>3. Plain("Static site", 80) \in GuessType
        BY <4>2, LanguagesAre
      <4>4. QED BY <4>1, <4>3, ServedIs
    <3>3. QED BY <1>0, <2>5, <3>2 DEF where
  <2>6. QED BY <2>4, <2>5 DEF DetectStatic, places
<1> HIDE DEF G
<1>5. QED BY <1>1, <1>2, <1>3, <1>4 DEF Guesses, G

\* What is found: a Dockerfile that is there, or none; a Compose file where there is no Dockerfile; a guess.
FoundDockerfile(tree, d) ==
    /\ d.builder = "dockerfile" /\ d.confidence = "high" /\ d.dockerfile \in tree.files
    /\ Len(d.dockerfile) \in {1, 2} /\ d.dockerfile # <<>>
LEMMA BuildIs ==
    ASSUME NEW tree
    PROVE  LET d == DetectBuild(tree) IN
           /\ \/ FoundDockerfile(tree, d)
              \/ d.builder = "compose" /\ d.confidence = "high"
              \/ GuessOK(d)
           /\ FindDockerfile(tree) # <<>> => FoundDockerfile(tree, d)
<1> DEFINE d == DetectBuild(tree)
           P == {<<"Dockerfile">>, <<"dockerfile">>, <<"docker", "Dockerfile">>, <<"build", "Dockerfile">>}
           guesses == First(Guesses(tree), ToSet(Guesses(tree)) \ {Absent})
<1>1. DockerfilePlaces \in Seq(P) /\ \A p \in P : Len(p) \in {1, 2} /\ p # <<>>
  BY DEF DockerfilePlaces
<1>2. FindDockerfile(tree) # <<>> => FindDockerfile(tree)[1] \in P \cap tree.files
  BY <1>1, FirstIs DEF FindDockerfile
<1>3. CASE FindDockerfile(tree) # <<>>
  <2>1. d = [Plain("Dockerfile", 0) EXCEPT !.builder = "dockerfile", !.dockerfile = FindDockerfile(tree)[1]]
    BY <1>3 DEF DetectBuild
  <2>2. d.builder = "dockerfile" /\ d.confidence = "high" /\ d.dockerfile = FindDockerfile(tree)[1]
    BY <2>1 DEF Plain
  <2> HIDE DEF P, d
  <2>3. FoundDockerfile(tree, d)
    BY <1>1, <1>2, <1>3, <2>2 DEF FoundDockerfile
  <2>4. QED BY <2>3 DEF d
<1>4. CASE FindDockerfile(tree) = <<>> /\ FindCompose(tree) # <<>>
  <2>1. d = [Plain("Docker Compose", 0) EXCEPT !.builder = "compose", !.dockerfile = FindCompose(tree)[1]]
    BY <1>4 DEF DetectBuild
  <2>2. d.builder = "compose" /\ d.confidence = "high"
    BY <2>1 DEF Plain
  <2>3. QED BY <1>4, <2>2
<1>5. CASE FindDockerfile(tree) = <<>> /\ FindCompose(tree) = <<>> /\ guesses # <<>>
  <2>1. d = guesses[1]
    BY <1>5 DEF DetectBuild
  <2>2. guesses[1] \in {g \in GuessType : GuessOK(g)}
    <3> DEFINE G == {Absent} \cup {g \in GuessType : GuessOK(g)}
    <3> HIDE DEF d, P
    <3>1. Guesses(tree) \in Seq(G)
      BY GuessesAre
    <3> HIDE DEF G
    <3>2. guesses[1] \in G \cap (ToSet(Guesses(tree)) \ {Absent})
      BY <1>5, <3>1, FirstIs
    <3>3. QED BY <3>2 DEF G
  <2>3. GuessOK(d)
    BY <2>1, <2>2
  <2>4. QED BY <1>5, <2>3
<1>6. CASE FindDockerfile(tree) = <<>> /\ FindCompose(tree) = <<>> /\ guesses = <<>>
  <2>1. d = [Plain("unknown", 0) EXCEPT !.confidence = "low"]
    BY <1>6 DEF DetectBuild
  <2>2. GuessOK(d)
    <3>1. "unknown" \in Languages /\ 0 \in Nat
      BY LanguagesAre
    <3>2. GuessOK(Plain("unknown", 0))
      BY <3>1, LanguagesAre
    <3> HIDE DEF d
    <3>3. QED BY <2>1, <3>2, SureIs
  <2>3. QED BY <1>6, <2>2
<1>7. QED BY <1>3, <1>4, <1>5, <1>6

LEMMA SameSeq ==
    ASSUME NEW S, NEW a \in Seq(S), NEW b \in Seq(S), Len(a) = Len(b), \A i \in 1..Len(b) : a[i] = b[i]
    PROVE  a = b
OBVIOUS
\* A file that is seen below a root directory is in the code, under that directory.
LEMMA NarrowIs ==
    ASSUME NEW tree \in TreeType, NEW root \in Seq(STRING), NEW f \in Narrow(tree, root).files
    PROVE  f \in Seq(STRING) /\ root \o f \in tree.files
<1>1. PICK g \in tree.files : IsStrictPrefix(root, g) /\ f = SubSeq(g, Len(root) + 1, Len(g))
  BY DEF Narrow, TreeType
<1>2. g \in Seq(STRING)
  BY DEF TreeType
<1>3. Len(root) <= Len(g) /\ \A i \in 1..Len(root) : root[i] = g[i]
  BY <1>1, <1>2 DEF IsStrictPrefix, IsPrefix
<1>4. Len(g) \in Nat /\ Len(root) \in Nat /\ DOMAIN g = 1..Len(g) /\ DOMAIN root = 1..Len(root)
  BY <1>2
<1>5. /\ f \in Seq(STRING) /\ Len(f) = Len(g) - Len(root)
      /\ \A i \in 1..Len(f) : f[i] = g[i + Len(root)]
  BY <1>1, <1>2, <1>3
<1>6. root \o f \in Seq(STRING) /\ Len(root \o f) = Len(g)
  <2>1. root \o f \in Seq(STRING) /\ Len(root \o f) = Len(root) + Len(f)
    BY <1>5
  <2>2. QED BY <1>4, <1>5, <2>1
<1>7. ASSUME NEW i \in 1..Len(g) PROVE (root \o f)[i] = g[i]
  <2>1. CASE i <= Len(root)
    BY <1>3, <1>4, <1>5, <2>1
  <2>2. CASE ~(i <= Len(root))
    <3>1. i - Len(root) \in 1..Len(f) /\ (i - Len(root)) + Len(root) = i
      BY <1>4, <1>5, <2>2
    <3>2. (root \o f)[i] = f[i - Len(root)]
      BY <1>4, <1>5, <2>2, <3>1
    <3>3. QED BY <1>5, <3>1, <3>2
  <2>3. QED BY <2>1, <2>2
<1>8. root \o f = g
  BY <1>2, <1>6, <1>7, SameSeq
<1>9. QED BY <1>5, <1>8

\* Each engine is needed once, and is one of three where the panel provides it.
LEMMA DatabasesAreValid == ASSUME NEW tree PROVE ValidateInitialDatabases(WantedDatabases(DetectNeeds(tree)))
<1> DEFINE N == DetectNeeds(tree)
           W == WantedDatabases(N)
           engine == [w \in W |-> w.engine]
<1>1. /\ \A n \in N : n.provided => n.engine \in ProvidedEngines
      /\ \A n, m \in N : n.engine = m.engine => n = m
  <2> DEFINE said == Evidence(Understood(tree))
             engines == {n.engine : n \in ToSet(said)}
             first(e) == said[SelectInSeq(said, LAMBDA n : n.engine = e)]
             schemaSays == PrismaNeed(Understood(tree)) # <<>> /\ tree.schema.engine = "sqlite"
             kept == IF engines \cap {"postgres", "mysql"} # {} /\ ~schemaSays THEN engines \ {"sqlite"} ELSE engines
             variable(e) == IF first(e).variable # "" \/ first(e).kind = "ephemeral" THEN first(e).variable
                            ELSE VariableFor(e, first(e).evidence, tree.example)
             need(e) == [kind |-> first(e).kind, engine |-> e, provided |-> e \in ProvidedEngines, variable |-> variable(e)]
  <2>1. N = {need(e) : e \in kept}
    BY DEF DetectNeeds
  <2> HIDE DEF kept, variable, first
  <2>2. \A e : need(e).engine = e /\ (need(e).provided => e \in ProvidedEngines)
    OBVIOUS
  <2> HIDE DEF need, N
  <2>3. QED BY <2>1, <2>2
<1> HIDE DEF N
<1>2. \A w \in W : \E n \in N : w = [engine |-> n.engine, variable |-> n.variable] /\ n.provided
  BY DEF WantedDatabases
<1>3. \A w \in W : w.engine \in ProvidedEngines
  <2>1. SUFFICES ASSUME NEW w \in W PROVE w.engine \in ProvidedEngines
    OBVIOUS
  <2>2. PICK n \in N : w = [engine |-> n.engine, variable |-> n.variable] /\ n.provided
    BY <1>2
  <2>3. w.engine = n.engine
    BY <2>2
  <2>4. QED BY <1>1, <2>2, <2>3
<1>4. \A w, v \in W : w.engine = v.engine => w = v
  BY <1>1, <1>2
<1>5. IsFiniteSet(ProvidedEngines) /\ Cardinality(ProvidedEngines) <= 3
  <2> DEFINE nth == [i \in 1..3 |-> IF i = 1 THEN "postgres" ELSE IF i = 2 THEN "mysql" ELSE "redis"]
  <2>1. nth \in Surjection(1..3, ProvidedEngines)
    BY DEF Surjection, ProvidedEngines
  <2>2. ExistsSurjection(1..3, ProvidedEngines)
    BY <2>1 DEF ExistsSurjection
  <2>3. QED BY <2>2, FS_SurjCardinalityBound, FS_NatSurjection
<1>6. engine \in Injection(W, ProvidedEngines)
  BY <1>3, <1>4 DEF Injection, IsInjective
<1>7. IsFiniteSet(W) /\ Cardinality(W) <= Cardinality(ProvidedEngines)
  BY <1>5, <1>6, FS_Injection
<1>8. Cardinality(W) <= 4
  BY <1>5, <1>7, FS_CardinalityType
<1>9. QED BY <1>3, <1>4, <1>8 DEF ValidateInitialDatabases, N

\* A look not answered yet is of some code there is; an answered one is as the property says.
LookOK ==
    \/ request \in [tree : Trees, root : Roots, upload : BOOLEAN, setting : Defaults, done : {FALSE}]
    \/ request.done /\ FoundIsBuilt

LEMMA DetectAnswers == ASSUME LookOK, Detect PROVE request'.done /\ FoundIsBuilt'
<1> DEFINE tree == Narrow(request.tree, request.root)
           d == DetectBuild(tree)
           app == CreateUploadApp(d)
           asked == [builder |-> ChooseBuilder(app, request.setting), dockerfile |-> app.dockerfile,
                     static |-> app.static, command |-> app.command, root |-> request.root,
                     upload |-> request.upload, repo |-> ~request.upload]
           spec == JobDefaults(asked)
           told == BuildScript(spec)
<1>1. /\ request.tree \in TreeType /\ request.root \in Seq(STRING) /\ request.upload \in BOOLEAN
      /\ request.setting \in {"railpack", "nixpacks"}
  BY DetectAssumption DEF LookOK, Detect, TreeType
<1>2. /\ request'.tree = request.tree /\ request'.root = request.root /\ request'.setting = request.setting
      /\ request'.done = TRUE /\ request'.found = d /\ request'.spec = spec /\ request'.told = told
      /\ request'.needs = DetectNeeds(tree)
  BY DEF Detect
<1>3. /\ FoundDockerfile(tree, d) \/ (d.builder = "compose" /\ d.confidence = "high") \/ GuessOK(d)
      /\ FindDockerfile(tree) # <<>> => FoundDockerfile(tree, d)
  BY BuildIs
<1>4. ValidateInitialDatabases(WantedDatabases(DetectNeeds(tree)))
  BY DatabasesAreValid
<1> HIDE DEF tree, d
<1>5. /\ app.dockerfile = IF d.confidence = "high" THEN d.dockerfile ELSE <<>>
      /\ app.static = IF d.confidence = "high" THEN d.static ELSE ""
      /\ app.command = (d.confidence = "high" /\ d.command)
      /\ app.builder = IF d.confidence = "high" /\ d.builder \in {"dockerfile", "static"} THEN d.builder ELSE "auto"
  BY DEF CreateUploadApp
<1> HIDE DEF app
<1>6. /\ spec.builder = ChooseBuilder(app, request.setting) /\ spec.static = app.static /\ spec.command = app.command
      /\ spec.root = request.root /\ spec.upload = request.upload /\ spec.repo = ~request.upload
      /\ app.dockerfile # <<>> => spec.dockerfile = app.dockerfile
  BY DEF JobDefaults
<1>7. ChooseBuilder(app, request.setting) \in {"dockerfile", "static", "railpack", "nixpacks"}
  <2>1. app.builder \in {"dockerfile", "static", "auto"}
    BY <1>5
  <2>2. CASE app.builder \in {"dockerfile", "static"}
    BY <2>2 DEF ChooseBuilder
  <2>3. CASE app.builder = "auto"
    <3>1. ChooseBuilder(app, request.setting) = IF app.dockerfile # <<>> THEN "dockerfile" ELSE request.setting
      BY <2>3 DEF ChooseBuilder
    <3>2. QED BY <1>1, <3>1
  <2>4. QED BY <2>1, <2>2, <2>3
<1> HIDE DEF spec
<1>8. JobValid(spec)
  BY <1>1, <1>6, <1>7 DEF JobValid
<1>9. /\ told.builder = spec.builder
      /\ spec.builder = "dockerfile" => told.dockerfile = IF Len(spec.dockerfile) > 1 THEN spec.dockerfile
                                                          ELSE spec.root \o spec.dockerfile
      /\ spec.builder = "static" => told.serves = (IF spec.static = "" THEN "." ELSE spec.static)
      /\ told.runs = (spec.builder = "static" /\ spec.command)
  BY DEF BuildScript
<1> HIDE DEF told
<1>10. ASSUME FoundDockerfile(tree, d), Len(d.dockerfile) = 1 \/ request.root = <<>>
       PROVE  told.builder = "dockerfile" /\ told.dockerfile \in request.tree.files
  <2>1. d.builder = "dockerfile" /\ d.confidence = "high" /\ d.dockerfile # <<>> /\ d.dockerfile \in tree.files
    BY <1>10 DEF FoundDockerfile
  <2>2. ChooseBuilder(app, request.setting) = "dockerfile" /\ spec.dockerfile = d.dockerfile
    BY <1>5, <1>6, <2>1 DEF ChooseBuilder
  <2>3. request.root \o d.dockerfile \in request.tree.files
    BY <1>1, <2>1, NarrowIs DEF tree
  <2>4. d.dockerfile \in Seq(STRING)
    BY <1>1, <2>1, NarrowIs DEF tree
  <2>5. CASE request.root = <<>>
    <3>1. request.root \o d.dockerfile = d.dockerfile
      BY <2>4, <2>5
    <3>2. QED BY <1>6, <1>9, <2>2, <2>3, <3>1
  <2>6. CASE Len(d.dockerfile) = 1
    <3>1. told.builder = "dockerfile" /\ Len(spec.dockerfile) = 1 /\ ~(1 > 1) /\ spec.root = request.root
      BY <1>6, <1>9, <2>2, <2>6
    <3>2. told.dockerfile = request.root \o d.dockerfile
      BY <1>6, <1>9, <2>2, <3>1
    <3>3. QED BY <2>3, <3>1, <3>2
  <2>7. QED BY <1>10, <2>5, <2>6
<1>11. ASSUME d.builder = "static", d.confidence = "high"
       PROVE  told.builder = "static" /\ told.serves = d.static /\ told.runs = d.command
  <2>1. GuessOK(d)
    BY <1>3, <1>11 DEF FoundDockerfile
  <2>2. d.static # "" /\ d.command \in BOOLEAN
    BY <1>11, <2>1 DEF GuessOK, GuessType
  <2>3. app.builder = "static" /\ app.static = d.static /\ app.command = d.command
    BY <1>5, <1>11, <2>2
  <2>4. ChooseBuilder(app, request.setting) = "static"
    BY <2>3 DEF ChooseBuilder
  <2>5. QED BY <1>6, <1>9, <2>2, <2>3, <2>4
<1>12. ASSUME d.builder = "railpack" \/ d.confidence # "high"
       PROVE  told.builder = request.setting
  <2>1. GuessOK(d)
    BY <1>3, <1>12 DEF FoundDockerfile
  <2>2. d.dockerfile = <<>>
    BY <2>1 DEF GuessOK, GuessType
  <2>3. app.builder = "auto" /\ app.dockerfile = <<>>
    BY <1>5, <1>12, <2>2
  <2>4. ChooseBuilder(app, request.setting) = request.setting
    BY <2>3 DEF ChooseBuilder
  <2>5. QED BY <1>6, <1>9, <2>4
<1>13. d.builder = "dockerfile" => FoundDockerfile(tree, d)
  BY <1>3 DEF GuessOK, GuessType
<1>14. FoundDockerfile(tree, d) => d.builder = "dockerfile"
  BY DEF FoundDockerfile
<1>15. QED BY <1>2, <1>3, <1>4, <1>8, <1>10, <1>11, <1>12, <1>13, <1>14 DEF FoundIsBuilt, tree

\* What was found in somebody's code is what is built, whichever surface asked (Detect, createUploadApp,
\* chooseBuilder and BuildJob together): for every tree, every root directory and every table of rules.
THEOREM FoundIsBuiltAlways == DetectSpec => []FoundIsBuilt
<1>1. DetectInit => LookOK
  BY DEF DetectInit, LookOK
<1>2. LookOK /\ [DetectNext]_detectVars => LookOK'
  <2>1. SUFFICES ASSUME LookOK, [DetectNext]_detectVars PROVE LookOK'
    OBVIOUS
  <2>2. CASE Detect
    BY <2>1, <2>2, DetectAnswers DEF LookOK
  <2>3. CASE UNCHANGED request
    BY <2>1, <2>3 DEF LookOK, FoundIsBuilt
  <2>4. QED BY <2>1, <2>2, <2>3 DEF DetectNext, detectVars
<1>3. LookOK => FoundIsBuilt
  BY DEF LookOK, FoundIsBuilt
<1>4. QED BY <1>1, <1>2, <1>3, PTL DEF DetectSpec
=============================================================================
