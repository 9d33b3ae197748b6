--------------------------- MODULE VolumeRestore ---------------------------
(***************************************************************************)
(* Putting a volume back: internal/backup/volumerestore.go, over           *)
(* ScaleDeployment, WaitForNoPods and WaitForRollout of                    *)
(* internal/kube/client.go.  One app with one volume; each restore unpacks *)
(* a backup of its own, in a Job of its own.                               *)
(*                                                                         *)
(* The volume is held by the app's pods, so the restore scales the app to  *)
(* zero, unpacks and scales it back; the last is deferred as soon as the   *)
(* first has worked.  Meanwhile other restores, a rollout (Deploy or Sync, *)
(* which write the replica count of the app row), the cluster's own        *)
(* controllers and a restart of the panel go on.                           *)
(***************************************************************************)
EXTENDS Naturals, FiniteSets

CONSTANTS
    Restores,     \* the restores that are asked for
    Size,         \* the app row's replica count
    RestoreFaults \* what this instance meets

RestoreFaultKinds == {"job", "slow", "status", "scale", "panic", "overlap", "rollout", "restart"}

ASSUME SizeAssumption == Size \in Nat \ {0}
ASSUME RestoreFaultsAssumption == RestoreFaults \subseteq RestoreFaultKinds

VARIABLES
    op,        \* op[r]: the operation's status, "none" before it is asked for
    rpc,       \* rpc[r]: where the goroutine is
    was,       \* was[r]: the replica count it found
    rjob,      \* rjob[r]: the unpacking Job
    replicas,  \* the Deployment's spec.replicas
    pods,      \* the Deployment's status.replicas: its pods, without those being deleted
    ending,    \* whether a deleted pod is still shutting down, with the volume mounted
    met        \* history: the faults that have happened

cluster     == <<rjob, replicas, pods, ending>>
restoreVars == <<op, rpc, was, cluster, met>>

Idle(r)  == rpc[r] \in {"off", "done"}
Meet(f)  == f \in RestoreFaults /\ met' = met \cup {f}
RestoreGoto(r, where) == rpc' = [rpc EXCEPT ![r] = where]

-----------------------------------------------------------------------------
RestoreInit ==
    /\ op   = [r \in Restores |-> "none"]
    /\ rpc  = [r \in Restores |-> "off"]
    /\ was  = [r \in Restores |-> 0]
    /\ rjob = [r \in Restores |-> "none"]
    /\ replicas = Size
    /\ pods = Size
    /\ ending = FALSE
    /\ met  = {}

\* Nothing asks whether another restore of the volume is in progress.
RestoreVolume(r) ==
    /\ rpc[r] = "off"
    /\ \/ (\A s \in Restores : Idle(s)) /\ UNCHANGED met
       \/ (\E s \in Restores : ~Idle(s)) /\ Meet("overlap")
    /\ op' = [op EXCEPT ![r] = "running"]
    /\ RestoreGoto(r, "stop")
    /\ UNCHANGED <<was, cluster>>

\* SetOperationStatus has no guard.
SetOperationStatus(r, s) == op' = [op EXCEPT ![r] = s]

\* fail writes the operation before the deferred calls run.
FailTo(r, where) == SetOperationStatus(r, "failed") /\ RestoreGoto(r, where)

\* ScaleDeployment, the read: was is what the Deployment says now.
ReadSize(r) ==
    /\ rpc[r] = "stop"
    /\ \/ /\ was' = [was EXCEPT ![r] = replicas]
          /\ RestoreGoto(r, IF replicas = 0 THEN "drain" ELSE "patch") /\ UNCHANGED <<op, met>>
       \/ Meet("scale") /\ FailTo(r, "done") /\ UNCHANGED was
    /\ UNCHANGED cluster

\* ScaleDeployment, the patch.  An error may come from a patch that was
\* applied; either way nothing has been deferred yet.
ScaleToZero(r) ==
    /\ rpc[r] = "patch"
    /\ \/ replicas' = 0 /\ RestoreGoto(r, "drain") /\ UNCHANGED <<op, met>>
       \/ /\ Meet("scale") /\ FailTo(r, "done")
          /\ replicas' \in {0, replicas}
    /\ UNCHANGED <<was, rjob, pods, ending>>

\* Mutant: the new number is taken for the fact.
WaitForNoPods_TrustsTheSpec(r) ==
    /\ rpc[r] = "drain"
    /\ \/ replicas = 0 /\ RestoreGoto(r, "unpack") /\ UNCHANGED <<op, met>>
       \/ Meet("slow") /\ FailTo(r, "back")
    /\ UNCHANGED <<was, cluster>>

\* WaitForNoPods reads status.replicas and gives up after five minutes.
WaitForNoPods(r) ==
    /\ rpc[r] = "drain"
    /\ \/ pods = 0 /\ RestoreGoto(r, "unpack") /\ UNCHANGED <<op, met>>
       \/ Meet("slow") /\ FailTo(r, "back")
    /\ UNCHANGED <<was, cluster>>

\* The URL, its Secret and the Job; a refusal is like a Job that fails.
StartUnpacking(r) ==
    /\ rpc[r] = "unpack"
    /\ \/ /\ rjob' = [rjob EXCEPT ![r] = "running"]
          /\ RestoreGoto(r, "wait") /\ UNCHANGED <<op, met>>
       \/ Meet("job") /\ FailTo(r, "back") /\ UNCHANGED rjob
    /\ UNCHANGED <<was, replicas, pods, ending>>

JobUnpacks(r) ==
    /\ rjob[r] = "running"
    /\ \/ rjob' = [rjob EXCEPT ![r] = "done"] /\ UNCHANGED met
       \/ rjob' = [rjob EXCEPT ![r] = "failed"] /\ Meet("job")
    /\ UNCHANGED <<op, rpc, was, replicas, pods, ending>>

\* Mutant: any end of the Job is the end of the wait.
WaitForJob_AnyEnd(r) ==
    /\ rpc[r] = "wait"
    /\ \/ rjob[r] \in {"done", "failed"} /\ RestoreGoto(r, "start") /\ UNCHANGED <<op, met>>
       \/ Meet("status") /\ FailTo(r, "back")
    /\ UNCHANGED <<was, cluster>>

\* One status that cannot be read ends the wait, and the Job goes on.
WaitForRestoreJob(r) ==
    /\ rpc[r] = "wait"
    /\ \/ rjob[r] = "done" /\ RestoreGoto(r, "start") /\ UNCHANGED <<op, met>>
       \/ rjob[r] = "failed" /\ FailTo(r, "back") /\ UNCHANGED met
       \/ Meet("status") /\ FailTo(r, "back")
    /\ UNCHANGED <<was, cluster>>

\* Mutant: one more than it was.
StartAgain_OneMore(r) ==
    /\ rpc[r] = "start"
    /\ \/ replicas' = was[r] + 1 /\ RestoreGoto(r, "rollout") /\ UNCHANGED <<op, met>>
       \/ Meet("scale") /\ FailTo(r, "back") /\ UNCHANGED replicas
    /\ UNCHANGED <<was, rjob, pods, ending>>

StartAgain(r) ==
    /\ rpc[r] = "start"
    /\ \/ replicas' = was[r] /\ RestoreGoto(r, "rollout") /\ UNCHANGED <<op, met>>
       \/ Meet("scale") /\ FailTo(r, "back") /\ UNCHANGED replicas
    /\ UNCHANGED <<was, rjob, pods, ending>>

\* WaitForRollout compares with the replica count the Deployment has by now.
WaitForRollout(r) ==
    /\ rpc[r] = "rollout"
    /\ \/ pods = replicas /\ SetOperationStatus(r, "succeeded") /\ RestoreGoto(r, "back") /\ UNCHANGED met
       \/ Meet("slow") /\ FailTo(r, "back")
    /\ UNCHANGED <<was, cluster>>

\* Mutant: only a restore that failed puts the app back.
ScaleBack_OnlyAfterPanics(r) ==
    /\ rpc[r] \in {"back", "panicked"}
    /\ \/ replicas' = (IF rpc[r] = "panicked" THEN was[r] ELSE replicas) /\ UNCHANGED met
       \/ Meet("scale") /\ UNCHANGED replicas
    /\ IF rpc[r] = "panicked" THEN SetOperationStatus(r, "failed") ELSE UNCHANGED op
    /\ RestoreGoto(r, "done")
    /\ UNCHANGED <<was, rjob, pods, ending>>

\* The deferred ScaleDeployment, whose error is only logged.  After a panic
\* it runs before the recover that fails the operation.
ScaleBack(r) ==
    /\ rpc[r] \in {"back", "panicked"}
    /\ \/ replicas' = was[r] /\ UNCHANGED met
       \/ Meet("scale") /\ UNCHANGED replicas
    /\ IF rpc[r] = "panicked" THEN SetOperationStatus(r, "failed") ELSE UNCHANGED op
    /\ RestoreGoto(r, "done")
    /\ UNCHANGED <<was, rjob, pods, ending>>

\* A panic before the app was scaled has nothing deferred to run.
RestorePanic(r) ==
    /\ Meet("panic")
    /\ \/ rpc[r] \in {"stop", "patch"} /\ FailTo(r, "done")
       \/ rpc[r] \in {"drain", "unpack", "wait", "start", "rollout"}
          /\ RestoreGoto(r, "panicked") /\ UNCHANGED op
    /\ UNCHANGED <<was, cluster>>

-----------------------------------------------------------------------------
(***************************************************************************)
(* Around it.                                                              *)
(***************************************************************************)
\* The Deployment's controllers create and delete pods.  A deleted one is no
\* longer counted, and has its grace period to shut down.
PodsFollow ==
    /\ pods # replicas /\ pods' = replicas
    /\ ending' = (ending \/ replicas < pods)
    /\ UNCHANGED <<op, rpc, was, rjob, replicas, met>>

\* The last of the deleted pods is gone.
PodsEnd ==
    /\ ending /\ ending' = FALSE
    /\ UNCHANGED <<op, rpc, was, rjob, replicas, pods, met>>

\* Deploy and Sync apply the Deployment with the app row's replica count.
Rollout ==
    /\ Meet("rollout")
    /\ replicas # Size /\ replicas' = Size
    /\ UNCHANGED <<op, rpc, was, rjob, pods, ending>>

\* Mutant: only the operations of servers are looked at.
ResumeInterrupted_OnlyServers == UNCHANGED op

ResumeInterrupted ==
    op' = [r \in Restores |-> IF op[r] = "running" THEN "failed" ELSE op[r]]

\* The panel restarts: the goroutines are gone, with what they deferred.
RestoreInterrupted ==
    /\ Meet("restart") /\ \E r \in Restores : ~Idle(r)
    /\ ResumeInterrupted
    /\ rpc' = [r \in Restores |-> IF rpc[r] = "off" THEN "off" ELSE "done"]
    /\ UNCHANGED <<was, cluster>>

-----------------------------------------------------------------------------
RestoreStep(r) ==
    \/ ReadSize(r) \/ ScaleToZero(r) \/ WaitForNoPods(r) \/ StartUnpacking(r)
    \/ WaitForRestoreJob(r) \/ StartAgain(r) \/ WaitForRollout(r) \/ ScaleBack(r)

RestoreNext ==
    \/ \E r \in Restores : RestoreVolume(r) \/ RestoreStep(r) \/ JobUnpacks(r) \/ RestorePanic(r)
    \/ PodsFollow \/ PodsEnd \/ Rollout \/ RestoreInterrupted

RestoreSpec == RestoreInit /\ [][RestoreNext]_restoreVars

\* The waits are bounded, a Job has a deadline, and the controllers act.
RestoreFairness ==
    /\ \A r \in Restores : WF_restoreVars(RestoreStep(r)) /\ WF_restoreVars(JobUnpacks(r))
    /\ WF_restoreVars(PodsFollow)

RestoreFairSpec == RestoreSpec /\ RestoreFairness

-----------------------------------------------------------------------------
(***************************************************************************)
(* Properties.                                                             *)
(***************************************************************************)
Steps == {"stop", "patch", "drain", "unpack", "wait", "start", "rollout", "back", "panicked"}

\* Every variable has the values the code can give it.
RestoreTypeOK ==
    /\ op \in [Restores -> {"none", "running", "succeeded", "failed"}]
    /\ rpc \in [Restores -> Steps \cup {"off", "done"}]
    /\ was \in [Restores -> 0..Size]
    /\ rjob \in [Restores -> {"none", "running", "done", "failed"}]
    /\ replicas \in 0..Size
    /\ pods \in 0..Size
    /\ ending \in BOOLEAN
    /\ met \subseteq RestoreFaults

\* "unpacking a tar underneath a process with files open on the same disk is
\* how a restore turns one bad day into two": while an archive is unpacked no
\* pod of the app is kept running or started, unless the wait for the Job was
\* given up, the goroutine panicked, another restore ran or a rollout came in
\* between.  It says nothing of pods that are shutting down: see
\* NobodyHoldsTheVolume.
StoppedWhileUnpacking ==
    (\E r \in Restores : rjob[r] = "running") /\ pods > 0
        => met \cap {"status", "panic", "overlap", "rollout"} # {}

\* "Whatever happens next, the app goes back to the size it was": when every
\* restore is over the app has its size, unless the panel restarted, a call to
\* scale it failed or two restores ran at once.
AppGoesBack ==
    (\A r \in Restores : Idle(r)) /\ replicas # Size
        => met \cap {"restart", "scale", "overlap"} # {}

\* A restore that is reported as succeeded has unpacked its archive.
SucceededUnpacked == \A r \in Restores : op[r] = "succeeded" => rjob[r] = "done"

\* The three together: what a restore must not break, whatever goes on beside it.
RestoreIsSafe == StoppedWhileUnpacking /\ AppGoesBack /\ SucceededUnpacked

\* A restore comes to an end, panics and restarts included.
EveryRestoreEnds == \A r \in Restores : op[r] = "running" ~> op[r] \in {"succeeded", "failed"}

\* client.go, on WaitForNoPods: "The pod is still there, still holding the
\* volume, for as long as it takes to shut down."  The count it waits for
\* leaves out the very pods this speaks of.
NobodyHoldsTheVolume == (\E r \in Restores : rjob[r] = "running") => pods = 0 /\ ~ending

\* docs/backups.md: "starts it again at the size it was - including when the
\* restore fails, because an app left at zero instances would be an outage
\* caused by the thing that was meant to end one."
RestoredToItsSize == (\A r \in Restores : Idle(r)) => replicas = Size
=============================================================================
