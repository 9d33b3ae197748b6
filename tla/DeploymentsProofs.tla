------------------------- MODULE DeploymentsProofs -------------------------
(***************************************************************************)
(* Proofs about Deployments, for every number of deployments, requests,    *)
(* commits and settings, and for every combination of calls and faults.    *)
(***************************************************************************)
EXTENDS Deployments, FiniteSetTheorems, TLAPS

(***************************************************************************)
(* The inductive invariant.  None of the properties is inductive by        *)
(* itself: that a cancelled deployment stays off the cluster needs its     *)
(* context to stay dead, which needs that nobody starts it again, which    *)
(* needs that a request which has yet to start a deployment is the only    *)
(* one to hold it.                                                         *)
(***************************************************************************)
Starting  == {"select", "mark", "stop", "restore", "start"}
HoldsARow == Starting \cup {"cancel", "cancelled", "syncapply"}

\* What a request has read is still true when it uses it.
RequestInv ==
    \A r \in Requests :
        /\ req[r].at \in HoldsARow => req[r].id \in Ids /\ status[req[r].id] # "none"
        /\ req[r].at = "create" => req[r].commit \in Commits
        /\ req[r].at \in Starting => pc[req[r].id] = "off"
        /\ req[r].at = "cancelled" => pc[req[r].id] # "off" /\ ctx[req[r].id] # "live"
        /\ req[r].at = "syncapply" => status[req[r].id] = "succeeded"

\* A deployment is started by the request that created it and by no other.
StartedOnce ==
    \A q, r \in Requests : req[q].at \in Starting /\ req[r].at \in Starting
                           /\ req[q].id = req[r].id => q = r

\* What a goroutine has done is on record.
RunInv ==
    \A n \in Ids :
        /\ pc[n] # "off" => status[n] # "none"
        /\ status[n] # "none" => commit[n] \in Commits
        /\ status[n] = "cancelled" => pc[n] # "off" /\ ctx[n] # "live"
        /\ pc[n] \in {"rollout", "succeed"} => n \in landed

IInv ==
    /\ TypeOK
    /\ RegisteredWhileItRuns
    /\ SucceededReachedTheCluster
    /\ RequestInv
    /\ StartedOnce
    /\ RunInv

-----------------------------------------------------------------------------
USE DEF Ids

\* The settings an idle request or an empty cluster carries are settings.
LEMMA NoConfigType == NoConfig \in Configs
BY ConfigsAssumption DEF NoConfig

\* An idle request is a request.
LEMMA IdleReqType == IdleReq \in RequestType
BY NoConfigType DEF IdleReq, RequestType, ReqSteps, Images

\* Every request step keeps the types: what it stores was read from a row or
\* from the app, or is a member of the sets it chooses from.
LEMMA RequestStepsKeepTypeOK ==
    ASSUME IInv, NEW r \in Requests, NewRequest(r) \/ RequestStep(r)
    PROVE  TypeOK'
<1> USE NoConfigType, ImageAssumption, MaxDeploymentsAssumption
        DEF IInv, rows, work, cluster, app
<1>i. IdleReq \in RequestType
  BY IdleReqType
<1>r. req \in [Requests -> RequestType] /\ req[r] \in RequestType
  BY DEF TypeOK
<1>1. CASE DeployRead(r)
  <2>1. \E x \in RequestType : req' = [req EXCEPT ![r] = x]
    BY <1>1, <1>i DEF DeployRead, At, IdleReq, TypeOK, RequestType, ReqSteps, Images
  <2>2. req' \in [Requests -> RequestType]
    BY <2>1, <1>r
  <2>3. QED
    BY <1>1, <2>2 DEF TypeOK, DeployRead, At
<1>2. CASE RollbackRead(r)
  <2>1. \E x \in RequestType : req' = [req EXCEPT ![r] = x]
    BY <1>2, <1>i DEF RollbackRead, At, IdleReq, TypeOK, RequestType, ReqSteps, Images
  <2>2. req' \in [Requests -> RequestType]
    BY <2>1, <1>r
  <2>3. QED
    BY <1>2, <2>2 DEF TypeOK, RollbackRead, WithinRollbackWindow, Succeeded, At
<1>3. CASE CancelRead(r)
  <2>1. PICK n \in Ids : req' = [req EXCEPT ![r].at = "cancel", ![r].id = n]
    BY <1>3 DEF CancelRead
  <2>2. req' \in [Requests -> RequestType]
    BY <2>1, <1>r DEF RequestType, ReqSteps
  <2>3. QED
    BY <1>3, <2>2 DEF TypeOK, CancelRead, InFlight, InFlightStatus, At
<1>4. CASE UpdateSettings(r)
  <2>2. req' \in [Requests -> RequestType]
    BY <1>4, <1>i, <1>r DEF UpdateSettings, At, Goto, RequestType, ReqSteps
  <2>3. QED
    BY <1>4, <2>2 DEF TypeOK, UpdateSettings, At, Goto
<1>5. CASE CreateDeployment(r)
  <2>1. PICK n \in Ids : req' = [req EXCEPT ![r].id = n,
                            ![r].at = IF req[r].rollback THEN "restore" ELSE "select"]
    BY <1>5 DEF CreateDeployment
  <2>2. req' \in [Requests -> RequestType]
    BY <2>1, <1>r DEF RequestType, ReqSteps
  <2>3. QED
    BY <1>5, <2>2, <1>r DEF TypeOK, CreateDeployment, IsNextNumber, At, InFlightStatus,
                            Images, RequestType
<1>6. CASE CreateFails(r)
  <2>2. req' \in [Requests -> RequestType]
    BY <1>6, <1>i, <1>r DEF CreateFails, At, Done, RequestType, ReqSteps
  <2>3. QED
    BY <1>6, <2>2 DEF TypeOK, CreateFails, At, Done
<1>7. CASE SupersedeSelect(r)
  <2>2. req' \in [Requests -> RequestType]
    BY <1>7, <1>i, <1>r DEF SupersedeSelect, InFlight, InFlightStatus, At, RequestType,
                            ReqSteps
  <2>3. QED
    BY <1>7, <2>2 DEF TypeOK, SupersedeSelect, InFlight, InFlightStatus, At
<1>8. CASE SupersedeMark(r)
  <2>2. req' \in [Requests -> RequestType]
    BY <1>8, <1>i, <1>r DEF SupersedeMark, InFlight, InFlightStatus, At, Goto,
                            RequestType, ReqSteps
  <2>3. QED
    BY <1>8, <2>2 DEF TypeOK, SupersedeMark, InFlight, InFlightStatus, At, Goto,
                      InFlightStatus, TerminalStatus
<1>9. CASE SupersedeFails(r)
  <2>2. req' \in [Requests -> RequestType]
    BY <1>9, <1>i, <1>r DEF SupersedeFails, At, RequestType, ReqSteps
  <2>3. QED
    BY <1>9, <2>2 DEF TypeOK, SupersedeFails, At
<1>10. CASE StopSuperseded(r)
  <2>1. PICK m \in req[r].stopping :
           req' = [req EXCEPT ![r].stopping = @ \ {m},
                       ![r].at = IF req[r].stopping = {m} THEN "start" ELSE "stop"]
    BY <1>10 DEF StopSuperseded
  <2>4. req[r].stopping \ {m} \in SUBSET Ids
    BY <1>r DEF RequestType
  <2>2. req' \in [Requests -> RequestType]
    BY <2>1, <2>4, <1>r DEF RequestType, ReqSteps
  <2>3. QED
    BY <1>10, <2>2 DEF TypeOK, StopSuperseded, At
<1>11. CASE Start(r)
  <2>2. req' \in [Requests -> RequestType]
    BY <1>11, <1>i, <1>r DEF Start, At, Done, RequestType, ReqSteps
  <2>4. req[r].id \in Ids
    BY <1>11 DEF Start, At, RequestInv, HoldsARow, Starting
  <2>3. QED
    <3>1. CASE req[r].id \in running
      BY <1>11, <3>1, <2>2 DEF TypeOK, Start
    <3>2. CASE req[r].id \notin running
      <4>1. pc' \in [Ids -> GoroutineSteps \cup PanickedSteps \cup {"off", "done"}]
        BY <1>11, <3>2, <2>4 DEF TypeOK, Start, GoroutineSteps, RunSteps
      <4>2. ctx' \in [Ids -> {"none", "live", "ended"}]
        BY <1>11, <3>2, <2>4 DEF TypeOK, Start
      <4>3. running' \subseteq Ids
        <5>1. running \subseteq Ids
          BY DEF TypeOK
        <5>2. running' = running \cup {req[r].id}
          BY <1>11, <3>2 DEF Start
        <5>3. QED
          BY <5>1, <5>2, <2>4
      <4>4. QED
        BY <1>11, <2>2, <4>1, <4>2, <4>3 DEF TypeOK, Start
    <3>3. QED
      BY <3>1, <3>2
<1>12. CASE RestoreRuntimeSpec(r)
  <2>2. req' \in [Requests -> RequestType]
    BY <1>12, <1>i, <1>r DEF RestoreRuntimeSpec, At, Goto, RequestType, ReqSteps
  <2>4. req[r].spec \in Configs
    BY <1>r DEF RequestType
  <2>3. QED
    BY <1>12, <2>2, <2>4 DEF TypeOK, RestoreRuntimeSpec
<1>13. CASE CancelStop(r)
  <2>1. req' = [req EXCEPT ![r].at = "cancelled"] \/ req' = [req EXCEPT ![r] = IdleReq]
    BY <1>13 DEF CancelStop, Goto, Done
  <2>2. req' \in [Requests -> RequestType]
    BY <2>1, <1>r, <1>i DEF RequestType, ReqSteps
  <2>3. QED
    BY <1>13, <2>2 DEF TypeOK, CancelStop
<1>14. CASE CancelMark(r)
  <2>2. req' \in [Requests -> RequestType]
    BY <1>14, <1>i, <1>r DEF CancelMark, UpdateDeploymentStatus, InFlightStatus, At,
                             Done, RequestType, ReqSteps
  <2>4. status' \in [Ids -> InFlightStatus \cup TerminalStatus \cup {"none"}]
    BY <1>14 DEF TypeOK, CancelMark, UpdateDeploymentStatus, TerminalStatus
  <2>3. QED
    BY <1>14, <2>2, <2>4 DEF TypeOK, CancelMark
<1>15. CASE SyncRead(r)
  <2>1. \/ req' = [req EXCEPT ![r] = IdleReq]
        \/ \E n \in Ids : req' = [req EXCEPT ![r].at = "syncapply", ![r].id = n,
                                          ![r].spec = config]
    BY <1>15 DEF SyncRead, Done
  <2>4. config \in Configs
    BY DEF TypeOK
  <2>5. \A n \in Ids : [req[r] EXCEPT !.at = "syncapply", !.id = n, !.spec = config]
                          \in RequestType
    BY <2>4, <1>r DEF RequestType, ReqSteps
  <2>6. \E x \in RequestType : req' = [req EXCEPT ![r] = x]
    BY <2>1, <2>5, <1>r, <1>i
  <2>2. req' \in [Requests -> RequestType]
    BY <2>6, <1>r
  <2>3. QED
    BY <1>15, <2>2 DEF TypeOK, SyncRead, LatestSuccessfulDeployment, IsNewest,
                       Succeeded, At, Done
<1>16. CASE SyncApply(r)
  <2>2. req' \in [Requests -> RequestType]
    BY <1>16, <1>i, <1>r DEF SyncApply, At, Done, RequestType, ReqSteps
  <2>4. req[r].id \in Ids /\ req[r].spec \in Configs
    BY <1>16, <1>r DEF SyncApply, At, RequestInv, HoldsARow, RequestType
  <2>5. applied' \in [id: Ids \cup {0}, config: Configs]
    BY <1>16, <2>4 DEF TypeOK, SyncApply
  <2>3. QED
    BY <1>16, <2>2, <2>4, <2>5 DEF TypeOK, SyncApply
<1>17. QED
  BY <1>1, <1>2, <1>3, <1>4, <1>5, <1>6, <1>7, <1>8, <1>9, <1>10, <1>11, <1>12, <1>13,
     <1>14, <1>15, <1>16
     DEF NewRequest, RequestStep

\* Every request step keeps the rest of the invariant.
LEMMA RequestStepsKeepIInv ==
    ASSUME IInv, NEW r \in Requests, NewRequest(r) \/ RequestStep(r)
    PROVE  IInv'
<1> USE NoConfigType, ImageAssumption, MaxDeploymentsAssumption
        DEF IInv, rows, work, cluster, app
<1>t. TypeOK'
  BY RequestStepsKeepTypeOK
<1>1. CASE DeployRead(r)
  <2> USE <1>1 DEF DeployRead, At, IdleReq
  <2>1. RegisteredWhileItRuns'
    BY DEF RegisteredWhileItRuns, TypeOK, RequestInv, HoldsARow, Starting,
           GoroutineSteps, RunSteps, RequestType
  <2>2. SucceededReachedTheCluster'
    BY DEF SucceededReachedTheCluster, Succeeded, TypeOK, RequestInv, HoldsARow
  <2>3. RequestInv'
    BY DEF RequestInv, StartedOnce, RegisteredWhileItRuns, RunInv, GoroutineSteps,
           RunSteps, HoldsARow, Starting, TypeOK, RequestType
  <2>4. StartedOnce'
    BY DEF StartedOnce, RequestInv, HoldsARow, Starting, TypeOK, RequestType
  <2>5. RunInv'
    BY DEF RunInv, RequestInv, SucceededReachedTheCluster, Succeeded, HoldsARow,
           Starting, Live, TypeOK, RequestType, RunSteps
  <2>6. QED
    BY <1>t, <2>1, <2>2, <2>3, <2>4, <2>5
<1>2. CASE RollbackRead(r)
  <2> USE <1>2 DEF RollbackRead, WithinRollbackWindow, Succeeded, At, IdleReq
  <2>1. RegisteredWhileItRuns'
    BY DEF RegisteredWhileItRuns, TypeOK, RequestInv, HoldsARow, Starting,
           GoroutineSteps, RunSteps, RequestType
  <2>2. SucceededReachedTheCluster'
    BY DEF SucceededReachedTheCluster, Succeeded, TypeOK, RequestInv, HoldsARow
  <2>3. RequestInv'
    BY DEF RequestInv, StartedOnce, RegisteredWhileItRuns, RunInv, GoroutineSteps,
           RunSteps, HoldsARow, Starting, TypeOK, RequestType
  <2>4. StartedOnce'
    BY DEF StartedOnce, RequestInv, HoldsARow, Starting, TypeOK, RequestType
  <2>5. RunInv'
    BY DEF RunInv, RequestInv, SucceededReachedTheCluster, Succeeded, HoldsARow,
           Starting, Live, TypeOK, RequestType, RunSteps
  <2>6. QED
    BY <1>t, <2>1, <2>2, <2>3, <2>4, <2>5
<1>3. CASE CancelRead(r)
  <2> USE <1>3 DEF CancelRead, InFlight, InFlightStatus, At
  <2>1. RegisteredWhileItRuns'
    BY DEF RegisteredWhileItRuns, TypeOK, RequestInv, HoldsARow, Starting,
           GoroutineSteps, RunSteps, RequestType
  <2>2. SucceededReachedTheCluster'
    BY DEF SucceededReachedTheCluster, Succeeded, TypeOK, RequestInv, HoldsARow
  <2>3. RequestInv'
    BY DEF RequestInv, StartedOnce, RegisteredWhileItRuns, RunInv, GoroutineSteps,
           RunSteps, HoldsARow, Starting, TypeOK, RequestType
  <2>4. StartedOnce'
    BY DEF StartedOnce, RequestInv, HoldsARow, Starting, TypeOK, RequestType
  <2>5. RunInv'
    BY DEF RunInv, RequestInv, SucceededReachedTheCluster, Succeeded, HoldsARow,
           Starting, Live, TypeOK, RequestType, RunSteps
  <2>6. QED
    BY <1>t, <2>1, <2>2, <2>3, <2>4, <2>5
<1>4. CASE UpdateSettings(r)
  <2> USE <1>4 DEF UpdateSettings, At, Goto
  <2>1. RegisteredWhileItRuns'
    BY DEF RegisteredWhileItRuns, TypeOK, RequestInv, HoldsARow, Starting,
           GoroutineSteps, RunSteps, RequestType
  <2>2. SucceededReachedTheCluster'
    BY DEF SucceededReachedTheCluster, Succeeded, TypeOK, RequestInv, HoldsARow
  <2>3. RequestInv'
    BY DEF RequestInv, StartedOnce, RegisteredWhileItRuns, RunInv, GoroutineSteps,
           RunSteps, HoldsARow, Starting, TypeOK, RequestType
  <2>4. StartedOnce'
    BY DEF StartedOnce, RequestInv, HoldsARow, Starting, TypeOK, RequestType
  <2>5. RunInv'
    BY DEF RunInv, RequestInv, SucceededReachedTheCluster, Succeeded, HoldsARow,
           Starting, Live, TypeOK, RequestType, RunSteps
  <2>6. QED
    BY <1>t, <2>1, <2>2, <2>3, <2>4, <2>5
<1>5. CASE CreateDeployment(r)
  <2> USE <1>5 DEF CreateDeployment, IsNextNumber, At
  <2>1. RegisteredWhileItRuns'
    BY DEF RegisteredWhileItRuns, TypeOK, RequestInv, HoldsARow, Starting,
           GoroutineSteps, RunSteps, RequestType
  <2>2. SucceededReachedTheCluster'
    BY DEF SucceededReachedTheCluster, Succeeded, TypeOK, RequestInv, HoldsARow
  <2>3. RequestInv'
    BY DEF RequestInv, StartedOnce, RegisteredWhileItRuns, RunInv, GoroutineSteps,
           RunSteps, HoldsARow, Starting, TypeOK, RequestType
  <2>4. StartedOnce'
    BY DEF StartedOnce, RequestInv, HoldsARow, Starting, TypeOK, RequestType
  <2>5. RunInv'
    BY DEF RunInv, RequestInv, SucceededReachedTheCluster, Succeeded, HoldsARow,
           Starting, Live, TypeOK, RequestType, RunSteps
  <2>6. QED
    BY <1>t, <2>1, <2>2, <2>3, <2>4, <2>5
<1>6. CASE CreateFails(r)
  <2> USE <1>6 DEF CreateFails, At, Done, IdleReq
  <2>1. RegisteredWhileItRuns'
    BY DEF RegisteredWhileItRuns, TypeOK, RequestInv, HoldsARow, Starting,
           GoroutineSteps, RunSteps, RequestType
  <2>2. SucceededReachedTheCluster'
    BY DEF SucceededReachedTheCluster, Succeeded, TypeOK, RequestInv, HoldsARow
  <2>3. RequestInv'
    BY DEF RequestInv, StartedOnce, RegisteredWhileItRuns, RunInv, GoroutineSteps,
           RunSteps, HoldsARow, Starting, TypeOK, RequestType
  <2>4. StartedOnce'
    BY DEF StartedOnce, RequestInv, HoldsARow, Starting, TypeOK, RequestType
  <2>5. RunInv'
    BY DEF RunInv, RequestInv, SucceededReachedTheCluster, Succeeded, HoldsARow,
           Starting, Live, TypeOK, RequestType, RunSteps
  <2>6. QED
    BY <1>t, <2>1, <2>2, <2>3, <2>4, <2>5
<1>7. CASE SupersedeSelect(r)
  <2> USE <1>7 DEF SupersedeSelect, InFlight, InFlightStatus, At
  <2>1. RegisteredWhileItRuns'
    BY DEF RegisteredWhileItRuns, TypeOK, RequestInv, HoldsARow, Starting,
           GoroutineSteps, RunSteps, RequestType
  <2>2. SucceededReachedTheCluster'
    BY DEF SucceededReachedTheCluster, Succeeded, TypeOK, RequestInv, HoldsARow
  <2>3. RequestInv'
    BY DEF RequestInv, StartedOnce, RegisteredWhileItRuns, RunInv, GoroutineSteps,
           RunSteps, HoldsARow, Starting, TypeOK, RequestType
  <2>4. StartedOnce'
    BY DEF StartedOnce, RequestInv, HoldsARow, Starting, TypeOK, RequestType
  <2>5. RunInv'
    BY DEF RunInv, RequestInv, SucceededReachedTheCluster, Succeeded, HoldsARow,
           Starting, Live, TypeOK, RequestType, RunSteps
  <2>6. QED
    BY <1>t, <2>1, <2>2, <2>3, <2>4, <2>5
<1>8. CASE SupersedeMark(r)
  <2> USE <1>8 DEF SupersedeMark, InFlight, InFlightStatus, At, Goto
  <2>1. RegisteredWhileItRuns'
    BY DEF RegisteredWhileItRuns, TypeOK, RequestInv, HoldsARow, Starting,
           GoroutineSteps, RunSteps, RequestType
  <2>2. SucceededReachedTheCluster'
    BY DEF SucceededReachedTheCluster, Succeeded, TypeOK, RequestInv, HoldsARow
  <2>3. RequestInv'
    BY DEF RequestInv, StartedOnce, RegisteredWhileItRuns, RunInv, GoroutineSteps,
           RunSteps, HoldsARow, Starting, TypeOK, RequestType
  <2>4. StartedOnce'
    BY DEF StartedOnce, RequestInv, HoldsARow, Starting, TypeOK, RequestType
  <2>5. RunInv'
    BY DEF RunInv, RequestInv, SucceededReachedTheCluster, Succeeded, HoldsARow,
           Starting, Live, TypeOK, RequestType, RunSteps
  <2>6. QED
    BY <1>t, <2>1, <2>2, <2>3, <2>4, <2>5
<1>9. CASE SupersedeFails(r)
  <2> USE <1>9 DEF SupersedeFails, At
  <2>1. RegisteredWhileItRuns'
    BY DEF RegisteredWhileItRuns, TypeOK, RequestInv, HoldsARow, Starting,
           GoroutineSteps, RunSteps, RequestType
  <2>2. SucceededReachedTheCluster'
    BY DEF SucceededReachedTheCluster, Succeeded, TypeOK, RequestInv, HoldsARow
  <2>3. RequestInv'
    BY DEF RequestInv, StartedOnce, RegisteredWhileItRuns, RunInv, GoroutineSteps,
           RunSteps, HoldsARow, Starting, TypeOK, RequestType
  <2>4. StartedOnce'
    BY DEF StartedOnce, RequestInv, HoldsARow, Starting, TypeOK, RequestType
  <2>5. RunInv'
    BY DEF RunInv, RequestInv, SucceededReachedTheCluster, Succeeded, HoldsARow,
           Starting, Live, TypeOK, RequestType, RunSteps
  <2>6. QED
    BY <1>t, <2>1, <2>2, <2>3, <2>4, <2>5
<1>10. CASE StopSuperseded(r)
  <2> USE <1>10 DEF StopSuperseded, At
  <2>1. RegisteredWhileItRuns'
    BY DEF RegisteredWhileItRuns, TypeOK, RequestInv, HoldsARow, Starting,
           GoroutineSteps, RunSteps, RequestType
  <2>2. SucceededReachedTheCluster'
    BY DEF SucceededReachedTheCluster, Succeeded, TypeOK, RequestInv, HoldsARow
  <2>3. RequestInv'
    BY DEF RequestInv, StartedOnce, RegisteredWhileItRuns, RunInv, GoroutineSteps,
           RunSteps, HoldsARow, Starting, TypeOK, RequestType
  <2>4. StartedOnce'
    BY DEF StartedOnce, RequestInv, HoldsARow, Starting, TypeOK, RequestType
  <2>5. RunInv'
    BY DEF RunInv, RequestInv, SucceededReachedTheCluster, Succeeded, HoldsARow,
           Starting, Live, TypeOK, RequestType, RunSteps
  <2>6. QED
    BY <1>t, <2>1, <2>2, <2>3, <2>4, <2>5
<1>11. CASE Start(r)
  <2> USE <1>11 DEF Start, At, Done, IdleReq
  <2>1. RegisteredWhileItRuns'
    BY DEF RegisteredWhileItRuns, TypeOK, RequestInv, HoldsARow, Starting,
           GoroutineSteps, RunSteps, RequestType
  <2>2. SucceededReachedTheCluster'
    BY DEF SucceededReachedTheCluster, Succeeded, TypeOK, RequestInv, HoldsARow
  <2>3. RequestInv'
    BY DEF RequestInv, StartedOnce, RegisteredWhileItRuns, RunInv, GoroutineSteps,
           RunSteps, HoldsARow, Starting, TypeOK, RequestType
  <2>4. StartedOnce'
    BY DEF StartedOnce, RequestInv, HoldsARow, Starting, TypeOK, RequestType
  <2>5. RunInv'
    BY DEF RunInv, RequestInv, SucceededReachedTheCluster, Succeeded, HoldsARow,
           Starting, Live, TypeOK, RequestType, RunSteps
  <2>6. QED
    BY <1>t, <2>1, <2>2, <2>3, <2>4, <2>5
<1>12. CASE RestoreRuntimeSpec(r)
  <2> USE <1>12 DEF RestoreRuntimeSpec, At, Goto
  <2>1. RegisteredWhileItRuns'
    BY DEF RegisteredWhileItRuns, TypeOK, RequestInv, HoldsARow, Starting,
           GoroutineSteps, RunSteps, RequestType
  <2>2. SucceededReachedTheCluster'
    BY DEF SucceededReachedTheCluster, Succeeded, TypeOK, RequestInv, HoldsARow
  <2>3. RequestInv'
    BY DEF RequestInv, StartedOnce, RegisteredWhileItRuns, RunInv, GoroutineSteps,
           RunSteps, HoldsARow, Starting, TypeOK, RequestType
  <2>4. StartedOnce'
    BY DEF StartedOnce, RequestInv, HoldsARow, Starting, TypeOK, RequestType
  <2>5. RunInv'
    BY DEF RunInv, RequestInv, SucceededReachedTheCluster, Succeeded, HoldsARow,
           Starting, Live, TypeOK, RequestType, RunSteps
  <2>6. QED
    BY <1>t, <2>1, <2>2, <2>3, <2>4, <2>5
<1>13. CASE CancelStop(r)
  <2>1. UNCHANGED <<status, image, commit, pc, running, landed>>
    BY <1>13 DEF CancelStop
  <2>2. \A n \in Ids : /\ ctx'[n] = "live" => ctx[n] = "live"
                       /\ ctx'[n] = "none" <=> ctx[n] = "none"
    BY <1>13 DEF CancelStop, TypeOK
  <2>3. \A q \in Requests : q # r => req'[q] = req[q]
    BY <1>13 DEF CancelStop, Goto, Done, TypeOK
  <2>4. \/ req'[r].at = "idle"
        \/ /\ req'[r].at = "cancelled" /\ req'[r].id = req[r].id
           /\ req[r].id \in running /\ ctx'[req[r].id] # "live"
    <3>1. CASE req[r].id \in running
      BY <1>13, <3>1 DEF CancelStop, Goto, TypeOK, RequestType
    <3>2. CASE req[r].id \notin running
      BY <1>13, <3>2 DEF CancelStop, Done, IdleReq, TypeOK
    <3>3. QED
      BY <3>1, <3>2
  <2>5. RegisteredWhileItRuns' /\ SucceededReachedTheCluster'
    BY <2>1, <2>2 DEF RegisteredWhileItRuns, SucceededReachedTheCluster, Succeeded,
                      TypeOK
  <2>6. RequestInv'
    <3>1. ASSUME NEW q \in Requests, q # r
          PROVE  /\ req'[q].at \in HoldsARow => req'[q].id \in Ids /\ status'[req'[q].id] # "none"
                 /\ req'[q].at = "create" => req'[q].commit \in Commits
                 /\ req'[q].at \in Starting => pc'[req'[q].id] = "off"
                 /\ req'[q].at = "cancelled" => pc'[req'[q].id] # "off" /\ ctx'[req'[q].id] # "live"
                 /\ req'[q].at = "syncapply" => status'[req'[q].id] = "succeeded"
      <4>1. req[q].at = "cancelled" => ctx'[req[q].id] # "live"
        BY <2>2 DEF RequestInv, HoldsARow
      <4>2. QED
        BY <3>1, <4>1, <2>1, <2>3 DEF RequestInv
    <3>2. req[r].at = "cancel" /\ req[r].id \in Ids /\ status[req[r].id] # "none"
      BY <1>13 DEF CancelStop, At, RequestInv, HoldsARow
    <3>3. req[r].id \in running => pc[req[r].id] # "off"
      BY <3>2 DEF RegisteredWhileItRuns, GoroutineSteps, RunSteps
    <3>4. QED
      BY <3>1, <3>2, <3>3, <2>1, <2>4 DEF RequestInv, HoldsARow, Starting
  <2>7. StartedOnce'
    BY <2>3, <2>4 DEF StartedOnce, Starting
  <2>8. RunInv'
    <3>1. ASSUME NEW n \in Ids
          PROVE  /\ pc[n] # "off" => status[n] # "none"
                 /\ status[n] # "none" => commit[n] \in Commits
                 /\ status[n] = "cancelled" => pc[n] # "off" /\ ctx'[n] # "live"
                 /\ pc[n] \in {"rollout", "succeed"} => n \in landed
      <4>1. ctx'[n] = "live" => ctx[n] = "live"
        BY <2>2
      <4>2. QED
        BY <4>1 DEF RunInv, Live
    <3>2. QED
      BY <2>1, <3>1 DEF RunInv, Live
  <2>9. QED
    BY <1>t, <2>5, <2>6, <2>7, <2>8
<1>14. CASE CancelMark(r)
  <2> USE <1>14 DEF CancelMark, UpdateDeploymentStatus, InFlightStatus, At, Done, IdleReq
  <2>1. RegisteredWhileItRuns'
    BY DEF RegisteredWhileItRuns, TypeOK, RequestInv, HoldsARow, Starting,
           GoroutineSteps, RunSteps, RequestType
  <2>2. SucceededReachedTheCluster'
    BY DEF SucceededReachedTheCluster, Succeeded, TypeOK, RequestInv, HoldsARow
  <2>3. RequestInv'
    BY DEF RequestInv, StartedOnce, RegisteredWhileItRuns, RunInv, GoroutineSteps,
           RunSteps, HoldsARow, Starting, TypeOK, RequestType
  <2>4. StartedOnce'
    BY DEF StartedOnce, RequestInv, HoldsARow, Starting, TypeOK, RequestType
  <2>5. RunInv'
    BY DEF RunInv, RequestInv, SucceededReachedTheCluster, Succeeded, HoldsARow,
           Starting, Live, TypeOK, RequestType, RunSteps
  <2>6. QED
    BY <1>t, <2>1, <2>2, <2>3, <2>4, <2>5
<1>15. CASE SyncRead(r)
  <2>1. UNCHANGED <<rows, work, cluster, app>>
    BY <1>15 DEF SyncRead
  <2>2. \A q \in Requests : q # r => req'[q] = req[q]
    BY <1>15 DEF SyncRead, Done, TypeOK
  <2>3. \/ req'[r].at = "idle"
        \/ /\ req'[r].at = "syncapply" /\ req'[r].id \in Ids
           /\ status[req'[r].id] = "succeeded"
    <3>1. CASE Done(r)
      BY <3>1 DEF Done, IdleReq, TypeOK
    <3>2. ASSUME NEW n \in Ids, LatestSuccessfulDeployment(n),
                 req' = [req EXCEPT ![r].at = "syncapply", ![r].id = n, ![r].spec = config]
          PROVE  /\ req'[r].at = "syncapply" /\ req'[r].id = n
                 /\ status[n] = "succeeded"
      BY <3>2 DEF LatestSuccessfulDeployment, IsNewest, Succeeded, TypeOK, RequestType
    <3>3. QED
      BY <1>15, <3>1, <3>2 DEF SyncRead
  <2>4. RegisteredWhileItRuns' /\ SucceededReachedTheCluster'
    BY <2>1 DEF RegisteredWhileItRuns, SucceededReachedTheCluster, Succeeded
  <2>5. RequestInv'
    BY <2>1, <2>2, <2>3 DEF RequestInv, HoldsARow, Starting
  <2>6. StartedOnce'
    BY <2>2, <2>3 DEF StartedOnce, Starting
  <2>7. RunInv'
    BY <2>1 DEF RunInv, Live
  <2>8. QED
    BY <1>t, <2>4, <2>5, <2>6, <2>7
<1>16. CASE SyncApply(r)
  <2> USE <1>16 DEF SyncApply, At, Done, IdleReq
  <2>1. RegisteredWhileItRuns'
    BY DEF RegisteredWhileItRuns, TypeOK, RequestInv, HoldsARow, Starting,
           GoroutineSteps, RunSteps, RequestType
  <2>2. SucceededReachedTheCluster'
    BY DEF SucceededReachedTheCluster, Succeeded, TypeOK, RequestInv, HoldsARow
  <2>3. RequestInv'
    BY DEF RequestInv, StartedOnce, RegisteredWhileItRuns, RunInv, GoroutineSteps,
           RunSteps, HoldsARow, Starting, TypeOK, RequestType
  <2>4. StartedOnce'
    BY DEF StartedOnce, RequestInv, HoldsARow, Starting, TypeOK, RequestType
  <2>5. RunInv'
    BY DEF RunInv, RequestInv, SucceededReachedTheCluster, Succeeded, HoldsARow,
           Starting, Live, TypeOK, RequestType, RunSteps
  <2>6. QED
    BY <1>t, <2>1, <2>2, <2>3, <2>4, <2>5
<1>17. QED
  BY <1>1, <1>2, <1>3, <1>4, <1>5, <1>6, <1>7, <1>8, <1>9, <1>10, <1>11, <1>12, <1>13,
     <1>14, <1>15, <1>16
     DEF NewRequest, RequestStep

\* Every step of a deployment's goroutine, its panic and its time limit keep
\* the invariant.
LEMMA RunStepsKeepIInv ==
    ASSUME IInv, NEW n \in Ids, RunStep(n) \/ Panic(n) \/ Expire(n)
    PROVE  IInv'
<1> USE NoConfigType, ImageAssumption, MaxDeploymentsAssumption
        DEF IInv, rows, work, cluster, app
<1>1. CASE RunLoad(n)
  <2> USE <1>1 DEF RunLoad, Move
  <2>1. TypeOK'
    <3>1. loaded' \in [Ids -> Configs]
      BY DEF TypeOK
    <3>2. pc' \in [Ids -> GoroutineSteps \cup PanickedSteps \cup {"off", "done"}]
      BY DEF TypeOK, GoroutineSteps, RunSteps
    <3>3. QED
      BY <3>1, <3>2 DEF TypeOK
  <2>2. RegisteredWhileItRuns'
    BY DEF RegisteredWhileItRuns, TypeOK, GoroutineSteps, RunSteps
  <2>3. SucceededReachedTheCluster'
    BY DEF SucceededReachedTheCluster, Succeeded, TypeOK, RunInv, Live,
           InFlightStatus
  <2>4. RequestInv'
    BY DEF RequestInv, RunInv, RegisteredWhileItRuns, HoldsARow, Starting,
           InFlightStatus, TypeOK, RequestType, Live, RunSteps, GoroutineSteps
  <2>5. StartedOnce'
    BY DEF StartedOnce
  <2>6. RunInv'
    BY DEF RunInv, RegisteredWhileItRuns, Live, InFlightStatus, TypeOK,
           RunSteps, Images
  <2>7. QED
    BY <2>1, <2>2, <2>3, <2>4, <2>5, <2>6
<1>2. CASE RunBuilding(n)
  <2> USE <1>2 DEF RunBuilding, UpdateOwnStatus, UpdateDeploymentStatus, Move
  <2>1. TypeOK'
    BY DEF TypeOK, Images, InFlightStatus, TerminalStatus, GoroutineSteps,
           PanickedSteps, RunSteps, Live
  <2>2. RegisteredWhileItRuns'
    BY DEF RegisteredWhileItRuns, TypeOK, GoroutineSteps, RunSteps
  <2>3. SucceededReachedTheCluster'
    BY DEF SucceededReachedTheCluster, Succeeded, TypeOK, RunInv, Live,
           InFlightStatus
  <2>4. RequestInv'
    BY DEF RequestInv, RunInv, RegisteredWhileItRuns, HoldsARow, Starting,
           InFlightStatus, TypeOK, RequestType, Live, RunSteps, GoroutineSteps
  <2>5. StartedOnce'
    BY DEF StartedOnce
  <2>6. RunInv'
    BY DEF RunInv, RegisteredWhileItRuns, Live, InFlightStatus, TypeOK,
           RunSteps, Images
  <2>7. QED
    BY <2>1, <2>2, <2>3, <2>4, <2>5, <2>6
<1>3. CASE Build(n)
  <2> USE <1>3 DEF Build, Move
  <2>1. TypeOK'
    BY DEF TypeOK, Images, InFlightStatus, TerminalStatus, GoroutineSteps,
           PanickedSteps, RunSteps, Live
  <2>2. RegisteredWhileItRuns'
    BY DEF RegisteredWhileItRuns, TypeOK, GoroutineSteps, RunSteps
  <2>3. SucceededReachedTheCluster'
    BY DEF SucceededReachedTheCluster, Succeeded, TypeOK, RunInv, Live,
           InFlightStatus
  <2>4. RequestInv'
    BY DEF RequestInv, RunInv, RegisteredWhileItRuns, HoldsARow, Starting,
           InFlightStatus, TypeOK, RequestType, Live, RunSteps, GoroutineSteps
  <2>5. StartedOnce'
    BY DEF StartedOnce
  <2>6. RunInv'
    BY DEF RunInv, RegisteredWhileItRuns, Live, InFlightStatus, TypeOK,
           RunSteps, Images
  <2>7. QED
    BY <2>1, <2>2, <2>3, <2>4, <2>5, <2>6
<1>4. CASE SetDeploymentImage(n)
  <2> USE <1>4 DEF SetDeploymentImage, Move
  <2>1. TypeOK'
    BY DEF TypeOK, Images, InFlightStatus, TerminalStatus, GoroutineSteps,
           PanickedSteps, RunSteps, Live
  <2>2. RegisteredWhileItRuns'
    BY DEF RegisteredWhileItRuns, TypeOK, GoroutineSteps, RunSteps
  <2>3. SucceededReachedTheCluster'
    BY DEF SucceededReachedTheCluster, Succeeded, TypeOK, RunInv, Live,
           InFlightStatus
  <2>4. RequestInv'
    BY DEF RequestInv, RunInv, RegisteredWhileItRuns, HoldsARow, Starting,
           InFlightStatus, TypeOK, RequestType, Live, RunSteps, GoroutineSteps
  <2>5. StartedOnce'
    BY DEF StartedOnce
  <2>6. RunInv'
    BY DEF RunInv, RegisteredWhileItRuns, Live, InFlightStatus, TypeOK,
           RunSteps, Images
  <2>7. QED
    BY <2>1, <2>2, <2>3, <2>4, <2>5, <2>6
<1>5. CASE RunDeploying(n)
  <2> USE <1>5 DEF RunDeploying, UpdateOwnStatus, UpdateDeploymentStatus, Move
  <2>1. TypeOK'
    BY DEF TypeOK, Images, InFlightStatus, TerminalStatus, GoroutineSteps,
           PanickedSteps, RunSteps, Live
  <2>2. RegisteredWhileItRuns'
    BY DEF RegisteredWhileItRuns, TypeOK, GoroutineSteps, RunSteps
  <2>3. SucceededReachedTheCluster'
    BY DEF SucceededReachedTheCluster, Succeeded, TypeOK, RunInv, Live,
           InFlightStatus
  <2>4. RequestInv'
    BY DEF RequestInv, RunInv, RegisteredWhileItRuns, HoldsARow, Starting,
           InFlightStatus, TypeOK, RequestType, Live, RunSteps, GoroutineSteps
  <2>5. StartedOnce'
    BY DEF StartedOnce
  <2>6. RunInv'
    BY DEF RunInv, RegisteredWhileItRuns, Live, InFlightStatus, TypeOK,
           RunSteps, Images
  <2>7. QED
    BY <2>1, <2>2, <2>3, <2>4, <2>5, <2>6
<1>6. CASE AskPlugins(n)
  <2> USE <1>6 DEF AskPlugins, Move
  <2>1. TypeOK'
    BY DEF TypeOK, Images, InFlightStatus, TerminalStatus, GoroutineSteps,
           PanickedSteps, RunSteps, Live
  <2>2. RegisteredWhileItRuns'
    BY DEF RegisteredWhileItRuns, TypeOK, GoroutineSteps, RunSteps
  <2>3. SucceededReachedTheCluster'
    BY DEF SucceededReachedTheCluster, Succeeded, TypeOK, RunInv, Live,
           InFlightStatus
  <2>4. RequestInv'
    BY DEF RequestInv, RunInv, RegisteredWhileItRuns, HoldsARow, Starting,
           InFlightStatus, TypeOK, RequestType, Live, RunSteps, GoroutineSteps
  <2>5. StartedOnce'
    BY DEF StartedOnce
  <2>6. RunInv'
    BY DEF RunInv, RegisteredWhileItRuns, Live, InFlightStatus, TypeOK,
           RunSteps, Images
  <2>7. QED
    BY <2>1, <2>2, <2>3, <2>4, <2>5, <2>6
<1>7. CASE RunRelease(n)
  <2> USE <1>7 DEF RunRelease, Move
  <2>1. TypeOK'
    BY DEF TypeOK, Images, InFlightStatus, TerminalStatus, GoroutineSteps,
           PanickedSteps, RunSteps, Live
  <2>2. RegisteredWhileItRuns'
    BY DEF RegisteredWhileItRuns, TypeOK, GoroutineSteps, RunSteps
  <2>3. SucceededReachedTheCluster'
    BY DEF SucceededReachedTheCluster, Succeeded, TypeOK, RunInv, Live,
           InFlightStatus
  <2>4. RequestInv'
    BY DEF RequestInv, RunInv, RegisteredWhileItRuns, HoldsARow, Starting,
           InFlightStatus, TypeOK, RequestType, Live, RunSteps, GoroutineSteps
  <2>5. StartedOnce'
    BY DEF StartedOnce
  <2>6. RunInv'
    BY DEF RunInv, RegisteredWhileItRuns, Live, InFlightStatus, TypeOK,
           RunSteps, Images
  <2>7. QED
    BY <2>1, <2>2, <2>3, <2>4, <2>5, <2>6
<1>8. CASE Apply(n)
  <2> USE <1>8 DEF Apply, Move
  <2>1. TypeOK'
    <3>4. loaded[n] \in Configs
      BY DEF TypeOK
    <3>1. applied' \in [id: Ids \cup {0}, config: Configs] /\ landed' \subseteq Ids
      <4>1. [id |-> n, config |-> loaded[n]] \in [id: Ids \cup {0}, config: Configs]
        BY <3>4
      <4>2. QED
        BY <4>1 DEF TypeOK
    <3>2. pc' \in [Ids -> GoroutineSteps \cup PanickedSteps \cup {"off", "done"}]
      BY DEF TypeOK, GoroutineSteps, RunSteps
    <3>3. QED
      BY <3>1, <3>2 DEF TypeOK
  <2>2. RegisteredWhileItRuns'
    BY DEF RegisteredWhileItRuns, TypeOK, GoroutineSteps, RunSteps
  <2>3. SucceededReachedTheCluster'
    BY DEF SucceededReachedTheCluster, Succeeded, TypeOK, RunInv, Live,
           InFlightStatus
  <2>4. RequestInv'
    BY DEF RequestInv, RunInv, RegisteredWhileItRuns, HoldsARow, Starting,
           InFlightStatus, TypeOK, RequestType, Live, RunSteps, GoroutineSteps
  <2>5. StartedOnce'
    BY DEF StartedOnce
  <2>6. RunInv'
    BY DEF RunInv, RegisteredWhileItRuns, Live, InFlightStatus, TypeOK,
           RunSteps, Images
  <2>7. QED
    BY <2>1, <2>2, <2>3, <2>4, <2>5, <2>6
<1>9. CASE WaitForRollout(n)
  <2> USE <1>9 DEF WaitForRollout, Move
  <2>1. TypeOK'
    BY DEF TypeOK, Images, InFlightStatus, TerminalStatus, GoroutineSteps,
           PanickedSteps, RunSteps, Live
  <2>2. RegisteredWhileItRuns'
    BY DEF RegisteredWhileItRuns, TypeOK, GoroutineSteps, RunSteps
  <2>3. SucceededReachedTheCluster'
    BY DEF SucceededReachedTheCluster, Succeeded, TypeOK, RunInv, Live,
           InFlightStatus
  <2>4. RequestInv'
    BY DEF RequestInv, RunInv, RegisteredWhileItRuns, HoldsARow, Starting,
           InFlightStatus, TypeOK, RequestType, Live, RunSteps, GoroutineSteps
  <2>5. StartedOnce'
    BY DEF StartedOnce
  <2>6. RunInv'
    BY DEF RunInv, RegisteredWhileItRuns, Live, InFlightStatus, TypeOK,
           RunSteps, Images
  <2>7. QED
    BY <2>1, <2>2, <2>3, <2>4, <2>5, <2>6
<1>10. CASE RunSucceeded(n)
  <2> USE <1>10 DEF RunSucceeded, UpdateOwnStatus, UpdateDeploymentStatus, Move
  <2>1. TypeOK'
    BY DEF TypeOK, Images, InFlightStatus, TerminalStatus, GoroutineSteps,
           PanickedSteps, RunSteps, Live
  <2>2. RegisteredWhileItRuns'
    BY DEF RegisteredWhileItRuns, TypeOK, GoroutineSteps, RunSteps
  <2>3. SucceededReachedTheCluster'
    BY DEF SucceededReachedTheCluster, Succeeded, TypeOK, RunInv, Live,
           InFlightStatus
  <2>4. RequestInv'
    BY DEF RequestInv, RunInv, RegisteredWhileItRuns, HoldsARow, Starting,
           InFlightStatus, TypeOK, RequestType, Live, RunSteps, GoroutineSteps
  <2>5. StartedOnce'
    BY DEF StartedOnce
  <2>6. RunInv'
    BY DEF RunInv, RegisteredWhileItRuns, Live, InFlightStatus, TypeOK,
           RunSteps, Images
  <2>7. QED
    BY <2>1, <2>2, <2>3, <2>4, <2>5, <2>6
<1>11. CASE RunLive(n)
  <2> USE <1>11 DEF RunLive, SetAppStatus, Move
  <2>1. TypeOK'
    BY DEF TypeOK, Images, InFlightStatus, TerminalStatus, GoroutineSteps,
           PanickedSteps, RunSteps, Live
  <2>2. RegisteredWhileItRuns'
    BY DEF RegisteredWhileItRuns, TypeOK, GoroutineSteps, RunSteps
  <2>3. SucceededReachedTheCluster'
    BY DEF SucceededReachedTheCluster, Succeeded, TypeOK, RunInv, Live,
           InFlightStatus
  <2>4. RequestInv'
    BY DEF RequestInv, RunInv, RegisteredWhileItRuns, HoldsARow, Starting,
           InFlightStatus, TypeOK, RequestType, Live, RunSteps, GoroutineSteps
  <2>5. StartedOnce'
    BY DEF StartedOnce
  <2>6. RunInv'
    BY DEF RunInv, RegisteredWhileItRuns, Live, InFlightStatus, TypeOK,
           RunSteps, Images
  <2>7. QED
    BY <2>1, <2>2, <2>3, <2>4, <2>5, <2>6
<1>12. CASE FailRow(n)
  <2> USE <1>12 DEF FailRow, UpdateOwnStatus, UpdateDeploymentStatus, Move
  <2>1. TypeOK'
    BY DEF TypeOK, Images, InFlightStatus, TerminalStatus, GoroutineSteps,
           PanickedSteps, RunSteps, Live
  <2>2. RegisteredWhileItRuns'
    BY DEF RegisteredWhileItRuns, TypeOK, GoroutineSteps, RunSteps
  <2>3. SucceededReachedTheCluster'
    BY DEF SucceededReachedTheCluster, Succeeded, TypeOK, RunInv, Live,
           InFlightStatus
  <2>4. RequestInv'
    BY DEF RequestInv, RunInv, RegisteredWhileItRuns, HoldsARow, Starting,
           InFlightStatus, TypeOK, RequestType, Live, RunSteps, GoroutineSteps
  <2>5. StartedOnce'
    BY DEF StartedOnce
  <2>6. RunInv'
    BY DEF RunInv, RegisteredWhileItRuns, Live, InFlightStatus, TypeOK,
           RunSteps, Images
  <2>7. QED
    BY <2>1, <2>2, <2>3, <2>4, <2>5, <2>6
<1>13. CASE FailApp(n)
  <2> USE <1>13 DEF FailApp, SetAppStatus, Move
  <2>1. TypeOK'
    BY DEF TypeOK, Images, InFlightStatus, TerminalStatus, GoroutineSteps,
           PanickedSteps, RunSteps, Live
  <2>2. RegisteredWhileItRuns'
    BY DEF RegisteredWhileItRuns, TypeOK, GoroutineSteps, RunSteps
  <2>3. SucceededReachedTheCluster'
    BY DEF SucceededReachedTheCluster, Succeeded, TypeOK, RunInv, Live,
           InFlightStatus
  <2>4. RequestInv'
    BY DEF RequestInv, RunInv, RegisteredWhileItRuns, HoldsARow, Starting,
           InFlightStatus, TypeOK, RequestType, Live, RunSteps, GoroutineSteps
  <2>5. StartedOnce'
    BY DEF StartedOnce
  <2>6. RunInv'
    BY DEF RunInv, RegisteredWhileItRuns, Live, InFlightStatus, TypeOK,
           RunSteps, Images
  <2>7. QED
    BY <2>1, <2>2, <2>3, <2>4, <2>5, <2>6
<1>14. CASE Finish(n)
  <2> USE <1>14 DEF Finish, Move
  <2>1. TypeOK'
    BY DEF TypeOK, Images, InFlightStatus, TerminalStatus, GoroutineSteps,
           PanickedSteps, RunSteps, Live
  <2>2. RegisteredWhileItRuns'
    BY DEF RegisteredWhileItRuns, TypeOK, GoroutineSteps, RunSteps
  <2>3. SucceededReachedTheCluster'
    BY DEF SucceededReachedTheCluster, Succeeded, TypeOK, RunInv, Live,
           InFlightStatus
  <2>4. RequestInv'
    BY DEF RequestInv, RunInv, RegisteredWhileItRuns, HoldsARow, Starting,
           InFlightStatus, TypeOK, RequestType, Live, RunSteps, GoroutineSteps
  <2>5. StartedOnce'
    BY DEF StartedOnce
  <2>6. RunInv'
    BY DEF RunInv, RegisteredWhileItRuns, Live, InFlightStatus, TypeOK,
           RunSteps, Images
  <2>7. QED
    BY <2>1, <2>2, <2>3, <2>4, <2>5, <2>6
<1>15. CASE Panic(n)
  <2> USE <1>15 DEF Panic, Move
  <2>1. TypeOK'
    BY DEF TypeOK, Images, InFlightStatus, TerminalStatus, GoroutineSteps,
           PanickedSteps, RunSteps, Live
  <2>2. RegisteredWhileItRuns'
    BY DEF RegisteredWhileItRuns, TypeOK, GoroutineSteps, RunSteps
  <2>3. SucceededReachedTheCluster'
    BY DEF SucceededReachedTheCluster, Succeeded, TypeOK, RunInv, Live,
           InFlightStatus
  <2>4. RequestInv'
    BY DEF RequestInv, RunInv, RegisteredWhileItRuns, HoldsARow, Starting,
           InFlightStatus, TypeOK, RequestType, Live, RunSteps, GoroutineSteps
  <2>5. StartedOnce'
    BY DEF StartedOnce
  <2>6. RunInv'
    BY DEF RunInv, RegisteredWhileItRuns, Live, InFlightStatus, TypeOK,
           RunSteps, Images
  <2>7. QED
    BY <2>1, <2>2, <2>3, <2>4, <2>5, <2>6
<1>16. CASE Expire(n)
  <2> USE <1>16 DEF Expire
  <2>1. TypeOK'
    BY DEF TypeOK, Images, InFlightStatus, TerminalStatus, GoroutineSteps,
           PanickedSteps, RunSteps, Live
  <2>2. RegisteredWhileItRuns'
    BY DEF RegisteredWhileItRuns, TypeOK, GoroutineSteps, RunSteps
  <2>3. SucceededReachedTheCluster'
    BY DEF SucceededReachedTheCluster, Succeeded, TypeOK, RunInv, Live,
           InFlightStatus
  <2>4. RequestInv'
    BY DEF RequestInv, RunInv, RegisteredWhileItRuns, HoldsARow, Starting,
           InFlightStatus, TypeOK, RequestType, Live, RunSteps, GoroutineSteps
  <2>5. StartedOnce'
    BY DEF StartedOnce
  <2>6. RunInv'
    BY DEF RunInv, RegisteredWhileItRuns, Live, InFlightStatus, TypeOK,
           RunSteps, Images
  <2>7. QED
    BY <2>1, <2>2, <2>3, <2>4, <2>5, <2>6
<1>17. QED
  BY <1>1, <1>2, <1>3, <1>4, <1>5, <1>6, <1>7, <1>8, <1>9, <1>10, <1>11, <1>12, <1>13,
     <1>14, <1>15, <1>16
     DEF RunStep

\* So does a restart, which leaves no request and no goroutine behind.
LEMMA RestartKeepsIInv == ASSUME IInv, Restart PROVE IInv'
<1> USE NoConfigType DEF IInv, Restart, cluster, app
<1>1. TypeOK'
  BY IdleReqType DEF TypeOK, InFlight, InFlightStatus, TerminalStatus
<1>2. RegisteredWhileItRuns' /\ SucceededReachedTheCluster'
  BY DEF RegisteredWhileItRuns, RunSteps, SucceededReachedTheCluster, Succeeded, TypeOK,
         InFlight
<1>3. RequestInv' /\ StartedOnce'
  BY DEF RequestInv, StartedOnce, IdleReq, HoldsARow, Starting
<1>4. RunInv'
  BY DEF RunInv, Live, InFlight, InFlightStatus, TypeOK
<1>5. QED
  BY <1>1, <1>2, <1>3, <1>4

\* An app that was never deployed satisfies the invariant.
LEMMA InitIInv == Init => IInv
<1> SUFFICES ASSUME Init PROVE IInv
  OBVIOUS
<1> USE NoConfigType DEF Init
<1>1. TypeOK
  BY IdleReqType DEF TypeOK, Images, Nothing
<1>2. RegisteredWhileItRuns /\ SucceededReachedTheCluster
  BY DEF RegisteredWhileItRuns, RunSteps, SucceededReachedTheCluster, Succeeded
<1>3. RequestInv /\ StartedOnce
  BY DEF RequestInv, StartedOnce, IdleReq, HoldsARow, Starting
<1>4. RunInv
  BY DEF RunInv, Live
<1>5. QED
  BY <1>1, <1>2, <1>3, <1>4 DEF IInv

\* No step of any actor leaves the invariant.
LEMMA NextKeepsIInv == IInv /\ [Next]_vars => IInv'
<1> SUFFICES ASSUME IInv, [Next]_vars PROVE IInv'
  OBVIOUS
<1>1. CASE UNCHANGED vars
  BY <1>1 DEF IInv, vars, rows, work, cluster, app, TypeOK, RegisteredWhileItRuns,
              SucceededReachedTheCluster, Succeeded, RequestInv, StartedOnce, RunInv, Live
<1>2. CASE Restart
  BY <1>2, RestartKeepsIInv
<1>3. ASSUME NEW r \in Requests, NewRequest(r) \/ RequestStep(r) PROVE IInv'
  BY <1>3, RequestStepsKeepIInv
<1>4. ASSUME NEW n \in Ids, RunStep(n) \/ Panic(n) \/ Expire(n) PROVE IInv'
  BY <1>4, RunStepsKeepIInv
<1>5. QED
  BY <1>1, <1>2, <1>3, <1>4 DEF Next

\* The inductive invariant holds in every reachable state.
THEOREM InductiveInvariant == Spec => []IInv
BY InitIInv, NextKeepsIInv, PTL DEF Spec

\* Deployments keeps its types whatever the interleaving of requests,
\* goroutines, panics, timeouts and restarts.
THEOREM TypeCorrect == Spec => []TypeOK
<1>1. IInv => TypeOK
  BY DEF IInv
<1>2. QED
  BY <1>1, InductiveInvariant, PTL

\* run: no deployment is ever recorded as succeeded before its objects were
\* on the cluster, whatever was refused on the way.
THEOREM SuccessIsReal == Spec => []SucceededReachedTheCluster
<1>1. IInv => SucceededReachedTheCluster
  BY DEF IInv
<1>2. QED
  BY <1>1, InductiveInvariant, PTL

\* start, finish and the recover: Deployer.running names exactly the
\* goroutines that can still be stopped.
THEOREM RunningMapIsExact == Spec => []RegisteredWhileItRuns
<1>1. IInv => RegisteredWhileItRuns
  BY DEF IInv
<1>2. QED
  BY <1>1, InductiveInvariant, PTL

\* UpdateDeploymentStatus, SupersedeRunningDeployments and the recovery at
\* startup: no write of any actor, however late, moves a finished deployment.
THEOREM FinishedStaysFinished == Spec => TerminalIsFinal
<1>1. ASSUME IInv, [Next]_vars
      PROVE  \A n \in Ids : status[n] \in TerminalStatus => status'[n] = status[n]
  <2> USE MaxDeploymentsAssumption
      DEF IInv, TypeOK, TerminalStatus, InFlightStatus, InFlight, rows
  <2>1. CASE UNCHANGED status
    BY <2>1
  <2>2. ASSUME NEW r \in Requests, CreateDeployment(r)
        PROVE  \A n \in Ids : status[n] \in TerminalStatus => status'[n] = status[n]
    BY <2>2 DEF CreateDeployment, IsNextNumber
  <2>3. ASSUME NEW r \in Requests, SupersedeMark(r) \/ CancelMark(r)
        PROVE  \A n \in Ids : status[n] \in TerminalStatus => status'[n] = status[n]
    <3>1. CASE SupersedeMark(r)
      BY <3>1 DEF SupersedeMark
    <3>2. CASE CancelMark(r)
      <4>1. UpdateDeploymentStatus(req[r].id, "cancelled") \/ UNCHANGED status
        BY <3>2 DEF CancelMark
      <4>2. QED
        BY <1>1, <4>1 DEF UpdateDeploymentStatus
    <3>3. QED
      BY <2>3, <3>1, <3>2
  <2>4. ASSUME NEW m \in Ids,
               RunBuilding(m) \/ RunDeploying(m) \/ RunSucceeded(m) \/ FailRow(m)
        PROVE  \A n \in Ids : status[n] \in TerminalStatus => status'[n] = status[n]
    <3>1. UNCHANGED status \/ \E s : UpdateDeploymentStatus(m, s)
      BY <2>4 DEF RunBuilding, RunDeploying, RunSucceeded, FailRow, UpdateOwnStatus
    <3>2. QED
      BY <1>1, <3>1 DEF UpdateDeploymentStatus
  <2>5. CASE Restart
    BY <2>5 DEF Restart
  <2>6. ASSUME NEW r \in Requests, NewRequest(r) \/ RequestStep(r)
        PROVE  \/ UNCHANGED status
               \/ CreateDeployment(r) \/ SupersedeMark(r) \/ CancelMark(r)
    BY <2>6 DEF NewRequest, RequestStep, DeployRead, RollbackRead, CancelRead,
                UpdateSettings,
                CreateFails, SupersedeSelect, SupersedeFails, StopSuperseded, Start,
                RestoreRuntimeSpec, CancelStop, SyncRead, SyncApply
  <2>7. ASSUME NEW m \in Ids, RunStep(m) \/ Panic(m) \/ Expire(m)
        PROVE  \/ UNCHANGED status
               \/ RunBuilding(m) \/ RunDeploying(m) \/ RunSucceeded(m) \/ FailRow(m)
    BY <2>7 DEF RunStep, RunLoad, Build, SetDeploymentImage, AskPlugins, RunRelease,
                Apply,
                WaitForRollout, RunLive, FailApp, Finish, Panic, Expire
  <2>8. QED
    BY <1>1, <2>1, <2>2, <2>3, <2>4, <2>5, <2>6, <2>7 DEF Next, vars
<1>2. QED
  BY <1>1, InductiveInvariant, PTL DEF Spec, TerminalIsFinal

\* The two calls that write to the cluster: a deployment's own apply, on a
\* live context, and the apply of a Sync.
LEMMA OnlyTheseWrite ==
    ASSUME [Next]_vars
    PROVE  \/ UNCHANGED cluster
           \/ \E n \in Ids : /\ pc[n] = "apply" /\ Live(n)
                             /\ applied'.id = n /\ landed' = landed \cup {n}
           \/ \E r \in Requests : SyncApply(r)
<1> USE DEF cluster
<1>1. ASSUME NEW r \in Requests, NewRequest(r) \/ RequestStep(r)
      PROVE  UNCHANGED cluster \/ SyncApply(r)
  BY <1>1 DEF NewRequest, RequestStep, DeployRead, RollbackRead, CancelRead,
              UpdateSettings,
              CreateDeployment, CreateFails, SupersedeSelect, SupersedeMark, SupersedeFails,
              StopSuperseded, Start, RestoreRuntimeSpec, CancelStop, CancelMark, SyncRead
<1>2. ASSUME NEW n \in Ids, RunStep(n) \/ Panic(n) \/ Expire(n)
      PROVE  UNCHANGED cluster \/ Apply(n)
  BY <1>2 DEF RunStep, RunLoad, RunBuilding, Build, SetDeploymentImage, RunDeploying,
              AskPlugins,
              RunRelease, WaitForRollout, RunSucceeded, RunLive, FailRow, FailApp, Finish,
              Panic, Expire
<1>3. ASSUME NEW n \in Ids, Apply(n)
      PROVE  \/ UNCHANGED cluster
             \/ /\ pc[n] = "apply" /\ Live(n)
                /\ applied'.id = n /\ landed' = landed \cup {n}
  BY <1>3 DEF Apply
<1>4. CASE Restart
  BY <1>4 DEF Restart
<1>5. CASE UNCHANGED vars
  BY <1>5 DEF vars
<1>6. QED
  BY <1>1, <1>2, <1>3, <1>4, <1>5 DEF Next

\* What a Sync puts on the cluster is a deployment that succeeded.
LEMMA WhoWritesTheCluster ==
    ASSUME IInv, [Next]_vars
    PROVE  \/ UNCHANGED cluster
           \/ \E n \in Ids : /\ pc[n] = "apply" /\ Live(n)
                             /\ applied'.id = n /\ landed' = landed \cup {n}
           \/ \E n \in Ids : /\ status[n] = "succeeded"
                             /\ applied'.id = n /\ landed' = landed \cup {n}
<1> USE DEF cluster
<1>1. ASSUME NEW r \in Requests, SyncApply(r)
      PROVE  \/ UNCHANGED cluster
             \/ \E n \in Ids : /\ status[n] = "succeeded"
                               /\ applied'.id = n /\ landed' = landed \cup {n}
  <2>1. req[r].id \in Ids /\ status[req[r].id] = "succeeded"
    BY <1>1 DEF SyncApply, At, IInv, RequestInv, HoldsARow
  <2>2. QED
    BY <1>1, <2>1 DEF SyncApply
<1>2. QED
  BY <1>1, OnlyTheseWrite

\* Cancel: from the moment a deployment's row says cancelled its objects
\* cannot reach the cluster any more.
THEOREM CancelIsFinal == Spec => CancelledNeverLands
<1>1. ASSUME IInv, [Next]_vars
      PROVE  \A n \in Ids : status[n] = "cancelled" /\ n \notin landed => n \notin landed'
  <2>1. \A n \in Ids : status[n] = "cancelled" => ~Live(n)
    BY <1>1 DEF IInv, RunInv, Live
  <2>2. QED
    BY <1>1, <2>1, WhoWritesTheCluster DEF cluster
<1>2. QED
  BY <1>1, InductiveInvariant, PTL DEF Spec, CancelledNeverLands

\* Sync: what is put back on the cluster without a deployment of its own is
\* a deployment that succeeded.
THEOREM SyncIsSafe == Spec => SyncReappliesASuccess
<1>1. ASSUME IInv, [Next]_vars
      PROVE  applied' # applied =>
                pc[applied'.id] = "apply" \/ status[applied'.id] = "succeeded"
  BY <1>1, WhoWritesTheCluster DEF cluster
<1>2. QED
  BY <1>1, InductiveInvariant, PTL DEF Spec, SyncReappliesASuccess

-----------------------------------------------------------------------------
(***************************************************************************)
(* One deploy at a time.  Deploy reads which deployments are in flight in  *)
(* one statement and marks them in another, and a rollback supersedes      *)
(* nothing, so neither property below holds of every behaviour: the runs   *)
(* find the counterexamples.  They are proved of the behaviours in which   *)
(* no two deploys are between their rows and their goroutines at once;     *)
(* cancels, changes of settings, restarts, panics and timeouts may come    *)
(* at any moment, and any number of deployments may be in progress.        *)
(***************************************************************************)
OneDeployAtATime ==
    \A q, r \in Requests : req[q].at \in Starting /\ req[r].at \in Starting => q = r

\* Nobody rolls back and no caller goes away in the middle of a request.
PlainDeploys == "rollback" \notin Calls /\ "disconnect" \notin Faults

\* The goroutine of n may still reach the cluster.
Heading(n) == Live(n) /\ pc[n] \in TowardsTheCluster \cup {"succeed"}
BeingStopped(n) == \E r \in Requests : At(r, "stop") /\ n \in req[r].stopping

\* Whoever is heading for the cluster has a row that says so, or is on the
\* list of a deploy that is about to stop it.
HeadingIsKnown == \A n \in Ids : Heading(n) => InFlight(n) \/ BeingStopped(n)
OneHeading == \A m, n \in Ids : Heading(m) /\ Heading(n) => m = n

\* What a deploy knows of the others, statement by statement.
DeployKnows ==
    \A r \in Requests :
        /\ ~req[r].rollback /\ ~At(r, "restore")
        /\ req[r].at \in Starting => InFlight(req[r].id)
        /\ At(r, "mark") => \A m \in Ids \ {req[r].id} : InFlight(m) => m \in req[r].stopping
        /\ At(r, "stop") => \A m \in Ids : Heading(m) => m \in req[r].stopping
        /\ At(r, "start") => \A m \in Ids : ~Heading(m)

SerialInv == HeadingIsKnown /\ OneHeading /\ DeployKnows

\* A step that starts nothing, creates nothing and leaves a deploy in progress
\* alone.
LEMMA CalmStepKeepsSerial ==
    ASSUME IInv, SerialInv,
           \A q \in Requests : /\ req'[q].at \in Starting \/ req[q].at \in Starting => req'[q] = req[q]
                               /\ ~req'[q].rollback,
           \A n \in Ids : /\ Heading(n)' => Heading(n)
                          /\ InFlight(n)' => InFlight(n)
                          /\ Heading(n)' \/ pc[n] = "off" => (InFlight(n) => InFlight(n)')
    PROVE  SerialInv'
<1>1. HeadingIsKnown'
  <2>1. ASSUME NEW n \in Ids, BeingStopped(n) PROVE BeingStopped(n)'
    BY <2>1 DEF BeingStopped, At, Starting
  <2>2. QED BY <2>1 DEF SerialInv, HeadingIsKnown
<1>2. OneHeading'
  BY DEF SerialInv, OneHeading
<1>3. DeployKnows'
  <2> SUFFICES ASSUME NEW r \in Requests
               PROVE  /\ ~req'[r].rollback /\ ~At(r, "restore")'
                      /\ req'[r].at \in Starting => InFlight(req[r].id)'
                      /\ At(r, "mark")' => \A m \in Ids \ {req'[r].id} : InFlight(m)' => m \in req'[r].stopping
                      /\ At(r, "stop")' => \A m \in Ids : Heading(m)' => m \in req'[r].stopping
                      /\ At(r, "start")' => \A m \in Ids : ~Heading(m)'
    BY DEF DeployKnows
  <2>1. CASE req'[r].at \notin Starting
    BY <2>1 DEF At, Starting
  <2>2. CASE req'[r].at \in Starting
    <3>1. req'[r] = req[r]
      BY <2>2
    <3>2. PICK n \in Ids : n = req[r].id /\ pc[n] = "off" /\ InFlight(n)
      BY <2>2, <3>1 DEF IInv, RequestInv, HoldsARow, SerialInv, DeployKnows
    <3>3. InFlight(n)' /\ n = req'[r].id
      BY <3>1, <3>2
    <3>4. InFlight(req[r].id)'
      BY <3>3 DEF InFlight
    <3>5. /\ ~req[r].rollback /\ req[r].at # "restore"
          /\ req[r].at = "mark" => \A m \in Ids \ {req[r].id} : InFlight(m) => m \in req[r].stopping
          /\ req[r].at = "stop" => \A m \in Ids : Heading(m) => m \in req[r].stopping
          /\ req[r].at = "start" => \A m \in Ids : ~Heading(m)
      BY DEF SerialInv, DeployKnows, At
    <3>6. QED BY <3>1, <3>4, <3>5 DEF At
  <2>3. QED BY <2>1, <2>2
<1>4. QED BY <1>1, <1>2, <1>3 DEF SerialInv

\* The goroutines: none of their steps turns towards the cluster, and a row
\* that is finished by its own goroutine is the row of one that is not heading
\* there any more.
LEMMA GoroutinesAreCalm ==
    ASSUME IInv, NEW n \in Ids, RunStep(n) \/ Panic(n) \/ Expire(n)
    PROVE  /\ req' = req /\ \A m \in Ids \ {n} : UNCHANGED <<pc[m], ctx[m], status[m]>>
           /\ pc[n] # "off" /\ pc'[n] # "off" /\ (status'[n] = "none" <=> status[n] = "none")
           /\ (Heading(n)' => Heading(n)) /\ (InFlight(n)' => InFlight(n))
           /\ Heading(n)' => (InFlight(n) => InFlight(n)')
<1> USE DEF rows, work, cluster, app, Move, Live, Heading, InFlight, InFlightStatus, TowardsTheCluster,
            UpdateOwnStatus, UpdateDeploymentStatus
<1>t. /\ status \in [Ids -> InFlightStatus \cup TerminalStatus \cup {"none"}]
      /\ pc \in [Ids -> GoroutineSteps \cup PanickedSteps \cup {"off", "done"}]
      /\ ctx \in [Ids -> {"none", "live", "ended"}]
  BY DEF IInv, TypeOK
<1>1. req' = req
  BY DEF RunStep, RunLoad, RunBuilding, Build, SetDeploymentImage, RunDeploying, AskPlugins, RunRelease, Apply,
         WaitForRollout, RunSucceeded, RunLive, FailRow, FailApp, Finish, Panic, Expire
<1>2. /\ \A m \in Ids \ {n} : UNCHANGED <<pc[m], ctx[m], status[m]>>
      /\ pc[n] # "off" /\ pc'[n] # "off" /\ (status'[n] = "none" <=> status[n] = "none")
      /\ (Heading(n)' => Heading(n)) /\ (InFlight(n)' => InFlight(n))
      /\ Heading(n)' => (InFlight(n) => InFlight(n)')
  <2>1. CASE RunLoad(n) \/ RunBuilding(n) \/ Build(n) \/ SetDeploymentImage(n) \/ RunDeploying(n)
    BY <1>t, <2>1 DEF RunLoad, RunBuilding, Build, SetDeploymentImage, RunDeploying
  <2>2. CASE AskPlugins(n) \/ RunRelease(n) \/ Apply(n) \/ WaitForRollout(n)
    BY <1>t, <2>2 DEF AskPlugins, RunRelease, Apply, WaitForRollout
  <2>3. CASE RunSucceeded(n) \/ RunLive(n) \/ FailRow(n) \/ FailApp(n) \/ Finish(n)
    BY <1>t, <2>3 DEF RunSucceeded, RunLive, FailRow, FailApp, Finish
  <2>4. CASE Panic(n) \/ Expire(n)
    BY <1>t, <2>4 DEF Panic, Expire, RunSteps, IInv, RegisteredWhileItRuns, GoroutineSteps
  <2>5. QED BY <2>1, <2>2, <2>3, <2>4 DEF RunStep
<1> QED BY <1>1, <1>2

LEMMA GoroutinesKeepSerial ==
    ASSUME IInv, SerialInv, NEW n \in Ids, RunStep(n) \/ Panic(n) \/ Expire(n)
    PROVE  SerialInv'
<1>1. \A q \in Requests : req'[q] = req[q] /\ ~req'[q].rollback
  BY GoroutinesAreCalm DEF SerialInv, DeployKnows
<1>2. \A m \in Ids : /\ Heading(m)' => Heading(m)
                     /\ InFlight(m)' => InFlight(m)
                     /\ Heading(m)' \/ pc[m] = "off" => (InFlight(m) => InFlight(m)')
  BY GoroutinesAreCalm DEF Heading, Live, InFlight
<1> QED BY <1>1, <1>2, CalmStepKeepsSerial

\* The requests that deploy nothing, and the reads of one that will.
LEMMA OtherRequestsAreCalm ==
    ASSUME IInv, SerialInv, PlainDeploys, NEW r \in Requests,
           NewRequest(r) \/ CreateFails(r) \/ CancelStop(r) \/ CancelMark(r) \/ SyncRead(r) \/ SyncApply(r)
    PROVE  /\ pc' = pc
           /\ \A q \in Requests : /\ req'[q].at \in Starting \/ req[q].at \in Starting => req'[q] = req[q]
                                  /\ ~req'[q].rollback
           /\ \A m \in Ids : /\ Heading(m)' => Heading(m)
                             /\ InFlight(m)' => InFlight(m)
                             /\ Heading(m)' \/ pc[m] = "off" => (InFlight(m) => InFlight(m)')
           /\ \A m \in Ids : /\ status'[m] = "none" <=> status[m] = "none"
                             /\ status'[m] = "succeeded" <=> status[m] = "succeeded"
<1> USE DEF rows, work, cluster, app
<1>t. /\ status \in [Ids -> InFlightStatus \cup TerminalStatus \cup {"none"}]
      /\ ctx \in [Ids -> {"none", "live", "ended"}]
      /\ req \in [Requests -> RequestType]
  BY DEF IInv, TypeOK
<1>1. req[r].at \notin Starting /\ ~req[r].rollback
  BY DEF NewRequest, DeployRead, RollbackRead, CancelRead, UpdateSettings, CreateFails, CancelStop, CancelMark,
         SyncRead, SyncApply, At, Starting, SerialInv, DeployKnows
<1>2. PICK x : req' = [req EXCEPT ![r] = x] /\ x.at \notin Starting /\ ~x.rollback
  <2>1. IdleReq.at \notin Starting /\ ~IdleReq.rollback
    BY DEF IdleReq, Starting
  <2>2. CASE DeployRead(r)
    <3>1. PICK c \in Commits, i \in Images : req' = [req EXCEPT ![r] = [IdleReq EXCEPT
                       !.at = "create", !.commit = c, !.image = i, !.spec = config]]
      BY <2>2 DEF DeployRead
    <3> DEFINE x == [IdleReq EXCEPT !.at = "create", !.commit = c, !.image = i, !.spec = config]
    <3>2. x.at = "create" /\ x.rollback = FALSE
      BY DEF IdleReq
    <3>3. req' = [req EXCEPT ![r] = x]
      BY <3>1
    <3> HIDE DEF x
    <3>4. QED BY <3>2, <3>3 DEF Starting
  <2>3. CASE CancelRead(r) \/ UpdateSettings(r) \/ SyncRead(r) \/ CancelStop(r)
    <3>1. \/ req' = [req EXCEPT ![r] = IdleReq]
          \/ \E n \in Ids : req' = [req EXCEPT ![r] = [req[r] EXCEPT !.at = "cancel", !.id = n]]
          \/ \E n \in Ids : req' = [req EXCEPT ![r] = [req[r] EXCEPT !.at = "syncapply", !.id = n, !.spec = config]]
          \/ \E w \in {"sync", "cancelled"} : req' = [req EXCEPT ![r] = [req[r] EXCEPT !.at = w]]
      BY <2>3 DEF CancelRead, UpdateSettings, SyncRead, CancelStop, Goto, Done
    <3>2. ASSUME NEW x, req' = [req EXCEPT ![r] = x], x.at \in {"cancel", "syncapply", "sync", "cancelled"},
                 x.rollback = req[r].rollback
          PROVE  \E y : req' = [req EXCEPT ![r] = y] /\ y.at \notin Starting /\ ~y.rollback
      BY <1>1, <3>2 DEF Starting
    <3>3. \A n \in Ids : LET x == [req[r] EXCEPT !.at = "cancel", !.id = n]
                             y == [req[r] EXCEPT !.at = "syncapply", !.id = n, !.spec = config]
                         IN  /\ x.at = "cancel" /\ x.rollback = req[r].rollback
                             /\ y.at = "syncapply" /\ y.rollback = req[r].rollback
      BY <1>t DEF RequestType
    <3>4. \A w \in {"sync", "cancelled"} : LET x == [req[r] EXCEPT !.at = w]
                                           IN  x.at = w /\ x.rollback = req[r].rollback
      BY <1>t DEF RequestType
    <3>5. CASE req' = [req EXCEPT ![r] = IdleReq]
      BY <2>1, <3>5
    <3>6. CASE \E n \in Ids : \/ req' = [req EXCEPT ![r] = [req[r] EXCEPT !.at = "cancel", !.id = n]]
                              \/ req' = [req EXCEPT ![r] = [req[r] EXCEPT !.at = "syncapply", !.id = n, !.spec = config]]
      BY <3>2, <3>3, <3>6
    <3>7. CASE \E w \in {"sync", "cancelled"} : req' = [req EXCEPT ![r] = [req[r] EXCEPT !.at = w]]
      BY <3>2, <3>4, <3>7
    <3>8. QED BY <3>1, <3>5, <3>6, <3>7
  <2>4. CASE CreateFails(r) \/ CancelMark(r) \/ SyncApply(r)
    BY <2>1, <2>4 DEF CreateFails, CancelMark, SyncApply, Done
  <2>5. QED BY <2>2, <2>3, <2>4 DEF NewRequest, RollbackRead, PlainDeploys
<1>3. \A q \in Requests : /\ req'[q].at \in Starting \/ req[q].at \in Starting => req'[q] = req[q]
                          /\ ~req'[q].rollback
  BY <1>1, <1>2, <1>t DEF SerialInv, DeployKnows
<1>4. /\ pc' = pc
      /\ ctx' = ctx \/ ctx' = [ctx EXCEPT ![req[r].id] = "ended"]
      /\ status' = status \/ (At(r, "cancelled") /\ UpdateDeploymentStatus(req[r].id, "cancelled"))
  BY DEF NewRequest, DeployRead, RollbackRead, CancelRead, UpdateSettings, CreateFails, CancelStop, CancelMark,
         SyncRead, SyncApply
<1>5. \A m \in Ids : Heading(m)' => Heading(m)
  BY <1>4, <1>t DEF Heading, Live
<1>6. \A m \in Ids : /\ InFlight(m)' => InFlight(m)
                     /\ Heading(m)' \/ pc[m] = "off" => (InFlight(m) => InFlight(m)')
  <2>1. CASE status' = status
    BY <2>1 DEF InFlight
  <2>2. CASE At(r, "cancelled") /\ UpdateDeploymentStatus(req[r].id, "cancelled")
    <3>1. req[r].id \in Ids /\ pc[req[r].id] # "off" /\ ctx[req[r].id] # "live"
      BY <2>2 DEF At, IInv, RequestInv, HoldsARow
    <3>2. /\ \A m \in Ids : m # req[r].id => status'[m] = status[m]
          /\ status'[req[r].id] \in {status[req[r].id], "cancelled"}
      BY <1>t, <2>2, <3>1 DEF UpdateDeploymentStatus
    <3>3. ~Heading(req[r].id)
      BY <3>1 DEF Heading, Live
    <3>4. QED BY <1>5, <3>1, <3>2, <3>3 DEF InFlight, InFlightStatus
  <2>3. QED BY <1>4, <2>1, <2>2
<1>7. \A m \in Ids : /\ status'[m] = "none" <=> status[m] = "none"
                     /\ status'[m] = "succeeded" <=> status[m] = "succeeded"
  <2>1. CASE At(r, "cancelled") /\ UpdateDeploymentStatus(req[r].id, "cancelled")
    <3>1. req[r].id \in Ids
      BY <2>1 DEF At, IInv, RequestInv, HoldsARow
    <3>2. QED BY <1>t, <2>1, <3>1 DEF UpdateDeploymentStatus, InFlightStatus
  <2>2. QED BY <1>4, <2>1
<1>8. QED BY <1>3, <1>4, <1>5, <1>6, <1>7

LEMMA OtherRequestsKeepSerial ==
    ASSUME IInv, SerialInv, PlainDeploys, NEW r \in Requests,
           NewRequest(r) \/ CreateFails(r) \/ CancelStop(r) \/ CancelMark(r) \/ SyncRead(r) \/ SyncApply(r)
    PROVE  SerialInv'
<1>1. /\ \A q \in Requests : /\ req'[q].at \in Starting \/ req[q].at \in Starting => req'[q] = req[q]
                             /\ ~req'[q].rollback
      /\ \A m \in Ids : /\ Heading(m)' => Heading(m)
                        /\ InFlight(m)' => InFlight(m)
                        /\ Heading(m)' \/ pc[m] = "off" => (InFlight(m) => InFlight(m)')
  BY OtherRequestsAreCalm
<1> QED BY <1>1, CalmStepKeepsSerial

\* Nothing but the row is new: every other row that is in flight now was
\* before, and the request that makes it is alone.
LEMMA CreateKeepsSerial ==
    ASSUME IInv, SerialInv, OneDeployAtATime', NEW r \in Requests, CreateDeployment(r)
    PROVE  SerialInv'
<1> USE DEF rows, work, cluster, app
<1>t. /\ status \in [Ids -> InFlightStatus \cup TerminalStatus \cup {"none"}]
      /\ req \in [Requests -> RequestType]
  BY DEF IInv, TypeOK
<1>1. PICK n \in Ids : /\ status' = [status EXCEPT ![n] = "queued"] /\ IsNextNumber(n)
                       /\ req' = [req EXCEPT ![r].id = n, ![r].at = IF req[r].rollback THEN "restore" ELSE "select"]
  BY DEF CreateDeployment
<1>0. status[n] = "none"
  BY <1>1, MaxDeploymentsAssumption DEF IsNextNumber
<1>2. ~req[r].rollback /\ req[r].at = "create"
  BY DEF SerialInv, DeployKnows, CreateDeployment, At
<1>3. req'[r].id = n /\ req'[r].at = "select" /\ ~req'[r].rollback /\ \A q \in Requests : q # r => req'[q] = req[q]
  BY <1>1, <1>2, <1>t DEF RequestType
<1>4. \A q \in Requests : q # r => req'[q].at \notin Starting
  BY <1>3 DEF OneDeployAtATime, Starting
<1>5. \A m \in Ids : (Heading(m)' <=> Heading(m)) /\ (InFlight(m) => InFlight(m)') /\ InFlight(n)'
  BY <1>0, <1>1, <1>t DEF CreateDeployment, Heading, Live, InFlight, InFlightStatus
<1>6. \A m \in Ids : BeingStopped(m) => BeingStopped(m)'
  BY <1>2, <1>3 DEF BeingStopped, At
<1>7. HeadingIsKnown' /\ OneHeading'
  BY <1>5, <1>6 DEF SerialInv, HeadingIsKnown, OneHeading
<1>8. DeployKnows'
  <2>1. \A q \in Requests : q # r => ~req'[q].rollback
    BY <1>3 DEF SerialInv, DeployKnows
  <2>2. InFlight(req[r].id)'
    BY <1>3, <1>5 DEF InFlight
  <2>3. QED BY <1>3, <1>4, <2>1, <2>2 DEF DeployKnows, At, Starting
<1>9. QED BY <1>7, <1>8 DEF SerialInv

\* A deploy between its row and its goroutine: it is the only one, its row is
\* in flight and its goroutine has not started.
LEMMA TheDeploy ==
    ASSUME IInv, SerialInv, OneDeployAtATime, NEW r \in Requests, req[r].at \in Starting
    PROVE  /\ req[r].id \in Ids /\ pc[req[r].id] = "off" /\ ~Heading(req[r].id) /\ InFlight(req[r].id)
           /\ ~req[r].rollback /\ req[r] \in RequestType
           /\ \A q \in Requests : q # r => req[q].at \notin Starting /\ ~req[q].rollback
           /\ \A m \in Ids : BeingStopped(m) <=> At(r, "stop") /\ m \in req[r].stopping
<1>1. req[r].id \in Ids /\ pc[req[r].id] = "off" /\ InFlight(req[r].id)
  BY DEF IInv, RequestInv, HoldsARow, SerialInv, DeployKnows
<1>2. ~Heading(req[r].id)
  BY <1>1 DEF Heading, TowardsTheCluster
<1>3. \A q \in Requests : q # r => req[q].at \notin Starting
  BY DEF OneDeployAtATime
<1>4. \A q \in Requests : ~req[q].rollback
  BY DEF SerialInv, DeployKnows
<1>5. \A m \in Ids : BeingStopped(m) <=> At(r, "stop") /\ m \in req[r].stopping
  BY <1>3 DEF BeingStopped, At, Starting
<1>6. req[r] \in RequestType
  BY DEF IInv, TypeOK
<1>7. QED BY <1>1, <1>2, <1>3, <1>4, <1>5, <1>6

\* The deploy goes on to its next statement: what it knows then is enough.
LEMMA DeployGoesOn ==
    ASSUME IInv, SerialInv, OneDeployAtATime, NEW r \in Requests, req[r].at \in Starting,
           NEW x, req' = [req EXCEPT ![r] = x], x.at # "restore", ~x.rollback,
           x.at \in Starting => x.id = req[r].id /\ InFlight(req[r].id)',
           x.at = "mark" => \A m \in Ids \ {x.id} : InFlight(m)' => m \in x.stopping,
           x.at = "stop" => \A m \in Ids : Heading(m)' => m \in x.stopping,
           x.at = "start" => \A m \in Ids : ~Heading(m)',
           \A m \in Ids : Heading(m)' => InFlight(m)' \/ (x.at = "stop" /\ m \in x.stopping),
           OneHeading'
    PROVE  SerialInv'
<1>1. req'[r] = x /\ \A q \in Requests : q # r => req'[q] = req[q]
  BY DEF IInv, TypeOK
<1>2. \A q \in Requests : q # r => req[q].at \notin Starting /\ ~req[q].rollback
  BY TheDeploy
<1>3. HeadingIsKnown'
  BY <1>1 DEF HeadingIsKnown, BeingStopped, At
<1>4. x.at \in Starting => InFlight(req[r].id)' /\ req'[r].id = req[r].id
  BY <1>1
<1>5. ASSUME NEW q \in Requests
      PROVE  /\ ~req'[q].rollback /\ req'[q].at # "restore"
             /\ req'[q].at \in Starting => q = r
  BY <1>1, <1>2, <1>5 DEF Starting
<1>6. DeployKnows'
  BY <1>1, <1>4, <1>5 DEF DeployKnows, At, Starting
<1>7. QED BY <1>3, <1>6 DEF SerialInv

LEMMA SupersedeSelectKeepsSerial ==
    ASSUME IInv, SerialInv, OneDeployAtATime, NEW r \in Requests, SupersedeSelect(r)
    PROVE  SerialInv'
<1> DEFINE ids == {m \in Ids \ {req[r].id} : InFlight(m)}
           x == [req[r] EXCEPT !.at = IF ids = {} THEN "start" ELSE "mark", !.stopping = ids]
<1>1. req[r].at = "select" /\ req[r].at \in Starting /\ UNCHANGED <<status, pc, ctx>>
  BY DEF SupersedeSelect, At, Starting, rows, work
<1>2. /\ req[r].id \in Ids /\ ~Heading(req[r].id) /\ InFlight(req[r].id) /\ req[r] \in RequestType
      /\ ~req[r].rollback /\ \A m \in Ids : ~BeingStopped(m)
  BY <1>1, TheDeploy DEF At
<1>3. req' = [req EXCEPT ![r] = x]
  BY DEF SupersedeSelect
<1>4. /\ x.at = (IF ids = {} THEN "start" ELSE "mark") /\ x.stopping = ids /\ x.id = req[r].id
      /\ x.rollback = req[r].rollback
  BY <1>2 DEF RequestType
<1>5. \A m \in Ids : (Heading(m)' <=> Heading(m)) /\ (InFlight(m)' <=> InFlight(m))
  BY <1>1 DEF Heading, Live, InFlight
<1>6. \A m \in Ids : Heading(m) => InFlight(m) /\ m \in ids
  BY <1>2 DEF SerialInv, HeadingIsKnown
<1>7. InFlight(req[r].id)'
  BY <1>2, <1>4, <1>3, <1>1 DEF InFlight, IInv, TypeOK
<1>8. \A m \in Ids \ {req[r].id} : InFlight(m)' => m \in ids
  BY <1>5
<1>9. OneHeading'
  BY <1>5 DEF SerialInv, OneHeading
<1> HIDE DEF ids, x
<1>10. QED BY <1>1, <1>2, <1>3, <1>4, <1>5, <1>6, <1>7, <1>8, <1>9, DeployGoesOn

LEMMA SupersedeMarkKeepsSerial ==
    ASSUME IInv, SerialInv, OneDeployAtATime, NEW r \in Requests, SupersedeMark(r)
    PROVE  SerialInv'
<1> DEFINE x == [req[r] EXCEPT !.at = "stop"]
<1>1. req[r].at = "mark" /\ req[r].at \in Starting /\ UNCHANGED <<pc, ctx>>
  BY DEF SupersedeMark, At, Starting, work
<1>2. /\ req[r].id \in Ids /\ ~Heading(req[r].id) /\ InFlight(req[r].id) /\ req[r] \in RequestType
      /\ ~req[r].rollback /\ \A m \in Ids : ~BeingStopped(m)
  BY <1>1, TheDeploy DEF At
<1>3. req' = [req EXCEPT ![r] = x]
  BY DEF SupersedeMark, Goto
<1>4. x.at = "stop" /\ x.stopping = req[r].stopping /\ x.id = req[r].id /\ x.rollback = req[r].rollback
  BY <1>2 DEF RequestType
<1>5. \A m \in Ids : Heading(m)' <=> Heading(m)
  BY <1>1 DEF Heading, Live
<1>6. \A m \in Ids : Heading(m) => InFlight(m) /\ m # req[r].id
  BY <1>2 DEF SerialInv, HeadingIsKnown
<1>7. \A m \in Ids : Heading(m) => m \in req[r].stopping
  BY <1>1, <1>6 DEF SerialInv, DeployKnows, At
<1>8. req'[r].id = req[r].id /\ status'[req[r].id] = status[req[r].id]
  BY <1>2, <1>3, <1>4 DEF SupersedeMark, IInv, TypeOK
<1>9. InFlight(req[r].id)'
  BY <1>2, <1>8 DEF InFlight
<1>10. OneHeading'
  BY <1>5 DEF SerialInv, OneHeading
<1> HIDE DEF x
<1>11. QED BY <1>1, <1>2, <1>3, <1>4, <1>5, <1>7, <1>9, <1>10, DeployGoesOn

LEMMA StopSupersededKeepsSerial ==
    ASSUME IInv, SerialInv, OneDeployAtATime, NEW r \in Requests, StopSuperseded(r)
    PROVE  SerialInv'
<1>1. req[r].at = "stop" /\ req[r].at \in Starting /\ UNCHANGED <<status, pc>>
  BY DEF StopSuperseded, At, Starting, rows
<1>2. PICK m \in req[r].stopping :
          /\ ctx' = IF m \in running /\ ctx[m] = "live" THEN [ctx EXCEPT ![m] = "ended"] ELSE ctx
          /\ req' = [req EXCEPT ![r].stopping = @ \ {m},
                        ![r].at = IF req[r].stopping = {m} THEN "start" ELSE "stop"]
  BY DEF StopSuperseded
<1> DEFINE x == [req[r] EXCEPT !.stopping = req[r].stopping \ {m},
                               !.at = IF req[r].stopping = {m} THEN "start" ELSE "stop"]
<1>3. /\ req[r].id \in Ids /\ ~Heading(req[r].id) /\ InFlight(req[r].id) /\ req[r] \in RequestType
      /\ ~req[r].rollback
  BY <1>1, TheDeploy
<1>4. req' = [req EXCEPT ![r] = x] /\ m \in Ids
  BY <1>2, <1>3 DEF RequestType
<1>5. /\ x.at = (IF req[r].stopping = {m} THEN "start" ELSE "stop")
      /\ x.stopping = req[r].stopping \ {m} /\ x.id = req[r].id /\ x.rollback = req[r].rollback
  BY <1>3 DEF RequestType
<1>6. ~Heading(m)' /\ \A n \in Ids : Heading(n)' => Heading(n)
  <2>1. ctx \in [Ids -> {"none", "live", "ended"}]
    BY DEF IInv, TypeOK
  <2>2. m \notin running => pc[m] \notin TowardsTheCluster \cup {"succeed"}
    BY <1>4 DEF IInv, RegisteredWhileItRuns, TowardsTheCluster, RunSteps
  <2>3. QED BY <1>1, <1>2, <1>4, <2>1, <2>2 DEF Heading, Live
<1>7. \A n \in Ids : Heading(n) => n \in req[r].stopping
  BY <1>1 DEF SerialInv, DeployKnows, At
<1>8. \A n \in Ids : Heading(n)' => n \in x.stopping
  BY <1>5, <1>6, <1>7
<1>9. x.at = "start" => x.stopping = {}
  BY <1>5
<1>10. InFlight(req[r].id)'
  BY <1>1, <1>3, <1>4, <1>5 DEF InFlight, IInv, TypeOK
<1>11. OneHeading'
  BY <1>6 DEF SerialInv, OneHeading
<1> HIDE DEF x
<1>12. QED BY <1>1, <1>3, <1>4, <1>5, <1>8, <1>9, <1>10, <1>11, DeployGoesOn

LEMMA StartKeepsSerial ==
    ASSUME IInv, SerialInv, OneDeployAtATime, NEW r \in Requests, Start(r)
    PROVE  SerialInv'
<1>1. req[r].at = "start" /\ req[r].at \in Starting /\ UNCHANGED status /\ req' = [req EXCEPT ![r] = IdleReq]
  BY DEF Start, At, Starting, rows, Done
<1>2. req[r].id \in Ids /\ InFlight(req[r].id)
  BY <1>1, TheDeploy
<1>3. \A m \in Ids : ~Heading(m)
  BY <1>1 DEF SerialInv, DeployKnows, At
<1>4. \A m \in Ids : Heading(m)' => m = req[r].id
  BY <1>2, <1>3 DEF Start, Heading, Live, IInv, TypeOK
<1>5. \A m \in Ids : Heading(m)' => InFlight(m)'
  BY <1>1, <1>2, <1>4 DEF InFlight
<1>6. PICK n \in Ids : n = req[r].id
  BY <1>2
<1>7. OneHeading'
  BY <1>4, <1>6 DEF OneHeading
<1>8. IdleReq.at = "idle" /\ ~IdleReq.rollback
  BY DEF IdleReq
<1>9. QED BY <1>1, <1>5, <1>7, <1>8, DeployGoesOn DEF Starting

LEMMA SerialStart == Init => (PlainDeploys => SerialInv)
<1> SUFFICES ASSUME Init PROVE SerialInv
  OBVIOUS
<1> USE DEF Init
<1>1. \A n \in Ids : ~Heading(n)
  BY DEF Heading, Live
<1>2. \A r \in Requests : req[r].at = "idle" /\ ~req[r].rollback
  BY DEF IdleReq
<1>3. QED BY <1>1, <1>2 DEF SerialInv, HeadingIsKnown, OneHeading, DeployKnows, Starting, At

LEMMA RestartKeepsSerial == ASSUME Restart PROVE SerialInv'
<1> USE DEF Restart
<1>1. \A n \in Ids : ~Heading(n)'
  BY DEF Heading, Live
<1>2. \A r \in Requests : req'[r].at = "idle" /\ ~req'[r].rollback
  BY DEF IdleReq
<1>3. QED BY <1>1, <1>2 DEF SerialInv, HeadingIsKnown, OneHeading, DeployKnows, Starting, At

LEMMA NextKeepsSerial ==
    ASSUME PlainDeploys
    PROVE  IInv /\ SerialInv /\ OneDeployAtATime /\ OneDeployAtATime' /\ [Next]_vars => SerialInv'
<1> SUFFICES ASSUME IInv, SerialInv, OneDeployAtATime, OneDeployAtATime', [Next]_vars PROVE SerialInv'
  OBVIOUS
<1>1. CASE UNCHANGED vars
  <2>1. UNCHANGED <<req, pc, ctx, status>>
    BY <1>1 DEF vars, rows, work
  <2>2. \A n \in Ids : (Heading(n)' <=> Heading(n)) /\ (InFlight(n)' <=> InFlight(n))
    BY <2>1 DEF Heading, Live, InFlight
  <2>3. \A q \in Requests : req'[q] = req[q] /\ ~req'[q].rollback
    BY <2>1 DEF SerialInv, DeployKnows
  <2>4. QED BY <2>2, <2>3, CalmStepKeepsSerial
<1>2. CASE Restart
  BY <1>2, RestartKeepsSerial
<1>3. ASSUME NEW n \in Ids, RunStep(n) \/ Panic(n) \/ Expire(n) PROVE SerialInv'
  BY <1>3, GoroutinesKeepSerial
<1>4. ASSUME NEW r \in Requests, NewRequest(r) \/ RequestStep(r) PROVE SerialInv'
  <2>1. ~SupersedeFails(r) /\ ~RestoreRuntimeSpec(r)
    BY DEF SupersedeFails, PlainDeploys, RestoreRuntimeSpec, SerialInv, DeployKnows
  <2>2. CASE NewRequest(r) \/ CreateFails(r) \/ CancelStop(r) \/ CancelMark(r) \/ SyncRead(r) \/ SyncApply(r)
    BY <2>2, OtherRequestsKeepSerial
  <2>3. CASE CreateDeployment(r) \/ SupersedeSelect(r) \/ SupersedeMark(r) \/ StopSuperseded(r) \/ Start(r)
    BY <2>3, CreateKeepsSerial, SupersedeSelectKeepsSerial, SupersedeMarkKeepsSerial, StopSupersededKeepsSerial,
       StartKeepsSerial
  <2>4. QED BY <1>4, <2>1, <2>2, <2>3 DEF RequestStep
<1>5. QED BY <1>1, <1>2, <1>3, <1>4 DEF Next

LEMMA SerialInvariant == ASSUME PlainDeploys PROVE Spec /\ []OneDeployAtATime => []SerialInv
<1>1. Init => SerialInv
  BY SerialStart
<1>2. QED BY <1>1, NextKeepsSerial, InductiveInvariant, PTL DEF Spec

\* Deploy, SupersedeRunningDeployments and stop: while deploys do not overlap,
\* however many deployments are building and whoever cancels, panics or
\* restarts meanwhile, at most one of them can still reach the cluster.
THEOREM OneRunAtATime == ASSUME PlainDeploys PROVE Spec /\ []OneDeployAtATime => []AtMostOneLiveRun
<1>1. IInv /\ SerialInv => AtMostOneLiveRun
  <2> SUFFICES ASSUME IInv, SerialInv PROVE AtMostOneLiveRun
    OBVIOUS
  <2>0. running \subseteq Ids
    BY DEF IInv, TypeOK
  <2> DEFINE S == {n \in running : Live(n) /\ pc[n] \in TowardsTheCluster}
  <2>1. \A m, n \in S : m \in Ids /\ n \in Ids => m = n
    BY DEF SerialInv, OneHeading, Heading
  <2>2. S \subseteq running /\ running \subseteq Ids
    BY <2>0
  <2>3. CASE S = {}
    BY <2>3, FS_EmptySet DEF AtMostOneLiveRun
  <2>4. CASE S # {}
    <3>1. PICK n : S = {n}
      <4>1. PICK n : n \in S
        BY <2>4
      <4>2. S = {n}
        BY <2>1, <2>2, <4>1
      <4>3. QED BY <4>2
    <3> HIDE DEF S
    <3>2. Cardinality(S) = 1
      BY <3>1, FS_Singleton
    <3>3. QED BY <3>2 DEF AtMostOneLiveRun, S
  <2>5. QED BY <2>3, <2>4
<1>2. QED BY <1>1, SerialInvariant, InductiveInvariant, PTL

\* The same of a panel that one person uses.
THEOREM OneRunWithOneCaller ==
    ASSUME PlainDeploys, \A q, r \in Requests : q = r PROVE Spec => []AtMostOneLiveRun
<1>1. OneDeployAtATime
  BY DEF OneDeployAtATime
<1>2. QED BY <1>1, OneRunAtATime, PTL

\* Deploy: "Marking the row is not enough": while deploys do not overlap, a
\* superseded deployment that is not on the list of one that is about to stop
\* it does not reach the cluster any more.
THEOREM SupersededIsStopped == ASSUME PlainDeploys PROVE Spec /\ []OneDeployAtATime => SupersededNeverLands
<1>1. IInv /\ SerialInv /\ [Next]_vars =>
             \A n \in Ids : (/\ status[n] = "superseded" /\ n \notin landed
                             /\ \A r \in Requests : ~(At(r, "stop") /\ n \in req[r].stopping))
                            => n \notin landed'
  <2> SUFFICES ASSUME IInv, SerialInv, [Next]_vars, NEW n \in Ids, status[n] = "superseded", n \notin landed, ~BeingStopped(n)
               PROVE  n \notin landed'
    BY DEF BeingStopped
  <2>1. ~Heading(n)
    BY DEF SerialInv, HeadingIsKnown, InFlight, InFlightStatus
  <2>2. ~(pc[n] = "apply" /\ Live(n))
    BY <2>1 DEF Heading, TowardsTheCluster
  <2>3. QED BY <2>2, WhoWritesTheCluster DEF cluster
<1>2. Spec /\ []OneDeployAtATime => [](IInv /\ SerialInv)
  BY SerialInvariant, InductiveInvariant, PTL
<1>3. QED BY <1>1, <1>2, PTL DEF Spec, SupersededNeverLands

-----------------------------------------------------------------------------
(***************************************************************************)
(* The deployer implements Rollouts, while deploys do not overlap.  Of the *)
(* requests nothing but a deploy between its row and its goroutine shows;  *)
(* of the goroutines, that one is on its way and what it has brought.      *)
(***************************************************************************)
HadItsTurn(n) == pc[n] # "off"

\* A deploy that has its row has the newest, and whoever is on its way is the
\* newest that had its turn.
DeployIsNewest ==
    \A r \in Requests : req[r].at \in Starting => \A m \in Ids : status[m] # "none" => m <= req[r].id
NewestIsOnItsWay == \A m, n \in Ids : Heading(n) /\ HadItsTurn(m) => m <= n

\* A row without a goroutine is the one of a deploy that has yet to start it.
OthersHadTheirTurn ==
    \A n \in Ids : status[n] # "none" /\ ~HadItsTurn(n)
        => \E r \in Requests : req[r].at \in Starting /\ req[r].id = n

\* What the cluster carried had its turn.
LandedHadTheirTurn == applied.id \in landed \cup {0} /\ \A n \in landed : HadItsTurn(n)

\* Without settings to sync, what was brought by the one on its way is still there.
BroughtIsThere ==
    "settings" \notin Calls =>
        /\ \A r \in Requests : req[r].at \notin {"sync", "syncapply"}
        /\ \A n \in Ids : Heading(n) /\ pc[n] \in {"rollout", "succeed"} => applied.id = n

TurnInv == /\ DeployIsNewest /\ NewestIsOnItsWay /\ OthersHadTheirTurn
           /\ LandedHadTheirTurn /\ BroughtIsThere

\* A step that neither makes a row nor starts a goroutine.
LEMMA CalmStepKeepsTurns ==
    ASSUME DeployIsNewest, NewestIsOnItsWay, OthersHadTheirTurn,
           \A q \in Requests : req'[q].at \in Starting \/ req[q].at \in Starting
                => req'[q].id = req[q].id /\ req'[q].at \in Starting /\ req[q].at \in Starting,
           \A n \in Ids : /\ Heading(n)' => Heading(n)
                          /\ HadItsTurn(n)' <=> HadItsTurn(n)
                          /\ status'[n] = "none" <=> status[n] = "none"
    PROVE  DeployIsNewest' /\ NewestIsOnItsWay' /\ OthersHadTheirTurn'
<1>1. DeployIsNewest'
  BY DEF DeployIsNewest
<1>2. NewestIsOnItsWay'
  BY DEF NewestIsOnItsWay
<1>3. OthersHadTheirTurn'
  <2> SUFFICES ASSUME NEW n \in Ids, status'[n] # "none", ~HadItsTurn(n)'
               PROVE  \E r \in Requests : req'[r].at \in Starting /\ req'[r].id = n
    BY DEF OthersHadTheirTurn
  <2>1. PICK r \in Requests : req[r].at \in Starting /\ req[r].id = n
    BY DEF OthersHadTheirTurn
  <2>2. QED BY <2>1
<1> QED BY <1>1, <1>2, <1>3

\* The statements of a deploy between its row and its goroutine.
LEMMA SupersedeIsCalm ==
    ASSUME IInv, SerialInv, OneDeployAtATime, NEW r \in Requests,
           SupersedeSelect(r) \/ SupersedeMark(r) \/ StopSuperseded(r)
    PROVE  /\ pc' = pc
           /\ \A q \in Requests : req'[q].at \in Starting \/ req[q].at \in Starting
                => req'[q].id = req[q].id /\ req'[q].at \in Starting /\ req[q].at \in Starting
           /\ \A q \in Requests : req[q].at \notin {"sync", "syncapply"} => req'[q].at \notin {"sync", "syncapply"}
           /\ \A n \in Ids : /\ Heading(n)' => Heading(n)
                             /\ status'[n] = "none" <=> status[n] = "none"
                             /\ status'[n] = "succeeded" <=> status[n] = "succeeded"
<1> USE DEF rows, work, cluster, app
<1>t. /\ status \in [Ids -> InFlightStatus \cup TerminalStatus \cup {"none"}]
      /\ ctx \in [Ids -> {"none", "live", "ended"}]
      /\ req \in [Requests -> RequestType]
  BY DEF IInv, TypeOK
<1>1. pc' = pc /\ req[r].at \in {"select", "mark", "stop"}
  BY DEF SupersedeSelect, SupersedeMark, StopSuperseded, At
<1>2. \E x : req' = [req EXCEPT ![r] = x] /\ x.id = req[r].id /\ x.at \in {"start", "mark", "stop"}
  <2>1. CASE SupersedeSelect(r)
    <3> DEFINE ids == {m \in Ids \ {req[r].id} : InFlight(m)}
               x == [req[r] EXCEPT !.at = IF ids = {} THEN "start" ELSE "mark", !.stopping = ids]
    <3>1. req' = [req EXCEPT ![r] = x]
      BY <2>1 DEF SupersedeSelect
    <3>2. x.id = req[r].id /\ x.at \in {"start", "mark", "stop"}
      BY <1>t DEF RequestType
    <3> HIDE DEF x
    <3>3. QED BY <3>1, <3>2
  <2>2. CASE SupersedeMark(r)
    <3> DEFINE x == [req[r] EXCEPT !.at = "stop"]
    <3>1. req' = [req EXCEPT ![r] = x] /\ x.id = req[r].id /\ x.at = "stop"
      BY <1>t, <2>2 DEF SupersedeMark, Goto, RequestType
    <3> HIDE DEF x
    <3>2. QED BY <3>1
  <2>3. CASE StopSuperseded(r)
    <3>1. PICK m \in req[r].stopping :
            req' = [req EXCEPT ![r].stopping = @ \ {m}, ![r].at = IF req[r].stopping = {m} THEN "start" ELSE "stop"]
      BY <2>3 DEF StopSuperseded
    <3> DEFINE x == [req[r] EXCEPT !.stopping = req[r].stopping \ {m},
                                   !.at = IF req[r].stopping = {m} THEN "start" ELSE "stop"]
    <3>2. req' = [req EXCEPT ![r] = x]
      BY <1>t, <3>1
    <3>3. x.id = req[r].id /\ x.at \in {"start", "mark", "stop"}
      BY <1>t DEF RequestType
    <3> HIDE DEF x
    <3>4. QED BY <3>2, <3>3
  <2>4. QED BY <2>1, <2>2, <2>3
<1>3. \A q \in Requests : /\ req'[q].at \in Starting \/ req[q].at \in Starting
                                => req'[q].id = req[q].id /\ req'[q].at \in Starting /\ req[q].at \in Starting
                          /\ req[q].at \notin {"sync", "syncapply"} => req'[q].at \notin {"sync", "syncapply"}
  BY <1>t, <1>1, <1>2 DEF Starting
<1>4. \A n \in Ids : Heading(n)' => Heading(n)
  BY <1>t, <1>1 DEF SupersedeSelect, SupersedeMark, StopSuperseded, Heading, Live
<1>5. \A n \in Ids : /\ status'[n] = "none" <=> status[n] = "none"
                     /\ status'[n] = "succeeded" <=> status[n] = "succeeded"
  BY <1>t DEF SupersedeSelect, SupersedeMark, StopSuperseded, InFlight, InFlightStatus
<1> QED BY <1>1, <1>3, <1>4, <1>5

\* A request starts a Sync only where settings are changed.
LEMMA NobodySyncs ==
    ASSUME IInv, PlainDeploys, "settings" \notin Calls, \A q \in Requests : req[q].at \notin {"sync", "syncapply"},
           NEW r \in Requests, NewRequest(r) \/ CreateFails(r) \/ CancelStop(r) \/ CancelMark(r) \/ SyncRead(r)
                                \/ SyncApply(r) \/ CreateDeployment(r) \/ Start(r)
    PROVE  \A q \in Requests : req'[q].at \notin {"sync", "syncapply"}
<1>t. req \in [Requests -> RequestType]
  BY DEF IInv, TypeOK
<1>1. IdleReq.at = "idle"
  BY DEF IdleReq
<1>2. ~UpdateSettings(r) /\ ~SyncRead(r) /\ ~SyncApply(r) /\ ~RollbackRead(r)
  BY DEF UpdateSettings, SyncRead, SyncApply, At, RollbackRead, PlainDeploys
<1>3. CASE DeployRead(r)
  <2>1. PICK c \in Commits, i \in Images : req' = [req EXCEPT ![r] = [IdleReq EXCEPT
                     !.at = "create", !.commit = c, !.image = i, !.spec = config]]
    BY <1>3 DEF DeployRead
  <2> DEFINE x == [IdleReq EXCEPT !.at = "create", !.commit = c, !.image = i, !.spec = config]
  <2>2. x.at = "create" /\ req' = [req EXCEPT ![r] = x]
    BY <2>1 DEF IdleReq
  <2> HIDE DEF x
  <2>3. QED BY <1>t, <2>2
<1>4. CASE CancelRead(r)
  <2>1. PICK n \in Ids : req' = [req EXCEPT ![r].at = "cancel", ![r].id = n]
    BY <1>4 DEF CancelRead
  <2>2. req'[r].at = "cancel" /\ \A q \in Requests : q # r => req'[q] = req[q]
    BY <1>t, <2>1 DEF RequestType
  <2>3. QED BY <2>2
<1>5. CASE CreateFails(r) \/ CancelMark(r) \/ Start(r)
  BY <1>t, <1>1, <1>5 DEF CreateFails, CancelMark, Start, Done
<1>6. CASE CancelStop(r)
  <2>1. req' = [req EXCEPT ![r] = IdleReq] \/ req' = [req EXCEPT ![r].at = "cancelled"]
    BY <1>6 DEF CancelStop, Goto, Done
  <2>2. QED BY <1>t, <1>1, <2>1 DEF RequestType
<1>7. CASE CreateDeployment(r)
  <2>1. PICK n \in Ids : req' = [req EXCEPT ![r].id = n, ![r].at = IF req[r].rollback THEN "restore" ELSE "select"]
    BY <1>7 DEF CreateDeployment
  <2>2. req'[r].at \in {"restore", "select"} /\ \A q \in Requests : q # r => req'[q] = req[q]
    BY <1>t, <2>1 DEF RequestType
  <2>3. QED BY <2>2
<1> QED BY <1>2, <1>3, <1>4, <1>5, <1>6, <1>7 DEF NewRequest

LEMMA TurnsStart == Init => TurnInv
<1> SUFFICES ASSUME Init PROVE TurnInv
  OBVIOUS
<1> USE DEF Init
<1>1. \A n \in Ids : ~Heading(n) /\ ~HadItsTurn(n) /\ status[n] = "none"
  BY DEF Heading, Live, HadItsTurn
<1>2. \A r \in Requests : req[r].at = "idle"
  BY DEF IdleReq
<1>3. applied.id = 0 /\ landed = {}
  BY DEF Nothing
<1> QED BY <1>1, <1>2, <1>3 DEF TurnInv, DeployIsNewest, NewestIsOnItsWay, OthersHadTheirTurn, LandedHadTheirTurn,
                               BroughtIsThere, Starting

LEMMA RestartKeepsTurns == ASSUME IInv, TurnInv, Restart PROVE TurnInv'
<1> USE DEF Restart
<1>1. \A n \in Ids : ~Heading(n)' /\ (HadItsTurn(n)' <=> status[n] # "none") /\ (HadItsTurn(n) => HadItsTurn(n)')
  BY DEF Heading, Live, HadItsTurn, IInv, RunInv
<1>2. \A r \in Requests : req'[r].at = "idle"
  BY DEF IdleReq
<1>3. \A n \in Ids : status'[n] # "none" => status[n] # "none"
  BY DEF InFlight, InFlightStatus
<1>4. landed \subseteq Ids /\ applied' = applied /\ landed' = landed
  BY DEF IInv, TypeOK, cluster
<1>5. DeployIsNewest' /\ NewestIsOnItsWay' /\ OthersHadTheirTurn' /\ BroughtIsThere'
  BY <1>1, <1>2, <1>3 DEF DeployIsNewest, NewestIsOnItsWay, OthersHadTheirTurn, BroughtIsThere, Starting
<1>6. LandedHadTheirTurn'
  BY <1>1, <1>4 DEF TurnInv, LandedHadTheirTurn
<1> QED BY <1>5, <1>6 DEF TurnInv

\* A deploy makes its row: the newest, and the only one without a goroutine.
LEMMA CreateKeepsTurns ==
    ASSUME IInv, TurnInv, OneDeployAtATime', NEW r \in Requests, CreateDeployment(r),
           \A q \in Requests : req'[q].at = "sync" \/ req'[q].at = "syncapply" => "settings" \in Calls
    PROVE  TurnInv'
<1>t. /\ status \in [Ids -> InFlightStatus \cup TerminalStatus \cup {"none"}]
      /\ req \in [Requests -> RequestType]
  BY DEF IInv, TypeOK
<1>1. PICK n \in Ids : /\ status' = [status EXCEPT ![n] = "queued"] /\ IsNextNumber(n)
                       /\ req' = [req EXCEPT ![r].id = n, ![r].at = IF req[r].rollback THEN "restore" ELSE "select"]
  BY DEF CreateDeployment
<1>2. /\ req'[r].id = n /\ req'[r].at \in Starting /\ req[r].at = "create"
      /\ \A q \in Requests : q # r => req'[q] = req[q]
  BY <1>1, <1>t DEF RequestType, Starting, CreateDeployment, At
<1>3. \A q \in Requests : req'[q].at \in Starting => q = r
  BY <1>2 DEF OneDeployAtATime
<1>4. UNCHANGED <<pc, ctx, applied, landed>>
  BY DEF CreateDeployment, work, cluster
<1>5. \A m \in Ids : (status[m] # "none" => m <= n) /\ (m # n => status'[m] = status[m])
  BY <1>1, <1>t, MaxDeploymentsAssumption DEF IsNextNumber
<1>6. DeployIsNewest'
  <2> SUFFICES ASSUME NEW m \in Ids, status'[m] # "none" PROVE m <= n
    BY <1>2, <1>3 DEF DeployIsNewest
  <2>1. QED BY <1>5, MaxDeploymentsAssumption
<1>7. \A m \in Ids : (Heading(m)' <=> Heading(m)) /\ (HadItsTurn(m)' <=> HadItsTurn(m))
  BY <1>4 DEF Heading, Live, HadItsTurn
<1>8. NewestIsOnItsWay' /\ LandedHadTheirTurn'
  BY <1>4, <1>7 DEF TurnInv, NewestIsOnItsWay, LandedHadTheirTurn, IInv, TypeOK
<1>9. OthersHadTheirTurn'
  <2> SUFFICES ASSUME NEW m \in Ids, status'[m] # "none", ~HadItsTurn(m)'
               PROVE  \E q \in Requests : req'[q].at \in Starting /\ req'[q].id = m
    BY DEF OthersHadTheirTurn
  <2>1. CASE m = n
    BY <1>2, <2>1
  <2>2. CASE m # n
    <3>1. PICK q \in Requests : req[q].at \in Starting /\ req[q].id = m
      BY <1>5, <1>7, <2>2 DEF TurnInv, OthersHadTheirTurn
    <3>2. q # r
      BY <1>2, <3>1 DEF Starting
    <3>3. QED BY <1>2, <3>1, <3>2
  <2>3. QED BY <2>1, <2>2
<1>10. BroughtIsThere'
  BY <1>4, <1>7 DEF TurnInv, BroughtIsThere
<1> QED BY <1>6, <1>8, <1>9, <1>10 DEF TurnInv

\* It starts its goroutine: nobody was on the way, and everybody had a turn.
LEMMA StartIsATurn ==
    ASSUME IInv, SerialInv, TurnInv, OneDeployAtATime, NEW r \in Requests, Start(r)
    PROVE  /\ req[r].id \in Ids /\ req[r].at = "start" /\ ~HadItsTurn(req[r].id)
           /\ pc' = [pc EXCEPT ![req[r].id] = "load"]
           /\ \A m \in Ids : ~Heading(m) /\ (Heading(m)' <=> m = req[r].id)
           /\ \A m \in Ids : HadItsTurn(m) => m < req[r].id
           /\ \A m \in Ids : status[m] # "none" => HadItsTurn(m)'
           /\ req' = [req EXCEPT ![r] = IdleReq]
           /\ UNCHANGED <<status, applied, landed>>
<1>t. /\ pc \in [Ids -> GoroutineSteps \cup PanickedSteps \cup {"off", "done"}]
      /\ ctx \in [Ids -> {"none", "live", "ended"}]
  BY DEF IInv, TypeOK
<1>1. req[r].at = "start" /\ req[r].at \in Starting /\ req' = [req EXCEPT ![r] = IdleReq] /\ UNCHANGED <<status, applied, landed>>
  BY DEF Start, At, Starting, rows, cluster, Done
<1>2. req[r].id \in Ids /\ pc[req[r].id] = "off"
  BY <1>1, TheDeploy
<1>3. req[r].id \notin running
  BY <1>2 DEF IInv, RegisteredWhileItRuns, GoroutineSteps, RunSteps
<1>4. pc' = [pc EXCEPT ![req[r].id] = "load"] /\ ctx' = [ctx EXCEPT ![req[r].id] = "live"]
  BY <1>3 DEF Start
<1>5. \A m \in Ids : ~Heading(m)
  BY <1>1 DEF SerialInv, DeployKnows, At
<1>6. \A m \in Ids : Heading(m)' <=> m = req[r].id
  <2>1. pc'[req[r].id] = "load" /\ ctx'[req[r].id] = "live"
    BY <1>2, <1>4, <1>t
  <2>2. \A m \in Ids : m # req[r].id => pc'[m] = pc[m] /\ ctx'[m] = ctx[m]
    BY <1>2, <1>4, <1>t
  <2>3. QED BY <1>5, <2>1, <2>2 DEF Heading, Live, TowardsTheCluster
<1>7. ~HadItsTurn(req[r].id)
  BY <1>2 DEF HadItsTurn
<1>8. ASSUME NEW m \in Ids, HadItsTurn(m) PROVE m < req[r].id
  <2>1. status[m] # "none" /\ m # req[r].id
    BY <1>7, <1>8 DEF HadItsTurn, IInv, RunInv
  <2>2. m <= req[r].id
    BY <1>1, <2>1 DEF TurnInv, DeployIsNewest
  <2>3. m \in Nat /\ req[r].id \in Nat
    BY <1>2
  <2>4. QED BY <2>1, <2>2, <2>3
<1>9. ASSUME NEW m \in Ids, status[m] # "none" PROVE HadItsTurn(m)'
  <2>1. CASE HadItsTurn(m)
    BY <1>2, <1>4, <1>t, <2>1 DEF HadItsTurn
  <2>2. CASE ~HadItsTurn(m)
    <3>1. PICK q \in Requests : req[q].at \in Starting /\ req[q].id = m
      BY <1>9, <2>2 DEF TurnInv, OthersHadTheirTurn
    <3>2. q = r
      BY <1>1, <3>1 DEF OneDeployAtATime
    <3>3. QED BY <1>2, <1>4, <1>t, <3>1, <3>2 DEF HadItsTurn
  <2>3. QED BY <2>1, <2>2
<1> QED BY <1>1, <1>2, <1>4, <1>5, <1>6, <1>7, <1>8, <1>9

LEMMA StartKeepsTurns ==
    ASSUME IInv, SerialInv, TurnInv, OneDeployAtATime, NEW r \in Requests, Start(r),
           \A q \in Requests : req'[q].at = "sync" \/ req'[q].at = "syncapply" => "settings" \in Calls
    PROVE  TurnInv'
<1>1. /\ req[r].id \in Ids /\ pc' = [pc EXCEPT ![req[r].id] = "load"]
      /\ \A m \in Ids : Heading(m)' => m = req[r].id
      /\ \A m \in Ids : HadItsTurn(m) => m < req[r].id
      /\ \A m \in Ids : status[m] # "none" => HadItsTurn(m)'
      /\ req' = [req EXCEPT ![r] = IdleReq] /\ UNCHANGED <<status, applied, landed>>
      /\ req[r].at = "start"
  BY StartIsATurn
<1>t. /\ req \in [Requests -> RequestType] /\ landed \subseteq Ids
      /\ pc \in [Ids -> GoroutineSteps \cup PanickedSteps \cup {"off", "done"}]
  BY DEF IInv, TypeOK
<1>2. \A q \in Requests : req'[q].at \notin Starting
  BY <1>1, <1>t DEF OneDeployAtATime, Starting, IdleReq
<1>3. \A m \in Ids : HadItsTurn(m)' => HadItsTurn(m) \/ m = req[r].id
  BY <1>1, <1>t DEF HadItsTurn
<1>4. DeployIsNewest' /\ OthersHadTheirTurn'
  BY <1>1, <1>2 DEF DeployIsNewest, OthersHadTheirTurn
<1>5. NewestIsOnItsWay'
  BY <1>1, <1>3, MaxDeploymentsAssumption DEF NewestIsOnItsWay
<1>6. LandedHadTheirTurn'
  BY <1>1, <1>t DEF TurnInv, LandedHadTheirTurn, HadItsTurn
<1>7. BroughtIsThere'
  BY <1>1, <1>t DEF BroughtIsThere
<1> QED BY <1>4, <1>5, <1>6, <1>7 DEF TurnInv

LEMMA GoroutinesKeepTurns ==
    ASSUME IInv, SerialInv, TurnInv, NEW n \in Ids, RunStep(n) \/ Panic(n) \/ Expire(n)
    PROVE  TurnInv'
<1>t. /\ pc \in [Ids -> GoroutineSteps \cup PanickedSteps \cup {"off", "done"}]
      /\ landed \subseteq Ids
  BY DEF IInv, TypeOK
<1>1. /\ req' = req /\ \A m \in Ids \ {n} : UNCHANGED <<pc[m], ctx[m], status[m]>>
      /\ pc[n] # "off" /\ pc'[n] # "off" /\ (status'[n] = "none" <=> status[n] = "none")
      /\ Heading(n)' => Heading(n)
  BY GoroutinesAreCalm
<1>2. \A m \in Ids : /\ Heading(m)' => Heading(m)
                     /\ HadItsTurn(m)' <=> HadItsTurn(m)
                     /\ status'[m] = "none" <=> status[m] = "none"
  BY <1>1 DEF Heading, Live, HadItsTurn
<1>3. DeployIsNewest' /\ NewestIsOnItsWay' /\ OthersHadTheirTurn'
  <2>1. \A q \in Requests : req'[q].at \in Starting \/ req[q].at \in Starting
            => req'[q].id = req[q].id /\ req'[q].at \in Starting /\ req[q].at \in Starting
    BY <1>1
  <2>2. DeployIsNewest /\ NewestIsOnItsWay /\ OthersHadTheirTurn
    BY DEF TurnInv
  <2>3. QED BY <1>2, <2>1, <2>2, CalmStepKeepsTurns
<1>4. \/ UNCHANGED cluster /\ (pc'[n] = "rollout" => pc[n] = "rollout") /\ (pc'[n] = "succeed" => pc[n] = "rollout" \/ pc[n] = "succeed")
      \/ /\ pc[n] = "apply" /\ Heading(n) /\ applied'.id = n /\ landed' = landed \cup {n}
      \/ UNCHANGED cluster /\ pc'[n] \notin {"rollout", "succeed"}
  <2> USE DEF Move, cluster
  <2>1. CASE Apply(n)
    <3>1. CASE Live(n) /\ applied' = [id |-> n, config |-> loaded[n]] /\ landed' = landed \cup {n}
      BY <2>1, <3>1 DEF Apply, Heading, TowardsTheCluster
    <3>2. CASE Move(n, "fail") /\ UNCHANGED cluster
      BY <1>t, <3>2
    <3>3. QED BY <2>1, <3>1, <3>2 DEF Apply
  <2>2. CASE RunLoad(n) \/ RunBuilding(n) \/ Build(n) \/ SetDeploymentImage(n) \/ RunDeploying(n) \/ AskPlugins(n)
    BY <1>t, <2>2 DEF RunLoad, RunBuilding, Build, SetDeploymentImage, RunDeploying, AskPlugins
  <2>3. CASE RunRelease(n) \/ WaitForRollout(n) \/ RunSucceeded(n) \/ RunLive(n) \/ FailRow(n) \/ FailApp(n) \/ Finish(n)
    BY <1>t, <2>3 DEF RunRelease, WaitForRollout, RunSucceeded, RunLive, FailRow, FailApp, Finish
  <2>4. CASE Panic(n) \/ Expire(n)
    BY <1>t, <2>4 DEF Panic, Expire
  <2>5. QED BY <2>1, <2>2, <2>3, <2>4 DEF RunStep
<1>5. LandedHadTheirTurn'
  <2>1. CASE UNCHANGED cluster
    BY <1>2, <1>t, <2>1 DEF TurnInv, LandedHadTheirTurn, cluster
  <2>2. CASE applied'.id = n /\ landed' = landed \cup {n}
    BY <1>1, <1>2, <1>t, <2>2 DEF TurnInv, LandedHadTheirTurn, HadItsTurn
  <2>3. QED BY <1>4, <2>1, <2>2
<1>6. BroughtIsThere'
  <2> SUFFICES ASSUME "settings" \notin Calls, NEW m \in Ids, Heading(m)', pc'[m] \in {"rollout", "succeed"}
               PROVE  applied'.id = m
    BY <1>1 DEF TurnInv, BroughtIsThere
  <2>1. Heading(m)
    BY <1>2
  <2>2. CASE UNCHANGED cluster /\ pc[m] \in {"rollout", "succeed"}
    BY <2>1, <2>2 DEF TurnInv, BroughtIsThere, cluster
  <2>3. CASE Heading(n) /\ applied'.id = n
    BY <2>1, <2>3 DEF SerialInv, OneHeading
  <2>4. CASE UNCHANGED cluster /\ pc'[n] \notin {"rollout", "succeed"}
    BY <1>1, <2>1, <2>4 DEF TurnInv, BroughtIsThere, cluster
  <2>5. CASE m # n
    BY <1>1, <1>4, <2>2, <2>3, <2>5
  <2>6. CASE m = n
    BY <1>4, <2>2, <2>3, <2>4, <2>6
  <2>7. QED BY <2>5, <2>6
<1> QED BY <1>3, <1>5, <1>6 DEF TurnInv

\* Every other request, between deploys or in the middle of one.
LEMMA QuietRequest ==
    ASSUME IInv, SerialInv, PlainDeploys, OneDeployAtATime, NEW r \in Requests,
           NewRequest(r) \/ RequestStep(r), ~CreateDeployment(r), ~Start(r)
    PROVE  /\ pc' = pc
           /\ \A q \in Requests : req'[q].at \in Starting \/ req[q].at \in Starting
                => req'[q].id = req[q].id /\ req'[q].at \in Starting /\ req[q].at \in Starting
           /\ \A n \in Ids : /\ Heading(n)' => Heading(n)
                             /\ status'[n] = "none" <=> status[n] = "none"
                             /\ status'[n] = "succeeded" <=> status[n] = "succeeded"
           /\ "settings" \notin Calls /\ (\A q \in Requests : req[q].at \notin {"sync", "syncapply"})
                => \A q \in Requests : req'[q].at \notin {"sync", "syncapply"}
           /\ \/ UNCHANGED cluster
              \/ /\ req[r].at = "syncapply" /\ req[r].id \in Ids /\ status[req[r].id] = "succeeded"
                 /\ applied'.id = req[r].id /\ landed' = landed
<1>1. ~SupersedeFails(r) /\ ~RestoreRuntimeSpec(r)
  BY DEF SupersedeFails, PlainDeploys, RestoreRuntimeSpec, SerialInv, DeployKnows
<1>2. CASE SupersedeSelect(r) \/ SupersedeMark(r) \/ StopSuperseded(r)
  <2>1. UNCHANGED cluster
    BY <1>2 DEF SupersedeSelect, SupersedeMark, StopSuperseded
  <2>2. QED BY <1>2, <2>1, SupersedeIsCalm
<1>3. CASE NewRequest(r) \/ CreateFails(r) \/ CancelStop(r) \/ CancelMark(r) \/ SyncRead(r) \/ SyncApply(r)
  <2>1. \/ UNCHANGED cluster
        \/ /\ req[r].at = "syncapply" /\ req[r].id \in Ids /\ status[req[r].id] = "succeeded"
           /\ applied'.id = req[r].id /\ landed' = landed
    <3>1. CASE SyncApply(r)
      <4>1. req[r].at = "syncapply" /\ req[r].id \in Ids /\ status[req[r].id] = "succeeded" /\ req[r].id \in landed
        BY <3>1 DEF SyncApply, At, IInv, RequestInv, HoldsARow, SucceededReachedTheCluster, Succeeded
      <4>2. QED BY <3>1, <4>1 DEF SyncApply
    <3>2. CASE ~SyncApply(r)
      BY <1>3, <3>2 DEF NewRequest, DeployRead, RollbackRead, CancelRead, UpdateSettings, CreateFails, CancelStop,
                        CancelMark, SyncRead
    <3>3. QED BY <3>1, <3>2
  <2>2. "settings" \notin Calls /\ (\A q \in Requests : req[q].at \notin {"sync", "syncapply"})
            => \A q \in Requests : req'[q].at \notin {"sync", "syncapply"}
    BY <1>3, NobodySyncs
  <2>3. /\ pc' = pc
        /\ \A q \in Requests : req'[q].at \in Starting \/ req[q].at \in Starting => req'[q] = req[q]
        /\ \A n \in Ids : Heading(n)' => Heading(n)
        /\ \A n \in Ids : /\ status'[n] = "none" <=> status[n] = "none"
                          /\ status'[n] = "succeeded" <=> status[n] = "succeeded"
    BY <1>3, OtherRequestsAreCalm
  <2>4. QED BY <2>1, <2>2, <2>3
<1> QED BY <1>1, <1>2, <1>3 DEF RequestStep

LEMMA RequestsKeepTurns ==
    ASSUME IInv, SerialInv, TurnInv, PlainDeploys, OneDeployAtATime, OneDeployAtATime', NEW r \in Requests,
           NewRequest(r) \/ RequestStep(r)
    PROVE  TurnInv'
<1>t. req \in [Requests -> RequestType] /\ landed \subseteq Ids
  BY DEF IInv, TypeOK
<1>1. CASE CreateDeployment(r) \/ Start(r)
  <2>1. \A q \in Requests : req'[q].at = "sync" \/ req'[q].at = "syncapply" => "settings" \in Calls
    BY <1>1, NobodySyncs DEF TurnInv, BroughtIsThere
  <2>2. QED BY <1>1, <2>1, CreateKeepsTurns, StartKeepsTurns
<1>2. CASE ~CreateDeployment(r) /\ ~Start(r)
  <2>1. /\ pc' = pc
        /\ \A q \in Requests : req'[q].at \in Starting \/ req[q].at \in Starting
             => req'[q].id = req[q].id /\ req'[q].at \in Starting /\ req[q].at \in Starting
        /\ \A n \in Ids : Heading(n)' => Heading(n)
        /\ \A n \in Ids : status'[n] = "none" <=> status[n] = "none"
        /\ "settings" \notin Calls /\ (\A q \in Requests : req[q].at \notin {"sync", "syncapply"})
             => \A q \in Requests : req'[q].at \notin {"sync", "syncapply"}
        /\ \/ UNCHANGED cluster
           \/ /\ req[r].at = "syncapply" /\ req[r].id \in Ids /\ status[req[r].id] = "succeeded"
              /\ applied'.id = req[r].id /\ landed' = landed
    BY <1>2, QuietRequest
  <2>2. DeployIsNewest /\ NewestIsOnItsWay /\ OthersHadTheirTurn /\ LandedHadTheirTurn /\ BroughtIsThere
    BY DEF TurnInv
  <2>3. \A n \in Ids : HadItsTurn(n)' <=> HadItsTurn(n)
    BY <2>1 DEF HadItsTurn
  <2>4. DeployIsNewest' /\ NewestIsOnItsWay' /\ OthersHadTheirTurn'
    BY <2>1, <2>2, <2>3, CalmStepKeepsTurns
  <2>5. applied'.id \in landed \cup {0} /\ landed' = landed
    BY <2>1, <2>2 DEF cluster, LandedHadTheirTurn, IInv, SucceededReachedTheCluster, Succeeded
  <2>6. LandedHadTheirTurn'
    BY <1>t, <2>2, <2>3, <2>5 DEF LandedHadTheirTurn
  <2>7. BroughtIsThere'
    <3> SUFFICES ASSUME "settings" \notin Calls PROVE BroughtIsThere'
      BY DEF BroughtIsThere
    <3>1. \A q \in Requests : req[q].at \notin {"sync", "syncapply"} /\ req'[q].at \notin {"sync", "syncapply"}
      BY <2>1, <2>2 DEF BroughtIsThere
    <3>2. applied' = applied
      BY <2>1, <3>1 DEF cluster
    <3>3. QED BY <2>1, <2>2, <3>1, <3>2 DEF BroughtIsThere
  <2> QED BY <2>4, <2>6, <2>7 DEF TurnInv
<1> QED BY <1>1, <1>2

LEMMA NextKeepsTurns ==
    ASSUME PlainDeploys
    PROVE  IInv /\ SerialInv /\ TurnInv /\ OneDeployAtATime /\ OneDeployAtATime' /\ [Next]_vars => TurnInv'
<1> SUFFICES ASSUME IInv, SerialInv, TurnInv, OneDeployAtATime, OneDeployAtATime', [Next]_vars PROVE TurnInv'
  OBVIOUS
<1>1. CASE UNCHANGED vars
  BY <1>1 DEF TurnInv, DeployIsNewest, NewestIsOnItsWay, OthersHadTheirTurn, LandedHadTheirTurn, BroughtIsThere,
              HadItsTurn, Heading, Live, vars, rows, work, cluster
<1>2. CASE Restart
  BY <1>2, RestartKeepsTurns
<1>3. ASSUME NEW n \in Ids, RunStep(n) \/ Panic(n) \/ Expire(n) PROVE TurnInv'
  BY <1>3, GoroutinesKeepTurns
<1>4. ASSUME NEW r \in Requests, NewRequest(r) \/ RequestStep(r) PROVE TurnInv'
  BY <1>4, RequestsKeepTurns
<1>5. QED BY <1>1, <1>2, <1>3, <1>4 DEF Next

LEMMA TurnInvariant ==
    ASSUME PlainDeploys PROVE Spec /\ []OneDeployAtATime => [](IInv /\ SerialInv /\ TurnInv)
<1>1. Init => TurnInv
  BY TurnsStart
<1>2. QED BY <1>1, NextKeepsTurns, SerialInvariant, InductiveInvariant, PTL DEF Spec

\* What Rollouts sees of a state.
TurnsHad == {n \in Ids : pc[n] # "off"}
Successes == {n \in Ids : Succeeded(n)}

LEMMA WhoIsOnItsWay == OnItsWay = {n \in Ids : Heading(n)}
BY DEF OnItsWay, Heading

\* A step that neither starts, brings nor finishes anything stops at most the
\* one that is on its way.
LEMMA OnlyGivesUp ==
    ASSUME OneHeading, applied' = applied, landed' = landed,
           \A n \in Ids : /\ HadItsTurn(n)' <=> HadItsTurn(n)
                          /\ Heading(n)' => Heading(n)
                          /\ Succeeded(n)' <=> Succeeded(n)
    PROVE  [Turns!RolloutsNext]_(Turns!rolloutVars)
<1>1. TurnsHad' = TurnsHad /\ Successes' = Successes
  BY DEF TurnsHad, Successes, HadItsTurn
<1>2. OnItsWay' = OnItsWay \/ OnItsWay' = {}
  BY WhoIsOnItsWay DEF OneHeading, OnItsWay, Heading
<1> QED BY <1>1, <1>2 DEF Turns!RolloutsNext, Turns!GiveUp, Turns!rolloutVars, TurnsHad, Successes

\* Sync puts a success back.
LEMMA SyncPutsBack ==
    ASSUME IInv', OneHeading, TurnInv, NEW m \in Ids, Succeeded(m), applied'.id = m, landed' = landed,
           NEW r \in Requests, req[r].at = "syncapply",
           pc' = pc, \A n \in Ids : Succeeded(n)' <=> Succeeded(n), ctx' = ctx
    PROVE  [Turns!RolloutsNext]_(Turns!rolloutVars)
<1>1. TurnsHad' = TurnsHad /\ Successes' = Successes /\ OnItsWay' = OnItsWay
  BY DEF TurnsHad, Successes, OnItsWay, Live
<1>2. "settings" \in Calls /\ m \in Successes /\ applied'.config \in Configs
  BY DEF TurnInv, BroughtIsThere, Successes, IInv, TypeOK
<1> QED BY <1>1, <1>2 DEF Turns!RolloutsNext, Turns!PutBack, TurnsHad, Successes

LEMMA StartTakesTheTurn ==
    ASSUME IInv, SerialInv, TurnInv, OneDeployAtATime, NEW r \in Requests, Start(r)
    PROVE  Turns!RolloutsNext
<1>1. PICK n \in Ids : /\ n = req[r].id /\ pc' = [pc EXCEPT ![n] = "load"] /\ ~HadItsTurn(n)
                       /\ \A m \in Ids : ~Heading(m) /\ (Heading(m)' <=> m = n)
                       /\ \A m \in Ids : HadItsTurn(m) => m < n
                       /\ UNCHANGED <<status, applied, landed>>
  BY StartIsATurn
<1>t. pc \in [Ids -> GoroutineSteps \cup PanickedSteps \cup {"off", "done"}]
  BY DEF IInv, TypeOK
<1>2. TurnsHad' = TurnsHad \cup {n} /\ \A m \in TurnsHad : m < n
  BY <1>1, <1>t DEF TurnsHad, HadItsTurn
<1>3. OnItsWay = {}
  BY <1>1, WhoIsOnItsWay
<1>4. OnItsWay' = {n}
  <2>1. OnItsWay' = {m \in Ids : Heading(m)'}
    BY DEF OnItsWay, Heading
  <2>2. QED BY <1>1, <2>1
<1>5. Successes' = Successes
  BY <1>1 DEF Successes, Succeeded
<1>6. Turns!TakeTurn(n)
  BY <1>1, <1>2, <1>3, <1>4, <1>5 DEF Turns!TakeTurn, Turns!IsNext, TurnsHad, Successes
<1> QED BY <1>6 DEF Turns!RolloutsNext

\* A restart takes the turn of a deploy that had its row and no goroutine yet.
LEMMA RestartMissesATurn ==
    ASSUME IInv, TurnInv, OneDeployAtATime, Restart
    PROVE  [Turns!RolloutsNext]_(Turns!rolloutVars)
<1>1. OnItsWay' = {} /\ applied' = applied /\ landed' = landed
  BY DEF OnItsWay, Live, Restart, cluster
<1>2. Successes' = Successes
  BY DEF Successes, Succeeded, Restart, InFlight, InFlightStatus
<1>3. TurnsHad' = {n \in Ids : status[n] # "none"} /\ TurnsHad \subseteq TurnsHad'
  BY DEF TurnsHad, Restart, IInv, RunInv
<1>4. CASE TurnsHad' = TurnsHad
  BY <1>1, <1>2, <1>4 DEF Turns!RolloutsNext, Turns!GiveUp, TurnsHad, Successes
<1>5. CASE TurnsHad' # TurnsHad
  <2>1. PICK n \in Ids : status[n] # "none" /\ ~HadItsTurn(n)
    BY <1>3, <1>5 DEF TurnsHad, HadItsTurn
  <2>2. PICK r \in Requests : req[r].at \in Starting /\ req[r].id = n
    BY <2>1 DEF TurnInv, OthersHadTheirTurn
  <2>3. ASSUME NEW m \in Ids, status[m] # "none", ~HadItsTurn(m) PROVE m = n
    <3>1. PICK q \in Requests : req[q].at \in Starting /\ req[q].id = m
      BY <2>3 DEF TurnInv, OthersHadTheirTurn
    <3>2. QED BY <2>2, <3>1 DEF OneDeployAtATime
  <2>4. TurnsHad' = TurnsHad \cup {n}
    BY <1>3, <2>1, <2>3 DEF TurnsHad, HadItsTurn
  <2>5. ASSUME NEW m \in TurnsHad PROVE m < n
    <3>1. m \in Ids /\ m # n /\ status[m] # "none"
      BY <2>1, <2>5 DEF TurnsHad, HadItsTurn, IInv, RunInv
    <3>2. m <= n
      BY <2>2, <3>1 DEF TurnInv, DeployIsNewest
    <3>3. m \in Nat /\ n \in Nat
      BY <3>1
    <3>4. QED BY <3>1, <3>2, <3>3
  <2>6. Turns!MissTurn(n)
    BY <1>1, <1>2, <2>4, <2>5 DEF Turns!MissTurn, Turns!IsNext, TurnsHad, Successes
  <2>7. QED BY <2>6 DEF Turns!RolloutsNext
<1> QED BY <1>4, <1>5

\* Apply brings the one that is on its way.
LEMMA ApplyLands ==
    ASSUME IInv, IInv', SerialInv, NEW n \in Ids, Apply(n), pc[n] = "apply", Live(n), applied'.id = n, landed' = landed \cup {n}
    PROVE  Turns!RolloutsNext
<1>t. pc \in [Ids -> GoroutineSteps \cup PanickedSteps \cup {"off", "done"}]
  BY DEF IInv, TypeOK
<1>1. n \in OnItsWay
  BY DEF OnItsWay, TowardsTheCluster
<1>2. OnItsWay = {n}
  BY <1>1, WhoIsOnItsWay DEF SerialInv, OneHeading
<1>3. /\ \A m \in Ids : m # n => pc'[m] = pc[m]
      /\ pc'[n] # "off" /\ ctx' = ctx /\ status' = status
  BY <1>t DEF Apply, Move, rows
<1>4. TurnsHad' = TurnsHad
  BY <1>3 DEF TurnsHad
<1>5. OnItsWay' \in {OnItsWay, {}}
  BY <1>2, <1>3 DEF OnItsWay, Live
<1>6. Successes' = Successes
  BY <1>3 DEF Successes, Succeeded
<1>7. applied'.config \in Configs
  BY DEF IInv, TypeOK
<1>8. Turns!Land(n)
  BY <1>1, <1>4, <1>5, <1>6, <1>7 DEF Turns!Land, TurnsHad, Successes
<1> QED BY <1>8 DEF Turns!RolloutsNext

\* RunSucceeded records what is on the cluster.
LEMMA SuccessIsOfTheTurn ==
    ASSUME IInv, SerialInv, TurnInv, NEW n \in Ids, RunSucceeded(n), Succeeded(n)', ~Succeeded(n)
    PROVE  Turns!RolloutsNext
<1>t. /\ pc \in [Ids -> GoroutineSteps \cup PanickedSteps \cup {"off", "done"}]
      /\ status \in [Ids -> InFlightStatus \cup TerminalStatus \cup {"none"}]
  BY DEF IInv, TypeOK
<1>1. pc[n] = "succeed" /\ Live(n) /\ pc' = [pc EXCEPT ![n] = "live"] /\ UNCHANGED <<ctx, applied, landed>>
  BY DEF RunSucceeded, UpdateOwnStatus, Succeeded, Live, Move, cluster
<1>2. n \in OnItsWay /\ Heading(n)
  BY <1>1 DEF OnItsWay, Heading
<1>3. OnItsWay = {n}
  BY <1>2, WhoIsOnItsWay DEF SerialInv, OneHeading
<1>4. OnItsWay' = {}
  BY <1>1, <1>3, <1>t DEF OnItsWay, Live, TowardsTheCluster
<1>5. TurnsHad' = TurnsHad
  BY <1>1, <1>t DEF TurnsHad
<1>6. Successes' = Successes \cup {n}
  BY <1>1, <1>t DEF Successes, Succeeded, RunSucceeded, UpdateOwnStatus, UpdateDeploymentStatus, InFlightStatus
<1>7. n \in landed
  BY <1>1 DEF IInv, RunInv
<1>8. "settings" \in Calls \/ applied.id = n
  BY <1>1, <1>2 DEF TurnInv, BroughtIsThere
<1>9. Turns!Succeed(n)
  BY <1>1, <1>2, <1>4, <1>5, <1>6, <1>7, <1>8 DEF Turns!Succeed, TurnsHad, Successes
<1> QED BY <1>9 DEF Turns!RolloutsNext

LEMMA StepsAreRolloutSteps ==
    ASSUME PlainDeploys
    PROVE  IInv /\ IInv' /\ SerialInv /\ TurnInv /\ OneDeployAtATime /\ [Next]_vars
              => [Turns!RolloutsNext]_(Turns!rolloutVars)
<1> SUFFICES ASSUME IInv, IInv', SerialInv, TurnInv, OneDeployAtATime, [Next]_vars
             PROVE  [Turns!RolloutsNext]_(Turns!rolloutVars)
  OBVIOUS
<1>0. OneHeading
  BY DEF SerialInv
<1>t. status \in [Ids -> InFlightStatus \cup TerminalStatus \cup {"none"}]
  BY DEF IInv, TypeOK
<1>1. CASE UNCHANGED vars
  <2>1. /\ UNCHANGED <<applied, landed>>
        /\ \A n \in Ids : (HadItsTurn(n)' <=> HadItsTurn(n)) /\ (Heading(n)' => Heading(n)) /\ (Succeeded(n)' <=> Succeeded(n))
    BY <1>1 DEF HadItsTurn, Heading, Live, Succeeded, vars, rows, work, cluster
  <2>2. QED BY <1>0, <1>t, <2>1, OnlyGivesUp
<1>2. CASE Restart
  BY <1>2, RestartMissesATurn
<1>3. ASSUME NEW n \in Ids, RunStep(n) \/ Panic(n) \/ Expire(n) PROVE [Turns!RolloutsNext]_(Turns!rolloutVars)
  <2>1. /\ \A m \in Ids \ {n} : UNCHANGED <<pc[m], ctx[m], status[m]>>
        /\ pc[n] # "off" /\ pc'[n] # "off" /\ (Heading(n)' => Heading(n))
    BY <1>3, GoroutinesAreCalm
  <2>2. \A m \in Ids : (HadItsTurn(m)' <=> HadItsTurn(m)) /\ (Heading(m)' => Heading(m))
    BY <2>1 DEF HadItsTurn, Heading, Live
  <2>3. CASE Apply(n) /\ ~UNCHANGED cluster
    BY <2>3, ApplyLands DEF Apply
  <2>4. CASE RunSucceeded(n) /\ Succeeded(n)' /\ ~Succeeded(n)
    BY <2>4, SuccessIsOfTheTurn
  <2>5. CASE ~(Apply(n) /\ ~UNCHANGED cluster) /\ ~(RunSucceeded(n) /\ Succeeded(n)' /\ ~Succeeded(n))
    <3>1. UNCHANGED cluster
      BY <1>3, <2>5 DEF RunStep, RunLoad, RunBuilding, Build, SetDeploymentImage, RunDeploying, AskPlugins, RunRelease,
                        WaitForRollout, RunSucceeded, RunLive, FailRow, FailApp, Finish, Panic, Expire
    <3>2. Succeeded(n) => Succeeded(n)'
      <4>1. CASE RunBuilding(n) \/ RunDeploying(n) \/ RunSucceeded(n) \/ FailRow(n)
        BY <1>t, <4>1 DEF RunBuilding, RunDeploying, RunSucceeded, FailRow, UpdateOwnStatus, UpdateDeploymentStatus,
                          Succeeded, InFlightStatus
      <4>2. CASE status' = status
        BY <4>2 DEF Succeeded
      <4>3. QED BY <1>3, <4>1, <4>2 DEF RunStep, RunLoad, Build, SetDeploymentImage, AskPlugins, RunRelease, Apply,
                        WaitForRollout, RunLive, FailApp, Finish, Panic, Expire, rows
    <3>3. Succeeded(n)' => Succeeded(n)
      <4>1. CASE RunBuilding(n) \/ RunDeploying(n) \/ FailRow(n)
        BY <1>t, <4>1 DEF RunBuilding, RunDeploying, FailRow, UpdateOwnStatus, UpdateDeploymentStatus,
                          Succeeded, InFlightStatus
      <4>2. CASE status' = status
        BY <4>2 DEF Succeeded
      <4>3. QED BY <1>3, <2>5, <4>1, <4>2 DEF RunStep, RunLoad, Build, SetDeploymentImage, AskPlugins, RunRelease, Apply,
                        WaitForRollout, RunLive, FailApp, Finish, Panic, Expire, rows
    <3>4. \A m \in Ids : Succeeded(m)' <=> Succeeded(m)
      BY <2>1, <3>2, <3>3 DEF Succeeded
    <3>5. QED BY <1>0, <1>t, <2>2, <3>1, <3>4, OnlyGivesUp DEF cluster
  <2>6. QED BY <2>3, <2>4, <2>5
<1>4. ASSUME NEW r \in Requests, NewRequest(r) \/ RequestStep(r) PROVE [Turns!RolloutsNext]_(Turns!rolloutVars)
  <2>1. CASE Start(r)
    BY <2>1, StartTakesTheTurn
  <2>2. CASE CreateDeployment(r)
    <3>0. PICK n \in Ids : IsNextNumber(n) /\ status' = [status EXCEPT ![n] = "queued"]
      BY <2>2 DEF CreateDeployment
    <3>1. status[n] = "none"
      BY <3>0, MaxDeploymentsAssumption DEF IsNextNumber
    <3>2. UNCHANGED <<pc, ctx, applied, landed>>
      BY <2>2 DEF CreateDeployment, work, cluster
    <3>3. \A m \in Ids : (HadItsTurn(m)' <=> HadItsTurn(m)) /\ (Heading(m)' => Heading(m)) /\ (Succeeded(m)' <=> Succeeded(m))
      BY <1>t, <3>0, <3>1, <3>2 DEF HadItsTurn, Heading, Live, Succeeded
    <3>4. QED BY <1>0, <1>t, <3>2, <3>3, OnlyGivesUp
  <2>3. CASE ~Start(r) /\ ~CreateDeployment(r)
    <3>1. /\ pc' = pc
          /\ \A n \in Ids : Heading(n)' => Heading(n)
          /\ \A n \in Ids : status'[n] = "succeeded" <=> status[n] = "succeeded"
          /\ \/ UNCHANGED cluster
             \/ /\ req[r].at = "syncapply" /\ req[r].id \in Ids /\ status[req[r].id] = "succeeded"
                /\ applied'.id = req[r].id /\ landed' = landed
      BY <1>4, <2>3, QuietRequest
    <3>2. \A m \in Ids : (HadItsTurn(m)' <=> HadItsTurn(m)) /\ (Succeeded(m)' <=> Succeeded(m))
      BY <3>1 DEF HadItsTurn, Succeeded
    <3>3. CASE UNCHANGED cluster
      BY <1>0, <1>t, <3>1, <3>2, <3>3, OnlyGivesUp DEF cluster
    <3>4. CASE ~UNCHANGED cluster
      <4>1. PICK m \in Ids : m = req[r].id /\ Succeeded(m) /\ applied'.id = m /\ landed' = landed
        BY <3>1, <3>4 DEF Succeeded
      <4>2. ctx' = ctx
        BY <1>4, <2>3, <3>1, <3>4 DEF NewRequest, RequestStep, DeployRead, RollbackRead, CancelRead, UpdateSettings,
             CreateFails, SupersedeSelect, SupersedeMark, SupersedeFails, StopSuperseded, RestoreRuntimeSpec,
             CancelStop, CancelMark, SyncRead, SyncApply, work
      <4>3. QED BY <1>0, <3>1, <3>2, <3>4, <4>1, <4>2, SyncPutsBack
    <3>5. QED BY <3>3, <3>4
  <2>4. QED BY <2>1, <2>2, <2>3
<1>5. QED BY <1>1, <1>2, <1>3, <1>4 DEF Next

LEMMA RolloutsStart == Init => Turns!RolloutsInit
BY NoConfigType DEF Init, Turns!RolloutsInit, OnItsWay, Live, Succeeded, Nothing

\* Deploy, run and Sync: while deploys do not overlap, the deployer implements
\* Rollouts: versions have their turn in order, the one on its way is the only
\* one that reaches the cluster, a success is recorded while the cluster
\* carries it, and nothing but a success is put back.
THEOREM VersionsLandInOrder == ASSUME PlainDeploys PROVE Spec /\ []OneDeployAtATime => RolloutsInOrder
<1>1. Spec /\ []OneDeployAtATime => [](IInv /\ SerialInv /\ TurnInv)
  BY TurnInvariant
<1>2. QED
  BY <1>1, RolloutsStart, StepsAreRolloutSteps, PTL DEF Spec, RolloutsInOrder, Turns!RolloutsSpec

\* The same of a panel with one caller.
THEOREM OneCallersVersionsLandInOrder ==
    ASSUME PlainDeploys, \A q, r \in Requests : q = r PROVE Spec => RolloutsInOrder
<1>1. OneDeployAtATime
  BY DEF OneDeployAtATime
<1>2. QED BY <1>1, VersionsLandInOrder, PTL

\* The reason Deploy supersedes at all: where no settings are synced meanwhile,
\* an older version is never rolled out over a newer one.
THEOREM NewerStays ==
    ASSUME PlainDeploys, "settings" \notin Calls
    PROVE  Spec /\ []OneDeployAtATime => NewerNeverReplacedByOlder
<1>1. IInv /\ TurnInv /\ [Next]_vars => applied'.id >= applied.id
  <2> SUFFICES ASSUME IInv, TurnInv, [Next]_vars PROVE applied'.id >= applied.id
    OBVIOUS
  <2>1. applied.id \in Ids \cup {0} /\ landed \subseteq Ids
    BY DEF IInv, TypeOK
  <2>2. CASE UNCHANGED cluster
    BY <2>1, <2>2 DEF cluster
  <2>3. ASSUME NEW n \in Ids, pc[n] = "apply", Live(n), applied'.id = n PROVE applied'.id >= applied.id
    <3>1. Heading(n)
      BY <2>3 DEF Heading, TowardsTheCluster
    <3>2. applied.id # 0 => HadItsTurn(applied.id)
      BY DEF TurnInv, LandedHadTheirTurn
    <3>3. applied.id # 0 => applied.id <= n
      BY <2>1, <3>1, <3>2 DEF TurnInv, NewestIsOnItsWay
    <3>4. QED BY <2>1, <2>3, <3>3
  <2>4. CASE ~UNCHANGED cluster /\ ~\E n \in Ids : pc[n] = "apply" /\ Live(n) /\ applied'.id = n
    <3>1. PICK r \in Requests : SyncApply(r)
      BY <2>4, OnlyTheseWrite
    <3>2. QED BY <3>1 DEF SyncApply, At, TurnInv, BroughtIsThere
  <2>5. QED BY <2>2, <2>3, <2>4
<1>2. QED
  BY <1>1, TurnInvariant, PTL DEF Spec, NewerNeverReplacedByOlder

=============================================================================
