----------------------------- MODULE EdgeProofs -----------------------------
(***************************************************************************)
(* What is proved of the pod that builds, of the rotation of the master    *)
(* key, and of the add-ons and the rows behind them, for every set of      *)
(* builds, cells, apps and requests and every number of faults.            *)
(***************************************************************************)
EXTENDS BuildPod, Secrets, Edge, FiniteSetTheorems, WellFoundedInduction, TLAPS

(***************************************************************************)
(* One build.                                                              *)
(***************************************************************************)
Containers == {"clone", "prepare", "build"}
PanelAts == {"clear", "apply", "source", "open", "stream", "delete", "pod", "job", "off"}

PanelType == [at : PanelAts, stage : Containers \cup {"", "gone"},
              says : {"", "error", "undelivered", "not started", "built", "failed", "restarted"}]
JobType == [at : Containers \cup {"old", "none", "pending", "done"}, failed : SUBSET (Containers \cup {"gone"})]

JobTypeOK == bjob \in JobType /\ \A s, t \in bjob.failed : s = t

\* Every variable of a build has the values the code can give it; a Job has failed in one way at most.
PodTypeOK ==
    /\ build \in Builds
    /\ panel \in PanelType
    /\ JobTypeOK
    /\ code \in {"none", "part", "whole"} /\ marks \subseteq {"ready", "failed"}
    /\ exec \in {"off", "open", "cut"} /\ pushed \in BOOLEAN /\ bfaults \in Nat

\* Before the panel has applied the Job nothing of this build has happened.
NothingYet ==
    /\ panel.at \in {"clear", "apply"} =>
          code = "none" /\ marks = {} /\ exec = "off" /\ ~pushed /\ bjob.at \in {"old", "none"}
    /\ panel.at = "apply" => bjob.at = "none"
    /\ bjob.failed # {} => panel.at \notin {"clear", "apply"}
\* A mark is left by the command on the stream only, and "ready" says that all of it came.
ReadyMeansWhole ==
    /\ exec = "off" => marks = {}
    /\ "ready" \in marks \/ bjob.at \in {"prepare", "build"} \/ pushed => code = "whole"
\* The push is the end of a Job in which nothing failed.
PushedAtTheEnd ==
    /\ pushed => bjob.at \in {"done", "none"} /\ bjob.failed = {}
    /\ bjob.at = "done" /\ bjob.failed = {} => pushed
    /\ bjob.at \notin {"done", "none"} => bjob.failed = {}
\* What the panel concluded is final.
Concluded ==
    /\ panel.says # "" => panel.at = "off"
    /\ panel.says = "built" => pushed
    /\ panel.says = "failed" =>
          /\ bjob.at = "done" /\ bjob.failed # {}
          /\ panel.stage = "build" \/ bjob.failed = {panel.stage}

PodInv == PodTypeOK /\ NothingYet /\ ReadyMeansWhole /\ PushedAtTheEnd /\ Concluded

\* Both builders have a container after the first, and it is not the end of the Job.
LEMMA AfterTheClone == NextStage("clone") \in {"prepare", "build"}
<1>1. Stages(build) = <<"clone", "prepare", "build">> \/ Stages(build) = <<"clone", "build">>
  BY DEF Stages
<1>2. ASSUME NEW s, s = <<"clone", "prepare", "build">> \/ s = <<"clone", "build">>
      PROVE  s[CHOOSE i \in DOMAIN s : i > 1 /\ s[i - 1] = "clone"] \in {"prepare", "build"}
  <2>1. 2 \in DOMAIN s /\ 2 > 1 /\ s[2 - 1] = "clone"
    BY <1>2
  <2>2. PICK j : j = CHOOSE i \in DOMAIN s : i > 1 /\ s[i - 1] = "clone"
    OBVIOUS
  <2>3. j \in DOMAIN s /\ j > 1 /\ s[j - 1] = "clone"
    BY <2>1, <2>2
  <2>4. j = 2
    BY <1>2, <2>3
  <2>5. QED BY <1>2, <2>2, <2>4
<1>3. NextStage("clone") = Stages(build)[CHOOSE i \in DOMAIN Stages(build) : i > 1 /\ Stages(build)[i - 1] = "clone"]
  BY Zenon DEF NextStage
<1>4. QED BY <1>1, <1>2, <1>3

\* The stage the panel names is "build" or the one that failed.
StageIsSo(stage) == stage \in Containers /\ (stage = "build" \/ bjob.failed = {stage})
LEMMA TheFailedStage ==
    ASSUME PodTypeOK, bjob.failed # {}
    PROVE  StageIsSo(FailedStage(TRUE)) /\ StageIsSo(FailedStage(FALSE))
<1>1. bjob.failed \subseteq Containers \cup {"gone"} /\ \A s, t \in bjob.failed : s = t
  BY DEF PodTypeOK, JobTypeOK, JobType
<1>2. FailedStage(FALSE) = "build" /\ (bjob.failed = {"gone"} => FailedStage(TRUE) = "build")
  BY DEF FailedStage
<1>3. CASE bjob.failed # {"gone"}
  <2>1. FailedStage(TRUE) = CHOOSE s \in bjob.failed : TRUE
    BY <1>3 DEF FailedStage
  <2>2. FailedStage(TRUE) \in bjob.failed
    BY <2>1
  <2>3. "gone" \notin bjob.failed
    BY <1>1, <1>3
  <2>4. QED BY <1>1, <1>2, <2>2, <2>3 DEF StageIsSo, Containers
<1>4. QED BY <1>2, <1>3 DEF StageIsSo, Containers

LEMMA PodInitInv == PodInit => PodInv
<1> SUFFICES ASSUME PodInit PROVE PodInv
  OBVIOUS
<1>1. PodTypeOK
  BY PodAssumption DEF PodInit, PodTypeOK, JobTypeOK, PanelType, JobType, Containers, PanelAts
<1>2. QED
  BY <1>1 DEF PodInit, PodInv, NothingYet, ReadyMeansWhole, PushedAtTheEnd, Concluded

\* What each way of changing the Job and the panel do to them.
LEMMA JobMoves ==
    ASSUME PodTypeOK, NEW x \in Containers \cup {"old", "none", "pending", "done"}, bjob' = [bjob EXCEPT !.at = x]
    PROVE  JobTypeOK' /\ bjob'.at = x /\ bjob'.failed = bjob.failed
BY DEF PodTypeOK, JobTypeOK, JobType
LEMMA JobFails ==
    ASSUME NEW x \in Containers \cup {"gone"}, Fails(x)
    PROVE  JobTypeOK' /\ bjob'.at = "done" /\ bjob'.failed = {x}
BY DEF Fails, JobTypeOK, JobType
LEMMA FaultsLeft == PodTypeOK /\ PodFails => bfaults' \in Nat
BY DEF PodTypeOK, PodFails
LEMMA JobApplied ==
    ASSUME bjob' = [at |-> "pending", failed |-> {}]
    PROVE  JobTypeOK' /\ bjob'.at = "pending" /\ bjob'.failed = {}
BY DEF JobTypeOK, JobType
LEMMA PanelGone ==
    ASSUME panel' = [at |-> "off", says |-> "restarted", stage |-> ""]
    PROVE  panel' \in PanelType /\ panel'.at = "off" /\ panel'.says = "restarted" /\ panel'.stage = ""
BY DEF PanelType, PanelAts
LEMMA PanelMoves ==
    ASSUME PodTypeOK, NEW x \in PanelAts, PanelGoes(x)
    PROVE  panel' \in PanelType /\ panel'.at = x /\ panel'.says = panel.says /\ panel'.stage = panel.stage
BY DEF PodTypeOK, PanelType, PanelGoes
LEMMA PanelConcludes ==
    ASSUME NEW x \in {"error", "undelivered", "not started", "built", "failed"}, NEW y \in Containers \cup {""}, Concludes(x, y)
    PROVE  panel' \in PanelType /\ panel'.at = "off" /\ panel'.says = x /\ panel'.stage = y
BY DEF PanelType, PanelAts, Concludes

LEMMA PodNextInv == PodInv /\ [PodNext]_podVars => PodInv'
<1> SUFFICES ASSUME PodInv, [PodNext]_podVars PROVE PodInv'
  OBVIOUS
<1>0. /\ panel.at \in PanelAts
      /\ bjob.at \in Containers \cup {"old", "none", "pending", "done"} /\ bjob.failed \subseteq Containers \cup {"gone"}
  BY DEF PodInv, PodTypeOK, JobTypeOK, PanelType, JobType
<1> USE <1>0 DEF PodInv, PodTypeOK, Containers, PanelAts
<1>1. CASE PodStarts
  <2> USE <1>1, JobMoves DEF PodStarts, Running
  <2>1. panel' \in PanelType
    OBVIOUS
  <2>2. JobTypeOK'
    BY DEF JobTypeOK
  <2>3. PodTypeOK'
    BY <2>1, <2>2
  <2>4. NothingYet'
    BY DEF NothingYet
  <2>5. ReadyMeansWhole'
    BY DEF NothingYet, ReadyMeansWhole, PushedAtTheEnd
  <2>6. PushedAtTheEnd'
    BY DEF NothingYet, PushedAtTheEnd
  <2>7. Concluded'
    BY DEF NothingYet, PushedAtTheEnd, Concluded
  <2>8. QED BY <2>3, <2>4, <2>5, <2>6, <2>7
<1>2. CASE CloneScript
  <2> USE <1>2, JobMoves, JobFails, AfterTheClone, FaultsLeft DEF CloneScript, Running
  <2>1. panel' \in PanelType
    OBVIOUS
  <2>2. JobTypeOK'
    BY DEF JobTypeOK
  <2>3. PodTypeOK'
    BY <2>1, <2>2
  <2>4. NothingYet'
    BY DEF NothingYet
  <2>5. ReadyMeansWhole'
    BY DEF NothingYet, ReadyMeansWhole, PushedAtTheEnd
  <2>6. PushedAtTheEnd'
    BY DEF NothingYet, PushedAtTheEnd
  <2>7. Concluded'
    BY DEF NothingYet, PushedAtTheEnd, Concluded
  <2>8. QED BY <2>3, <2>4, <2>5, <2>6, <2>7
<1>3. CASE ReceiveScript
  <2> USE <1>3, JobMoves, JobFails, AfterTheClone DEF ReceiveScript, Running
  <2>1. panel' \in PanelType
    OBVIOUS
  <2>2. JobTypeOK'
    BY DEF JobTypeOK
  <2>3. PodTypeOK'
    BY <2>1, <2>2
  <2>4. NothingYet'
    BY DEF NothingYet
  <2>5. ReadyMeansWhole'
    BY DEF NothingYet, ReadyMeansWhole, PushedAtTheEnd
  <2>6. PushedAtTheEnd'
    BY DEF NothingYet, PushedAtTheEnd
  <2>7. Concluded'
    BY DEF NothingYet, PushedAtTheEnd, Concluded
  <2>8. QED BY <2>3, <2>4, <2>5, <2>6, <2>7
<1>4. CASE ReceiveCommand
  <2> USE <1>4 DEF ReceiveCommand, Running
  <2>1. panel' \in PanelType
    OBVIOUS
  <2>2. JobTypeOK'
    BY DEF JobTypeOK
  <2>3. PodTypeOK'
    BY <2>1, <2>2
  <2>4. NothingYet'
    BY DEF NothingYet
  <2>5. ReadyMeansWhole'
    BY DEF NothingYet, ReadyMeansWhole, PushedAtTheEnd
  <2>6. PushedAtTheEnd'
    BY DEF NothingYet, PushedAtTheEnd
  <2>7. Concluded'
    BY DEF NothingYet, PushedAtTheEnd, Concluded
  <2>8. QED BY <2>3, <2>4, <2>5, <2>6, <2>7
<1>5. CASE PrepareContainer
  <2> USE <1>5, JobMoves, JobFails, FaultsLeft DEF PrepareContainer, Running
  <2>1. panel' \in PanelType
    OBVIOUS
  <2>2. JobTypeOK'
    BY DEF JobTypeOK
  <2>3. PodTypeOK'
    BY <2>1, <2>2
  <2>4. NothingYet'
    BY DEF NothingYet
  <2>5. ReadyMeansWhole'
    BY DEF NothingYet, ReadyMeansWhole, PushedAtTheEnd
  <2>6. PushedAtTheEnd'
    BY DEF NothingYet, PushedAtTheEnd
  <2>7. Concluded'
    BY DEF NothingYet, PushedAtTheEnd, Concluded
  <2>8. QED BY <2>3, <2>4, <2>5, <2>6, <2>7
<1>6. CASE BuildContainer
  <2> USE <1>6, JobMoves, JobFails, FaultsLeft DEF BuildContainer, Running
  <2>1. panel' \in PanelType
    OBVIOUS
  <2>2. JobTypeOK'
    BY DEF JobTypeOK
  <2>3. PodTypeOK'
    BY <2>1, <2>2
  <2>4. NothingYet'
    BY DEF NothingYet
  <2>5. ReadyMeansWhole'
    BY DEF NothingYet, ReadyMeansWhole, PushedAtTheEnd
  <2>6. PushedAtTheEnd'
    BY DEF NothingYet, PushedAtTheEnd
  <2>7. Concluded'
    BY DEF NothingYet, PushedAtTheEnd, Concluded
  <2>8. QED BY <2>3, <2>4, <2>5, <2>6, <2>7
<1>7. CASE DeleteAndWait
  <2> USE <1>7, JobMoves, PanelMoves, PanelConcludes, FaultsLeft DEF DeleteAndWait
  <2>1. panel' \in PanelType
    OBVIOUS
  <2>2. JobTypeOK'
    BY DEF JobTypeOK
  <2>3. PodTypeOK'
    BY <2>1, <2>2
  <2>4. NothingYet'
    BY DEF NothingYet
  <2>5. ReadyMeansWhole'
    BY DEF NothingYet, ReadyMeansWhole, PushedAtTheEnd
  <2>6. PushedAtTheEnd'
    BY DEF NothingYet, PushedAtTheEnd
  <2>7. Concluded'
    BY DEF NothingYet, PushedAtTheEnd, Concluded
  <2>8. QED BY <2>3, <2>4, <2>5, <2>6, <2>7
<1>8. CASE ApplyJob
  <2> USE <1>8, JobApplied, PanelMoves, PanelConcludes, FaultsLeft DEF ApplyJob
  <2>1. panel' \in PanelType
    OBVIOUS
  <2>2. JobTypeOK'
    BY DEF JobTypeOK
  <2>3. PodTypeOK'
    BY <2>1, <2>2
  <2>4. NothingYet'
    BY DEF NothingYet
  <2>5. ReadyMeansWhole'
    BY DEF NothingYet, ReadyMeansWhole, PushedAtTheEnd
  <2>6. PushedAtTheEnd'
    BY DEF NothingYet, PushedAtTheEnd
  <2>7. Concluded'
    BY DEF NothingYet, PushedAtTheEnd, Concluded
  <2>8. QED BY <2>3, <2>4, <2>5, <2>6, <2>7
<1>9. CASE WaitForSourceContainer
  <2> USE <1>9, PanelMoves DEF WaitForSourceContainer, Running
  <2>1. panel' \in PanelType
    OBVIOUS
  <2>2. JobTypeOK'
    BY DEF JobTypeOK
  <2>3. PodTypeOK'
    BY <2>1, <2>2
  <2>4. NothingYet'
    BY DEF NothingYet
  <2>5. ReadyMeansWhole'
    BY DEF NothingYet, ReadyMeansWhole, PushedAtTheEnd
  <2>6. PushedAtTheEnd'
    BY DEF NothingYet, PushedAtTheEnd
  <2>7. Concluded'
    BY DEF NothingYet, PushedAtTheEnd, Concluded
  <2>8. QED BY <2>3, <2>4, <2>5, <2>6, <2>7
<1>10. CASE DeliverUpload
  <2> USE <1>10, PanelMoves, FaultsLeft DEF DeliverUpload, Running
  <2>1. panel' \in PanelType
    OBVIOUS
  <2>2. JobTypeOK'
    BY DEF JobTypeOK
  <2>3. PodTypeOK'
    BY <2>1, <2>2
  <2>4. NothingYet'
    BY DEF NothingYet
  <2>5. ReadyMeansWhole'
    BY DEF NothingYet, ReadyMeansWhole, PushedAtTheEnd
  <2>6. PushedAtTheEnd'
    BY DEF NothingYet, PushedAtTheEnd
  <2>7. Concluded'
    BY DEF NothingYet, PushedAtTheEnd, Concluded
  <2>8. QED BY <2>3, <2>4, <2>5, <2>6, <2>7
<1>11. CASE ExecWithInput
  <2> USE <1>11, PanelMoves, FaultsLeft DEF ExecWithInput
  <2>1. panel' \in PanelType
    OBVIOUS
  <2>2. JobTypeOK'
    BY DEF JobTypeOK
  <2>3. PodTypeOK'
    BY <2>1, <2>2
  <2>4. NothingYet'
    BY DEF NothingYet
  <2>5. ReadyMeansWhole'
    BY DEF NothingYet, ReadyMeansWhole, PushedAtTheEnd
  <2>6. PushedAtTheEnd'
    BY DEF NothingYet, PushedAtTheEnd
  <2>7. Concluded'
    BY DEF NothingYet, PushedAtTheEnd, Concluded
  <2>8. QED BY <2>3, <2>4, <2>5, <2>6, <2>7
<1>12. CASE DeleteJob
  <2> USE <1>12, JobMoves, PanelConcludes, FaultsLeft DEF DeleteJob
  <2>1. panel' \in PanelType
    OBVIOUS
  <2>2. JobTypeOK'
    BY DEF JobTypeOK
  <2>3. PodTypeOK'
    BY <2>1, <2>2
  <2>4. NothingYet'
    BY DEF NothingYet
  <2>5. ReadyMeansWhole'
    BY DEF NothingYet, ReadyMeansWhole, PushedAtTheEnd
  <2>6. PushedAtTheEnd'
    BY DEF NothingYet, PushedAtTheEnd
  <2>7. Concluded'
    BY DEF NothingYet, PushedAtTheEnd, Concluded
  <2>8. QED BY <2>3, <2>4, <2>5, <2>6, <2>7
<1>13. CASE WaitForBuildPod
  <2> USE <1>13, PanelMoves, PanelConcludes DEF WaitForBuildPod, Started
  <2>1. panel' \in PanelType
    OBVIOUS
  <2>2. JobTypeOK'
    BY DEF JobTypeOK
  <2>3. PodTypeOK'
    BY <2>1, <2>2
  <2>4. NothingYet'
    BY DEF NothingYet
  <2>5. ReadyMeansWhole'
    BY DEF NothingYet, ReadyMeansWhole, PushedAtTheEnd
  <2>6. PushedAtTheEnd'
    BY DEF NothingYet, PushedAtTheEnd
  <2>7. Concluded'
    BY DEF NothingYet, PushedAtTheEnd, Concluded
  <2>8. QED BY <2>3, <2>4, <2>5, <2>6, <2>7
<1>14. CASE WaitForJob
  <2> USE <1>14 DEF WaitForJob, Running
  <2>0. bjob' = bjob /\ pushed' = pushed /\ UNCHANGED <<build, code, marks, exec>> /\ bfaults' \in Nat
    BY FaultsLeft
  <2>1. PICK says, stage : /\ Concludes(says, stage)
                          /\ \/ says = "built" /\ stage = "" /\ bjob.at = "done" /\ bjob.failed = {}
                             \/ says = "failed" /\ StageIsSo(stage) /\ bjob.at = "done" /\ bjob.failed # {}
                             \/ says = "error" /\ stage = ""
    BY TheFailedStage
  <2>2. says \in {"error", "undelivered", "not started", "built", "failed"} /\ stage \in Containers \cup {""}
    BY <2>1 DEF StageIsSo
  <2>2a. panel' \in PanelType /\ panel'.at = "off" /\ panel'.says = says /\ panel'.stage = stage
    BY ONLY <2>1, <2>2, PanelConcludes
  <2>2b. JobTypeOK'
    BY <2>0 DEF JobTypeOK
  <2>3. PodTypeOK'
    BY <2>0, <2>2a, <2>2b
  <2>4. NothingYet /\ ReadyMeansWhole /\ PushedAtTheEnd
    BY DEF PodInv
  <2>5. NothingYet' /\ ReadyMeansWhole' /\ PushedAtTheEnd'
    BY ONLY <2>0, <2>2a, <2>4 DEF NothingYet, ReadyMeansWhole, PushedAtTheEnd
  <2>6. Concluded'
    BY ONLY <2>0, <2>1, <2>2a, <2>4 DEF PushedAtTheEnd, Concluded, StageIsSo
  <2>7. QED BY <2>3, <2>5, <2>6
<1>15. CASE PanelEnds
  <2> USE <1>15, PanelGone, FaultsLeft DEF PanelEnds
  <2>1. panel' \in PanelType
    OBVIOUS
  <2>2. JobTypeOK'
    BY DEF JobTypeOK
  <2>3. PodTypeOK'
    BY <2>1, <2>2
  <2>4. NothingYet'
    BY DEF NothingYet
  <2>5. ReadyMeansWhole'
    BY DEF NothingYet, ReadyMeansWhole, PushedAtTheEnd
  <2>6. PushedAtTheEnd'
    BY DEF NothingYet, PushedAtTheEnd
  <2>7. Concluded'
    BY DEF NothingYet, PushedAtTheEnd, Concluded
  <2>8. QED BY <2>3, <2>4, <2>5, <2>6, <2>7
<1>16. CASE DeadlinePasses
  <2> USE <1>16, JobFails, FaultsLeft DEF DeadlinePasses
  <2>1. panel' \in PanelType
    OBVIOUS
  <2>2. JobTypeOK'
    BY DEF JobTypeOK
  <2>3. PodTypeOK'
    BY <2>1, <2>2
  <2>4. NothingYet'
    BY DEF NothingYet
  <2>5. ReadyMeansWhole'
    BY DEF NothingYet, ReadyMeansWhole, PushedAtTheEnd
  <2>6. PushedAtTheEnd'
    BY DEF NothingYet, PushedAtTheEnd
  <2>7. Concluded'
    BY DEF NothingYet, PushedAtTheEnd, Concluded
  <2>8. QED BY <2>3, <2>4, <2>5, <2>6, <2>7
<1>17. CASE UNCHANGED podVars
  <2> USE <1>17 DEF podVars
  <2>1. PodTypeOK'
    BY DEF JobTypeOK
  <2>2. NothingYet' /\ ReadyMeansWhole'
    BY DEF NothingYet, ReadyMeansWhole
  <2>3. PushedAtTheEnd' /\ Concluded'
    BY DEF PushedAtTheEnd, Concluded
  <2>4. QED BY <2>1, <2>2, <2>3
<1>18. QED
  BY <1>1, <1>2, <1>3, <1>4, <1>5, <1>6, <1>7, <1>8, <1>9, <1>10, <1>11, <1>12, <1>13, <1>14, <1>15,
     <1>16, <1>17 DEF PodNext, PodStep, PanelStep

\* No container builds part of the code, and what the panel concludes of a build is so, for every
\* set of builds and every number of faults.
THEOREM OnlyWholeCodeIsBuiltAlways == PodSpec => []OnlyWholeCodeIsBuilt
<1>1. PodInv => OnlyWholeCodeIsBuilt
  BY DEF PodInv, PodTypeOK, JobTypeOK, ReadyMeansWhole, PushedAtTheEnd, Concluded, OnlyWholeCodeIsBuilt
<1>2. QED
  BY <1>1, PodInitInv, PodNextInv, PTL DEF PodSpec

(***************************************************************************)
(* The rotation of the master key, one at a time.                          *)
(***************************************************************************)
Envelope == [id : Nat, key : Nat, value : Nat, context : Cells]
Ref == [cell : Cells, sealed : Envelope]
Write == [at : {"write"}, cell : Cells, sealed : Envelope, value : Nat, calm : BOOLEAN]
RotationType == [at : {"off", "save", "list", "rewrap", "drop"}, id : Nat, refs : SUBSET Ref, failed : BOOLEAN]
MixType == [kinds : SUBSET {"write", "back", "delete", "crash", "save", "list", "update"}, moves : Nat, rotations : Nat]

\* A keyring whose keys are among the first k made, with a key that is active.
RingOK(r, k) ==
    /\ r = [keys |-> r.keys, active |-> r.active]
    /\ r.keys \in [KeyIds(r) -> 1..k] /\ KeyIds(r) \subseteq Nat /\ IsFiniteSet(KeyIds(r))
    /\ r.active \in KeyIds(r)
\* The envelope is under the key that is active in r.
UnderActive(r, e) == e.id = r.active /\ e.key = r.keys[r.active]

SecretTypeOK ==
    /\ keys \in Nat /\ RingOK(ring, keys) /\ RingOK(keyfile, keys)
    /\ cell \in [Cells -> SUBSET Envelope] /\ meant \in [Cells -> SUBSET Nat] /\ calm \subseteq Cells
    /\ writer \in [Writers -> Write \cup {Off}] /\ rotation \in [Rotations -> RotationType]
    /\ paper \subseteq [id : Nat, key : Nat] /\ smix \in MixType

\* A cell holds one envelope at most, and something is meant where there is one.
OneEnvelope == \A c \in Cells : (\A e, f \in cell[c] : e = f) /\ (cell[c] # {} => meant[c] # {})
OneRotation == \A q, r \in Rotations : rotation[q].at # "off" /\ rotation[r].at # "off" => q = r
\* The file has the new key before anything is rewrapped; until the end there is no newer recovery key.
NewKeyIsSaved ==
    \A r \in Rotations :
        /\ rotation[r].at \in {"save", "list", "rewrap"} => rotation[r].id = ring.active /\ \A p \in paper : p.key # keys
        /\ rotation[r].at \in {"list", "rewrap"} => keyfile = ring
\* A recovery key is of a key that was made; that of the newest is the active one in memory and in the file.
PaperIsActive ==
    \A p \in paper : p.key <= keys /\ (p.key = keys => UnderActive(ring, p) /\ UnderActive(keyfile, p))
\* An envelope that opens to v in c, in memory and in the file, and with the newest recovery key.
Opens(e, c, v) ==
    /\ Unwraps(ring, e) /\ Unwraps(keyfile, e) /\ e.context = c /\ e.value = v
    /\ \A p \in paper : p.key = keys => e.id = p.id /\ e.key = p.key
CalmCells == \A c \in calm : \A e \in cell[c] : Opens(e, c, e.value) /\ meant[c] = {e.value}
\* What a request seals or read while no rotation ran is good for as long as none has begun.
CalmWriters ==
    \A w \in Writers : writer[w].at = "write" /\ writer[w].calm =>
        ~Rotating /\ ring = keyfile /\ Opens(writer[w].sealed, writer[w].cell, writer[w].value)
\* What is listed of a calm cell is still what is there; what is not listed any more is under the new key,
\* unless something failed.
Listed ==
    \A r \in Rotations : rotation[r].at = "rewrap" =>
        /\ \A x, y \in rotation[r].refs : x.cell = y.cell => x = y
        /\ \A x \in rotation[r].refs : x.cell \in calm => \A e \in cell[x.cell] : e = x.sealed
        /\ \A c \in calm : \A e \in cell[c] :
              \/ rotation[r].failed
              \/ UnderActive(ring, e)
              \/ \E x \in rotation[r].refs : x.cell = c

SecretInv == /\ SecretTypeOK /\ OneEnvelope /\ OneRotation /\ NewKeyIsSaved /\ PaperIsActive
             /\ CalmCells /\ CalmWriters /\ Listed

\* A set of natural numbers that is not empty has a least one.
LEMMA Least == ASSUME NEW T, T \subseteq Nat, T # {} PROVE \E x \in T : \A y \in T : ~(y < x)
<1>1. PICK x \in T : \A y \in T : ~(<<y, x>> \in OpToRel(<, Nat))
  BY NatLessThanWellFounded, WFMin
<1>2. \A y \in T : y < x => <<y, x>> \in OpToRel(<, Nat)
  BY DEF OpToRel
<1>3. QED BY <1>1, <1>2

\* The id a rotation gives its key is of no key in the ring: among n + 1 numbers one is not taken by n keys.
LEMMA NextKeyIDIsNew ==
    ASSUME NEW r, NEW k, RingOK(r, k) PROVE NextKeyID(r) \in Nat /\ NextKeyID(r) \notin KeyIds(r)
<1> DEFINE n == Cardinality(KeyIds(r))
           T == {m \in n + 1 .. 2 * n + 1 : m \notin KeyIds(r)}
<1>1. n \in Nat /\ IsFiniteSet(KeyIds(r))
  BY FS_CardinalityType DEF RingOK
<1>2. T # {}
  <2>1. SUFFICES ASSUME T = {} PROVE FALSE
    OBVIOUS
  <2>2. n + 1 .. 2 * n + 1 \subseteq KeyIds(r)
    BY <2>1
  <2>3. Cardinality(n + 1 .. 2 * n + 1) <= n
    BY <1>1, <2>2, FS_Subset
  <2>4. Cardinality(n + 1 .. 2 * n + 1) = n + 1
    <3> HIDE DEF n
    <3> QED BY <1>1, FS_Interval
  <2>5. QED BY <1>1, <2>3, <2>4
<1>3. PICK x \in T : \A y \in T : ~(y < x)
  <2>1. T \subseteq Nat
    BY <1>1
  <2> HIDE DEF T
  <2>2. QED BY <1>2, <2>1, Least
<1>4. x \in n + 1 .. 2 * n + 1 /\ x \notin KeyIds(r) /\ \A m \in n + 1 .. x - 1 : m \in KeyIds(r)
  <2> HIDE DEF n
  <2> QED BY <1>1, <1>3
<1>5. NextKeyID(r) \in n + 1 .. 2 * n + 1 /\ NextKeyID(r) \notin KeyIds(r)
  <2> DEFINE P(m) == m \notin KeyIds(r) /\ \A q \in n + 1 .. m - 1 : q \in KeyIds(r)
  <2>1. NextKeyID(r) = CHOOSE m \in n + 1 .. 2 * n + 1 : P(m)
    BY DEF NextKeyID
  <2>2. \E m \in n + 1 .. 2 * n + 1 : P(m)
    BY <1>4
  <2> HIDE DEF P, n
  <2>3. NextKeyID(r) \in n + 1 .. 2 * n + 1 /\ P(NextKeyID(r))
    BY <2>1, <2>2
  <2>4. QED BY <2>3 DEF P
<1>6. QED BY <1>1, <1>5

LEMMA RingGrows == ASSUME NEW r, NEW k \in Nat, RingOK(r, k) PROVE RingOK(r, k + 1)
<1>1. 1..k \subseteq 1..(k + 1)
  OBVIOUS
<1>2. QED BY <1>1 DEF RingOK, KeyIds

\* A new key is active, and what opened before opens.
LEMMA AddKeyOK ==
    ASSUME NEW r, NEW k \in Nat, RingOK(r, k), NEW q, q = AddKey(r, NextKeyID(r), k + 1)
    PROVE  RingOK(q, k + 1) /\ q.active = NextKeyID(r) /\ \A e : Unwraps(r, e) => Unwraps(q, e)
<1> DEFINE n == NextKeyID(r)
<1>1. n \in Nat /\ n \notin KeyIds(r)
  BY NextKeyIDIsNew
<1> HIDE DEF n
<1>2. q = [keys |-> [i \in KeyIds(r) \cup {n} |-> IF i = n THEN k + 1 ELSE r.keys[i]], active |-> n]
  BY DEF AddKey, n
<1>3. KeyIds(q) = KeyIds(r) \cup {n} /\ q.active = n
  BY <1>2 DEF KeyIds
<1>4. \A i \in KeyIds(r) : q.keys[i] = r.keys[i] /\ r.keys[i] \in 1..k
  BY <1>1, <1>2 DEF RingOK
<1>5. q.keys[n] = k + 1
  BY <1>2
<1>6. IsFiniteSet(KeyIds(q))
  BY <1>3, FS_AddElement DEF RingOK
<1>7. q.keys \in [KeyIds(q) -> 1..(k + 1)]
  <2>1. \A i \in KeyIds(q) : q.keys[i] \in 1..(k + 1)
    BY <1>3, <1>4, <1>5
  <2>2. q.keys = [i \in KeyIds(q) |-> q.keys[i]]
    BY <1>2, <1>3
  <2>3. QED BY <2>1, <2>2
<1>8. RingOK(q, k + 1)
  BY <1>1, <1>2, <1>3, <1>6, <1>7 DEF RingOK
<1>9. \A e : Unwraps(r, e) => Unwraps(q, e)
  BY <1>3, <1>4 DEF Unwraps
<1>10. QED BY <1>3, <1>8, <1>9 DEF n

\* Only the active key is left of a ring when it is the one that is kept, and it stays active.
LEMMA DropKeysOK ==
    ASSUME NEW r, NEW k \in Nat, RingOK(r, k), NEW q, q = DropKeys(r, r.active)
    PROVE  RingOK(q, k) /\ q.active = r.active /\ q.keys[r.active] = r.keys[r.active]
<1>1. q = [keys |-> [i \in {r.active} |-> r.keys[i]], active |-> r.active]
  <2>1. KeyIds(r) \cap {r.active, r.active} = {r.active}
    BY DEF RingOK
  <2>2. QED BY <2>1 DEF DropKeys, RingOK
<1>2. KeyIds(q) = {r.active} /\ q.active = r.active /\ q.keys[r.active] = r.keys[r.active]
  BY <1>1 DEF KeyIds
<1>3. r.active \in Nat /\ r.keys[r.active] \in 1..k
  BY DEF RingOK
<1>4. IsFiniteSet({r.active})
  BY FS_Singleton
<1>5. q.keys \in [KeyIds(q) -> 1..k]
  BY <1>1, <1>2, <1>3
<1>6. QED BY <1>1, <1>2, <1>3, <1>4, <1>5 DEF RingOK

LEMMA ActiveUnwraps == ASSUME NEW r, NEW k, RingOK(r, k), NEW e, UnderActive(r, e) PROVE Unwraps(r, e)
BY DEF RingOK, UnderActive, Unwraps

LEMMA SealOK ==
    ASSUME NEW r, NEW k \in Nat, RingOK(r, k), NEW v \in Nat, NEW c \in Cells
    PROVE  /\ Seal(r, v, c) \in Envelope /\ UnderActive(r, Seal(r, v, c))
           /\ Seal(r, v, c).value = v /\ Seal(r, v, c).context = c
<1>1. r.active \in Nat /\ r.keys[r.active] \in Nat
  BY DEF RingOK
<1>2. QED BY <1>1 DEF Seal, Envelope, UnderActive

\* What is written over a listed envelope.
Rewrapped(r, e) == IF e.id = r.active THEN {e} ELSE Rewrap(r, e)
LEMMA RewrapOK ==
    ASSUME NEW r, NEW k \in Nat, RingOK(r, k), NEW e \in Envelope
    PROVE  /\ Rewrapped(r, e) \subseteq Envelope
           /\ \A f, g \in Rewrapped(r, e) : f = g
           /\ Unwraps(r, e) => Rewrapped(r, e) # {}
           /\ Unwraps(r, e) => \A f \in Rewrapped(r, e) : UnderActive(r, f) /\ f.value = e.value /\ f.context = e.context
<1>1. r.active \in Nat /\ r.keys[r.active] \in Nat
  BY DEF RingOK
<1>2. CASE e.id = r.active
  BY <1>2 DEF Rewrapped, Unwraps, UnderActive
<1>3. CASE e.id # r.active
  <2> DEFINE f == [e EXCEPT !.id = r.active, !.key = r.keys[r.active]]
  <2>1. f \in Envelope /\ UnderActive(r, f) /\ f.value = e.value /\ f.context = e.context
    BY <1>1 DEF Envelope, UnderActive
  <2>2. Rewrapped(r, e) = IF Unwraps(r, e) THEN {f} ELSE {}
    BY <1>3 DEF Rewrapped, Rewrap
  <2> HIDE DEF f
  <2>3. QED BY <2>1, <2>2
<1>4. QED BY <1>2, <1>3

\* What an action spends of its mix.
LEMMA MixSpent == ASSUME smix \in MixType, NEW kind, SMay(kind) PROVE smix' \in MixType
<1>1. smix.moves > 0 /\ smix.moves \in Nat /\ smix' = [smix EXCEPT !.moves = smix.moves - 1]
  BY DEF SMay, MixType
<1>2. smix.moves - 1 \in Nat
  BY <1>1
<1>3. QED BY <1>1, <1>2 DEF MixType

LEMMA SecretInitInv ==
    ASSUME \A x \in SecretMixes : "overlap" \notin x.kinds, SecretInit
    PROVE  SecretInv
<1> USE DEF SecretInit, InitKeyring
<1>1. RingOK(ring, keys)
  <2>1. ring = [keys |-> [i \in {1} |-> 1], active |-> 1] /\ keys = 1
    BY DEF NewKeyring
  <2>2. ring.keys = [i \in {1} |-> 1] /\ ring.active = 1
    BY <2>1
  <2>3. KeyIds(ring) = {1}
    BY <2>2 DEF KeyIds
  <2>4. IsFiniteSet(KeyIds(ring))
    BY <2>3, FS_Singleton
  <2>5. ring.keys \in [KeyIds(ring) -> 1..1]
    BY <2>2, <2>3
  <2>6. ring = [keys |-> ring.keys, active |-> ring.active]
    BY <2>1, <2>2
  <2>7. QED BY <2>1, <2>2, <2>3, <2>4, <2>5, <2>6 DEF RingOK
<1>2. smix \in MixType
  <2>1. smix \in [kinds : SUBSET {"write", "back", "delete", "crash", "save", "list", "update", "overlap"},
                  moves : Nat, rotations : Nat] /\ "overlap" \notin smix.kinds
    BY SecretAssumption
  <2>2. smix.kinds \subseteq {"write", "back", "delete", "crash", "save", "list", "update"}
    BY <2>1
  <2>3. QED BY <2>1, <2>2 DEF MixType
<1>3. rotation \in [Rotations -> RotationType] /\ \A r \in Rotations : rotation[r].at = "off"
  BY DEF NoRotation, RotationType
<1>4. SecretTypeOK
  BY <1>1, <1>2, <1>3 DEF SecretTypeOK
<1>5. \A w \in Writers : writer[w].at = "off"
  BY DEF Off
<1>6. QED
  BY <1>3, <1>4, <1>5 DEF SecretInv, OneEnvelope, OneRotation, NewKeyIsSaved, PaperIsActive, CalmCells, CalmWriters, Listed

(***************************************************************************)
(* Requests.                                                               *)
(***************************************************************************)
\* A request that begins to write: only CalmWriters is at stake.
LEMMA WriterBegins ==
    ASSUME SecretInv, NEW w \in Writers, NEW x \in Write, writer' = [writer EXCEPT ![w] = x], smix' \in MixType,
           x.calm => Settled /\ Opens(x.sealed, x.cell, x.value),
           UNCHANGED <<ring, keyfile, cell, meant, calm, rotation, paper, keys>>
    PROVE  SecretInv'
<1> USE DEF SecretInv
<1>1. SecretTypeOK'
  BY DEF SecretTypeOK
<1>2. OneEnvelope' /\ OneRotation' /\ NewKeyIsSaved' /\ PaperIsActive'
  BY DEF OneEnvelope, OneRotation, NewKeyIsSaved, PaperIsActive
<1>3. CalmCells' /\ Listed'
  BY DEF CalmCells, Listed, Opens
<1>4. CalmWriters'
  <2>1. Rotating' = Rotating
    BY DEF Rotating
  <2>2. SUFFICES ASSUME NEW v \in Writers, writer'[v].at = "write", writer'[v].calm
                 PROVE  ~Rotating /\ ring = keyfile /\ Opens(writer'[v].sealed, writer'[v].cell, writer'[v].value)
    BY <2>1 DEF CalmWriters, Opens
  <2>3. CASE v = w
    BY <2>2, <2>3 DEF SecretTypeOK, Settled
  <2>4. CASE v # w
    BY <2>2, <2>4 DEF CalmWriters, SecretTypeOK
  <2>5. QED BY <2>3, <2>4
<1>5. QED BY <1>1, <1>2, <1>3, <1>4

LEMMA SealValueInv == ASSUME SecretInv, NEW w \in Writers, NEW c \in Cells, SealValue(w, c) PROVE SecretInv'
<1>1. smix' \in MixType /\ smix.moves \in Nat
  BY MixSpent DEF SecretInv, SecretTypeOK, SealValue, MixType
<1> DEFINE e == Seal(ring, smix.moves, c)
           x == [at |-> "write", cell |-> c, sealed |-> e, value |-> smix.moves, calm |-> Settled]
<1>2. e \in Envelope /\ UnderActive(ring, e) /\ e.value = smix.moves /\ e.context = c
  BY <1>1, SealOK DEF SecretInv, SecretTypeOK
<1> HIDE DEF e
<1>3. Settled \in BOOLEAN
  BY DEF Settled
<1>4. x \in Write
  BY <1>1, <1>2, <1>3 DEF Write
<1>5. Settled => Opens(e, c, smix.moves)
  <2>1. SUFFICES ASSUME Settled PROVE Opens(e, c, smix.moves)
    OBVIOUS
  <2>2. ring = keyfile
    BY <2>1 DEF Settled
  <2>3. Unwraps(ring, e)
    BY <1>2, ActiveUnwraps DEF SecretInv, SecretTypeOK
  <2>4. \A p \in paper : p.key = keys => e.id = p.id /\ e.key = p.key
    BY <1>2 DEF SecretInv, PaperIsActive, UnderActive
  <2>5. QED BY <1>2, <2>2, <2>3, <2>4 DEF Opens
<1>6. writer' = [writer EXCEPT ![w] = x]
  BY DEF SealValue, e
<1>7. x.calm = Settled /\ x.sealed = e /\ x.cell = c /\ x.value = smix.moves
  OBVIOUS
<1> HIDE DEF x
<1>8. QED
  BY <1>1, <1>4, <1>5, <1>6, <1>7, WriterBegins DEF SealValue

LEMMA ReadRowInv == ASSUME SecretInv, NEW w \in Writers, NEW c \in Cells, ReadRow(w, c) PROVE SecretInv'
<1>1. smix' \in MixType
  BY MixSpent DEF SecretInv, SecretTypeOK, ReadRow
<1> DEFINE v == CHOOSE y \in meant[c] : TRUE
<1>2. PICK e \in cell[c] : writer' = [writer EXCEPT ![w] =
           [at |-> "write", cell |-> c, sealed |-> e, value |-> v, calm |-> Settled /\ c \in calm]]
  BY DEF ReadRow
<1>3. e \in Envelope /\ v \in meant[c] /\ meant[c] \subseteq Nat
  <2>1. meant[c] # {}
    BY <1>2 DEF SecretInv, OneEnvelope
  <2>2. QED BY <1>2, <2>1 DEF SecretInv, SecretTypeOK
<1> HIDE DEF v
<1> DEFINE x == [at |-> "write", cell |-> c, sealed |-> e, value |-> v, calm |-> Settled /\ c \in calm]
<1>4. x \in Write
  BY <1>3 DEF Write, Settled
<1>5. Settled /\ c \in calm => Settled /\ Opens(e, c, v)
  BY <1>2, <1>3 DEF SecretInv, CalmCells
<1>6. x.calm = (Settled /\ c \in calm) /\ x.sealed = e /\ x.cell = c /\ x.value = v
  OBVIOUS
<1>7. writer' = [writer EXCEPT ![w] = x]
  BY <1>2
<1> HIDE DEF x
<1>8. QED
  BY <1>1, <1>4, <1>5, <1>6, <1>7, WriterBegins DEF ReadRow

LEMMA WriteRowInv == ASSUME SecretInv, NEW w \in Writers, WriteRow(w) PROVE SecretInv'
<1> USE DEF SecretInv
<1> DEFINE x == writer[w]
<1>1. x \in Write
  BY DEF WriteRow, SecretTypeOK, Off
<1>2. /\ x.cell \in Cells /\ x.sealed \in Envelope /\ x.value \in Nat
      /\ cell' = [cell EXCEPT ![x.cell] = {x.sealed}] /\ meant' = [meant EXCEPT ![x.cell] = {x.value}]
      /\ calm' = IF x.calm /\ Settled THEN calm \cup {x.cell} ELSE calm \ {x.cell}
      /\ writer' = [writer EXCEPT ![w] = Off]
      /\ UNCHANGED <<ring, keyfile, rotation, paper, keys, smix>>
  BY <1>1 DEF WriteRow, Write
<1>3. x.calm => ~Rotating /\ Opens(x.sealed, x.cell, x.value)
  BY DEF WriteRow, CalmWriters
<1> HIDE DEF x
<1>4. SecretTypeOK'
  BY <1>2 DEF SecretTypeOK
<1>5. OneEnvelope' /\ OneRotation' /\ NewKeyIsSaved' /\ PaperIsActive'
  BY <1>2 DEF SecretTypeOK, OneEnvelope, OneRotation, NewKeyIsSaved, PaperIsActive
<1>6. CalmCells'
  <2>1. SUFFICES ASSUME NEW c \in calm', NEW e \in cell'[c]
                 PROVE  Opens(e, c, e.value) /\ meant'[c] = {e.value}
    BY <1>2 DEF CalmCells, Opens
  <2>2. CASE c = x.cell
    <3>1. x.calm /\ e = x.sealed /\ meant'[c] = {x.value}
      BY <1>2, <2>1, <2>2 DEF SecretTypeOK
    <3>2. QED BY <1>3, <2>2, <3>1 DEF Opens
  <2>3. CASE c # x.cell
    BY <1>2, <2>1, <2>3 DEF SecretTypeOK, CalmCells
  <2>4. QED BY <2>2, <2>3
<1>7. CalmWriters'
  <2>1. Rotating' = Rotating
    BY <1>2 DEF Rotating
  <2>2. SUFFICES ASSUME NEW v \in Writers, writer'[v].at = "write", writer'[v].calm
                 PROVE  ~Rotating /\ ring = keyfile /\ Opens(writer'[v].sealed, writer'[v].cell, writer'[v].value)
    BY <1>2, <2>1 DEF CalmWriters, Opens
  <2>3. writer'[v] = writer[v]
    BY <1>2, <2>2 DEF SecretTypeOK, Off
  <2>4. QED BY <2>2, <2>3 DEF CalmWriters
<1>8. Listed'
  <2>1. SUFFICES ASSUME NEW r \in Rotations, rotation[r].at = "rewrap"
                 PROVE  /\ \A y, z \in rotation[r].refs : y.cell = z.cell => y = z
                        /\ \A y \in rotation[r].refs : y.cell \in calm' => \A e \in cell'[y.cell] : e = y.sealed
                        /\ \A c \in calm' : \A e \in cell'[c] :
                              \/ rotation[r].failed
                              \/ UnderActive(ring, e)
                              \/ \E y \in rotation[r].refs : y.cell = c
    BY <1>2 DEF Listed
  <2>2. calm' = calm \ {x.cell}
    BY <1>2, <2>1 DEF Settled, Rotating
  <2>3. \A c \in calm' : c \in calm /\ cell'[c] = cell[c]
    BY <1>2, <2>2 DEF SecretTypeOK
  <2>4. QED BY <2>1, <2>3 DEF Listed
<1>9. QED BY <1>4, <1>5, <1>6, <1>7, <1>8

LEMMA DeleteRowInv == ASSUME SecretInv, NEW c \in Cells, DeleteRow(c) PROVE SecretInv'
<1> USE DEF SecretInv
<1>1. smix' \in MixType
  BY MixSpent DEF SecretTypeOK, DeleteRow
<1>2. /\ cell' = [cell EXCEPT ![c] = {}] /\ meant' = [meant EXCEPT ![c] = {}]
      /\ UNCHANGED <<ring, keyfile, calm, writer, rotation, paper, keys>>
  BY DEF DeleteRow
<1>3. SecretTypeOK'
  BY <1>1, <1>2 DEF SecretTypeOK
<1>4. OneEnvelope' /\ OneRotation' /\ NewKeyIsSaved' /\ PaperIsActive'
  BY <1>2 DEF SecretTypeOK, OneEnvelope, OneRotation, NewKeyIsSaved, PaperIsActive
<1>5. \A d \in Cells : \A e \in cell'[d] : e \in cell[d] /\ meant'[d] = meant[d]
  BY <1>2 DEF SecretTypeOK
<1>6. CalmCells' /\ CalmWriters'
  BY <1>2, <1>5 DEF SecretTypeOK, CalmCells, CalmWriters, Opens, Rotating
<1>7. Listed'
  <2>1. \A d \in calm : d \in Cells
    BY DEF SecretTypeOK
  <2>2. QED BY <1>2, <1>5, <2>1 DEF Listed
<1>8. QED BY <1>3, <1>4, <1>6, <1>7

(***************************************************************************)
(* The rotation.                                                           *)
(***************************************************************************)
LEMMA BeginRotationInv == ASSUME SecretInv, NEW r \in Rotations, BeginRotation(r) PROVE SecretInv'
<1> USE DEF SecretInv
<1>1. ~Rotating
  BY DEF BeginRotation, SecretTypeOK, MixType
<1>2. \A q \in Rotations : rotation[q].at = "off"
  BY <1>1 DEF Rotating
<1>3. keys \in Nat /\ RingOK(ring, keys) /\ RingOK(keyfile, keys)
  BY DEF SecretTypeOK
<1>4. keys' = keys + 1 /\ ring' = AddKey(ring, NextKeyID(ring), keys + 1)
  BY DEF BeginRotation
<1>5. RingOK(ring', keys') /\ ring'.active = NextKeyID(ring) /\ \A e : Unwraps(ring, e) => Unwraps(ring', e)
  BY <1>3, <1>4, AddKeyOK
<1>6. RingOK(keyfile', keys')
  BY <1>3, <1>4, RingGrows DEF BeginRotation
<1>7. NextKeyID(ring) \in Nat
  BY <1>3, NextKeyIDIsNew
<1>8. /\ rotation' = [rotation EXCEPT ![r] = [at |-> "save", id |-> NextKeyID(ring), refs |-> {}, failed |-> FALSE]]
      /\ writer' = [w \in Writers |-> IF writer[w].at = "off" THEN Off ELSE [writer[w] EXCEPT !.calm = FALSE]]
      /\ UNCHANGED <<keyfile, cell, meant, calm, paper>>
  BY DEF BeginRotation
<1>9. smix' \in MixType
  <2>1. smix.rotations \in Nat /\ smix.rotations > 0 /\ smix' = [smix EXCEPT !.rotations = smix.rotations - 1]
    BY DEF BeginRotation, SecretTypeOK, MixType
  <2>2. smix.rotations - 1 \in Nat
    BY <2>1
  <2>3. QED BY <2>1, <2>2 DEF SecretTypeOK, MixType
<1>10. rotation' \in [Rotations -> RotationType] /\ rotation'[r].at = "save" /\ rotation'[r].id = NextKeyID(ring)
       /\ \A q \in Rotations \ {r} : rotation'[q].at = "off"
  BY <1>2, <1>7, <1>8 DEF SecretTypeOK, RotationType
<1>11. writer' \in [Writers -> Write \cup {Off}] /\ \A w \in Writers : writer'[w].at = "write" => ~writer'[w].calm
  <2>1. SUFFICES ASSUME NEW w \in Writers
                 PROVE  writer'[w] \in Write \cup {Off} /\ (writer'[w].at = "write" => ~writer'[w].calm)
    BY <1>8
  <2>2. CASE writer[w].at = "off"
    BY <1>8, <2>2 DEF Off
  <2>3. CASE writer[w].at # "off"
    <3>1. writer[w] \in Write
      BY <2>3 DEF SecretTypeOK, Off
    <3>2. writer'[w] = [writer[w] EXCEPT !.calm = FALSE]
      BY <1>8, <2>3
    <3>3. QED BY <3>1, <3>2 DEF Write
  <2>4. QED BY <2>2, <2>3
<1> HIDE DEF SecretInv
<1>12. SecretTypeOK'
  BY <1>4, <1>3, <1>5, <1>6, <1>8, <1>9, <1>10, <1>11 DEF SecretInv, SecretTypeOK
<1>13. \A p \in paper : p.key <= keys /\ p.key < keys'
  BY <1>3, <1>4 DEF SecretInv, SecretTypeOK, PaperIsActive
<1>14. OneEnvelope' /\ OneRotation' /\ NewKeyIsSaved' /\ PaperIsActive'
  <2>1. OneEnvelope'
    BY <1>8 DEF SecretInv, OneEnvelope
  <2>2. OneRotation'
    BY <1>10 DEF OneRotation
  <2>3. \A p \in paper' : p.key # keys' /\ p.key <= keys'
    BY <1>3, <1>4, <1>8, <1>13 DEF SecretInv, SecretTypeOK
  <2>4. NewKeyIsSaved'
    BY <1>5, <1>10, <2>3 DEF NewKeyIsSaved
  <2>5. PaperIsActive'
    BY <2>3 DEF PaperIsActive
  <2>6. QED BY <2>1, <2>2, <2>4, <2>5
<1>15. CalmCells'
  <2>1. \A p \in paper' : p.key # keys'
    BY <1>3, <1>4, <1>8, <1>13 DEF SecretInv, SecretTypeOK
  <2>2. QED BY <1>5, <1>8, <2>1 DEF SecretInv, CalmCells, Opens
<1>16. CalmWriters'
  BY <1>11 DEF CalmWriters
<1>17. Listed'
  BY <1>10 DEF Listed
<1>18. QED BY <1>12, <1>14, <1>15, <1>16, <1>17 DEF SecretInv

\* While a rotation runs no request has anything calm to write.
LEMMA NoneCalm ==
    ASSUME SecretInv, NEW r \in Rotations, rotation[r].at # "off", UNCHANGED writer PROVE CalmWriters'
BY DEF SecretInv, CalmWriters, Rotating

\* A rotation that ends leaves the others as they are: there is none.
LEMMA RotationEnds ==
    ASSUME SecretInv, NEW r \in Rotations, rotation[r].at # "off", rotation' = [rotation EXCEPT ![r] = NoRotation],
           smix' \in MixType, paper' \subseteq paper, UNCHANGED <<ring, keyfile, cell, meant, calm, writer, keys>>
    PROVE  SecretInv'
<1>1. rotation' \in [Rotations -> RotationType] /\ \A q \in Rotations : rotation'[q].at = "off"
  BY DEF SecretInv, SecretTypeOK, OneRotation, NoRotation, RotationType
<1>2. SecretTypeOK'
  BY <1>1 DEF SecretInv, SecretTypeOK
<1>3. OneEnvelope' /\ OneRotation' /\ NewKeyIsSaved' /\ PaperIsActive' /\ Listed'
  BY <1>1 DEF SecretInv, OneEnvelope, OneRotation, NewKeyIsSaved, PaperIsActive, Listed
<1>4. CalmCells'
  BY DEF SecretInv, CalmCells, Opens
<1>5. QED BY <1>2, <1>3, <1>4, NoneCalm DEF SecretInv

LEMMA SaveNewKeyInv == ASSUME SecretInv, NEW r \in Rotations, SaveNewKey(r) PROVE SecretInv'
<1> USE DEF SaveNewKey
<1>1. CASE SMay("save") /\ rotation' = [rotation EXCEPT ![r] = NoRotation] /\ UNCHANGED keyfile
  <2>1. smix' \in MixType
    BY <1>1, MixSpent DEF SecretInv, SecretTypeOK
  <2>2. QED BY <1>1, <2>1, RotationEnds
<1>2. CASE keyfile' = ring /\ rotation' = [rotation EXCEPT ![r].at = "list"] /\ UNCHANGED smix
  <2>1. /\ rotation' \in [Rotations -> RotationType] /\ rotation'[r].at = "list" /\ rotation'[r].id = rotation[r].id
        /\ \A q \in Rotations \ {r} : rotation'[q].at = "off"
    BY <1>2 DEF SecretInv, SecretTypeOK, OneRotation, RotationType
  <2>2. SecretTypeOK'
    BY <1>2, <2>1 DEF SecretInv, SecretTypeOK
  <2>3. OneEnvelope' /\ OneRotation' /\ Listed'
    BY <1>2, <2>1 DEF SecretInv, OneEnvelope, OneRotation, Listed
  <2>4. NewKeyIsSaved' /\ PaperIsActive'
    BY <1>2, <2>1 DEF SecretInv, NewKeyIsSaved, PaperIsActive
  <2>5. CalmCells'
    BY <1>2 DEF SecretInv, CalmCells, Opens
  <2>6. CalmWriters'
    BY NoneCalm
  <2>7. QED BY <2>2, <2>3, <2>4, <2>5, <2>6 DEF SecretInv
<1>3. QED BY <1>1, <1>2

LEMMA ListSealedSecretsInv == ASSUME SecretInv, NEW r \in Rotations, ListSealedSecrets(r) PROVE SecretInv'
<1> USE DEF ListSealedSecrets
<1>1. CASE SMay("list") /\ rotation' = [rotation EXCEPT ![r] = NoRotation]
  <2>1. smix' \in MixType
    BY <1>1, MixSpent DEF SecretInv, SecretTypeOK
  <2>2. QED BY <1>1, <2>1, RotationEnds
<1>2. CASE /\ rotation' = [rotation EXCEPT ![r].at = "rewrap", ![r].refs =
                             UNION {{[cell |-> c, sealed |-> e] : e \in cell[c]} : c \in Cells}]
           /\ UNCHANGED smix
  <2> DEFINE all == UNION {{[cell |-> c, sealed |-> e] : e \in cell[c]} : c \in Cells}
  <2>1. all \subseteq Ref /\ \A x \in all : x.sealed \in cell[x.cell]
    BY DEF SecretInv, SecretTypeOK, Ref
  <2>2. \A c \in Cells : \A e \in cell[c] : \E x \in all : x.cell = c
    <3> SUFFICES ASSUME NEW c \in Cells, NEW e \in cell[c] PROVE \E x \in all : x.cell = c
      OBVIOUS
    <3>1. [cell |-> c, sealed |-> e] \in all
      OBVIOUS
    <3> HIDE DEF all
    <3>2. QED BY <3>1
  <2>3. rotation[r] \in RotationType /\ rotation' = [rotation EXCEPT ![r] = [rotation[r] EXCEPT !.at = "rewrap", !.refs = all]]
    BY <1>2 DEF SecretInv, SecretTypeOK
  <2> HIDE DEF all
  <2>4. [rotation[r] EXCEPT !.at = "rewrap", !.refs = all] \in RotationType
    BY <2>1, <2>3 DEF RotationType
  <2>5. /\ rotation' \in [Rotations -> RotationType]
        /\ rotation'[r].at = "rewrap" /\ rotation'[r].id = rotation[r].id /\ rotation'[r].refs = all
        /\ \A q \in Rotations \ {r} : rotation'[q].at = "off"
    BY <2>3, <2>4 DEF SecretInv, SecretTypeOK, OneRotation, RotationType
  <2>6. SecretTypeOK'
    BY <1>2, <2>5 DEF SecretInv, SecretTypeOK
  <2>7. OneEnvelope' /\ OneRotation' /\ NewKeyIsSaved' /\ PaperIsActive'
    BY <2>5 DEF SecretInv, OneEnvelope, OneRotation, NewKeyIsSaved, PaperIsActive
  <2>8. CalmCells'
    BY DEF SecretInv, CalmCells, Opens
  <2>9. Listed'
    <3>1. \A x \in all : x.cell \in Cells /\ \A e \in cell[x.cell] : e = x.sealed
      BY <2>1 DEF SecretInv, OneEnvelope, Ref
    <3>2. \A x, y \in all : x.cell = y.cell => x = y
      BY <2>1, <3>1 DEF Ref
    <3>3. QED BY <2>2, <2>5, <3>1, <3>2 DEF SecretInv, SecretTypeOK, Listed
  <2>10. QED BY <2>6, <2>7, <2>8, <2>9, NoneCalm DEF SecretInv
<1>3. QED BY <1>1, <1>2

LEMMA UpdateSealedInv ==
    ASSUME SecretInv, NEW r \in Rotations, NEW x \in rotation[r].refs, UpdateSealed(r, x) PROVE SecretInv'
<1> DEFINE next == Rewrapped(ring, x.sealed)
           failed == rotation'[r].failed
<1>1. rotation[r] \in RotationType /\ rotation[r].at = "rewrap" /\ x \in Ref /\ x.cell \in Cells /\ x.sealed \in Envelope
  BY DEF SecretInv, SecretTypeOK, UpdateSealed, RotationType, Ref
<1>2. /\ next \subseteq Envelope /\ (\A f, g \in next : f = g)
      /\ Unwraps(ring, x.sealed) => next # {}
      /\ Unwraps(ring, x.sealed) =>
            \A f \in next : UnderActive(ring, f) /\ f.value = x.sealed.value /\ f.context = x.sealed.context
  BY <1>1, RewrapOK DEF SecretInv, SecretTypeOK
<1>3. /\ \/ next = {} /\ rotation' = [rotation EXCEPT ![r].refs = @ \ {x}, ![r].failed = TRUE] /\ UNCHANGED <<cell, smix>>
         \/ /\ next # {} /\ rotation' = [rotation EXCEPT ![r].refs = @ \ {x}]
            /\ cell' = IF next = {x.sealed} \/ cell[x.cell] = {} THEN cell ELSE [cell EXCEPT ![x.cell] = next]
            /\ UNCHANGED smix
         \/ /\ SMay("update")
            /\ rotation' = [rotation EXCEPT ![r].refs = @ \ {x}, ![r].failed = TRUE] /\ UNCHANGED cell
      /\ UNCHANGED <<ring, keyfile, meant, calm, writer, paper, keys>>
  BY DEF UpdateSealed, Rewrapped
<1> HIDE DEF next
<1>4. /\ rotation' \in [Rotations -> RotationType] /\ \A q \in Rotations \ {r} : rotation'[q].at = "off"
      /\ rotation'[r].at = "rewrap" /\ rotation'[r].id = rotation[r].id /\ rotation'[r].refs = rotation[r].refs \ {x}
      /\ rotation[r].failed => failed
  <2>1. \A q \in Rotations \ {r} : rotation[q].at = "off"
    BY <1>1 DEF SecretInv, OneRotation
  <2>2. rotation \in [Rotations -> RotationType] /\ (rotation[r].refs \ {x}) \subseteq Ref
    BY <1>1 DEF SecretInv, SecretTypeOK, RotationType
  <2>3. CASE rotation' = [rotation EXCEPT ![r].refs = @ \ {x}, ![r].failed = TRUE]
    BY <1>1, <2>1, <2>2, <2>3 DEF RotationType
  <2>4. CASE rotation' = [rotation EXCEPT ![r].refs = @ \ {x}]
    BY <1>1, <2>1, <2>2, <2>4 DEF RotationType
  <2>5. QED BY <1>3, <2>3, <2>4
<1>5. smix' \in MixType
  BY <1>3, MixSpent DEF SecretInv, SecretTypeOK
\* The cell as the action leaves it: as it was, or with the envelope rewrapped.
<1>6. \/ cell' = cell
      \/ next # {} /\ cell[x.cell] # {} /\ cell' = [cell EXCEPT ![x.cell] = next]
  BY <1>3
<1>7. SecretTypeOK'
  BY <1>2, <1>3, <1>4, <1>5, <1>6 DEF SecretInv, SecretTypeOK
<1>8. OneEnvelope'
  BY <1>1, <1>2, <1>3, <1>6 DEF SecretInv, SecretTypeOK, OneEnvelope
<1>9. OneRotation' /\ NewKeyIsSaved' /\ PaperIsActive'
  BY <1>1, <1>3, <1>4 DEF SecretInv, OneRotation, NewKeyIsSaved, PaperIsActive
<1>10. keyfile = ring /\ RingOK(ring, keys) /\ \A p \in paper : p.key # keys
  BY <1>1 DEF SecretInv, SecretTypeOK, NewKeyIsSaved
\* The envelope of a calm cell that was listed is the listed one, and opens.
<1>11. x.cell \in calm => \A e \in cell[x.cell] : e = x.sealed /\ Opens(e, x.cell, e.value) /\ meant[x.cell] = {e.value}
  BY <1>1 DEF SecretInv, Listed, CalmCells
<1>12. CalmCells'
  <2>1. SUFFICES ASSUME NEW c \in calm, NEW e \in cell'[c]
                 PROVE  Opens(e, c, e.value) /\ meant[c] = {e.value}
    BY <1>3 DEF CalmCells, Opens
  <2>2. CASE e \in cell[c]
    BY <2>2 DEF SecretInv, CalmCells
  <2>3. CASE e \notin cell[c]
    <3>1. c = x.cell /\ e \in next /\ cell[x.cell] # {}
      BY <1>1, <1>6, <2>1, <2>3 DEF SecretInv, SecretTypeOK
    <3>2. PICK d \in cell[x.cell] : TRUE
      BY <3>1
    <3>3. d = x.sealed /\ Opens(d, c, d.value) /\ meant[c] = {d.value}
      BY <1>11, <2>1, <3>1, <3>2
    <3>4. UnderActive(ring, e) /\ e.value = d.value /\ e.context = d.context
      BY <1>2, <3>1, <3>3 DEF Opens
    <3>5. Unwraps(ring, e)
      BY <1>10, <3>4, ActiveUnwraps
    <3>6. QED BY <1>10, <3>3, <3>4, <3>5 DEF Opens
  <2>4. QED BY <2>2, <2>3
<1>13. Listed'
  <2>1. \A y \in rotation'[r].refs : y \in rotation[r].refs /\ y.cell # x.cell /\ y.cell \in Cells
    BY <1>1, <1>4 DEF SecretInv, Listed, RotationType, Ref
  <2>2. \A c \in Cells : c # x.cell => cell'[c] = cell[c]
    BY <1>6 DEF SecretInv, SecretTypeOK
  <2>3. ASSUME NEW c \in calm, NEW e \in cell'[c]
        PROVE  failed \/ UnderActive(ring, e) \/ \E y \in rotation'[r].refs : y.cell = c
    <3>1. c \in Cells
      BY <2>3 DEF SecretInv, SecretTypeOK
    <3>2. CASE c # x.cell
      <4>1. e \in cell[c]
        BY <2>2, <2>3, <3>1, <3>2
      <4>2. rotation[r].failed \/ UnderActive(ring, e) \/ \E y \in rotation[r].refs : y.cell = c
        BY <1>1, <2>3, <4>1 DEF SecretInv, Listed
      <4>3. QED BY <1>4, <3>2, <4>2
    <3>3. CASE c = x.cell
      <4>1. CASE failed
        BY <4>1
      <4>2. CASE ~failed
        <5>1. next # {} /\ cell' = IF next = {x.sealed} \/ cell[x.cell] = {} THEN cell ELSE [cell EXCEPT ![x.cell] = next]
          <6>1. ~(rotation' = [rotation EXCEPT ![r].refs = @ \ {x}, ![r].failed = TRUE])
            BY <1>1, <4>2 DEF SecretInv, SecretTypeOK, RotationType
          <6>2. QED BY <1>3, <6>1
        <5>2. cell[x.cell] # {}
          BY <1>1, <2>3, <3>3, <5>1 DEF SecretInv, SecretTypeOK
        <5>3. PICK d \in cell[x.cell] : TRUE
          BY <5>2
        <5>4. d = x.sealed /\ Unwraps(ring, x.sealed)
          BY <1>11, <2>3, <3>3, <5>3 DEF Opens
        <5>5. e \in next
          BY <1>1, <1>11, <2>3, <3>3, <5>1, <5>2 DEF SecretInv, SecretTypeOK
        <5>6. QED BY <1>2, <5>4, <5>5
      <4>3. QED BY <4>1, <4>2
    <3>4. QED BY <3>2, <3>3
  <2>4. \A y \in rotation'[r].refs : y.cell \in calm => \A e \in cell'[y.cell] : e = y.sealed
    BY <1>1, <2>1, <2>2 DEF SecretInv, Listed
  <2>5. \A y, z \in rotation'[r].refs : y.cell = z.cell => y = z
    BY <1>1, <2>1 DEF SecretInv, Listed
  <2>6. QED BY <1>3, <1>4, <2>3, <2>4, <2>5 DEF Listed
<1>14. CalmWriters'
  BY <1>1, <1>3, NoneCalm
<1>15. QED BY <1>7, <1>8, <1>9, <1>12, <1>13, <1>14 DEF SecretInv

LEMMA DropRetiredInv == ASSUME SecretInv, NEW r \in Rotations, DropRetired(r) PROVE SecretInv'
<1>1. rotation[r].at = "rewrap" /\ rotation[r].refs = {} /\ UNCHANGED <<keyfile, cell, meant, calm, writer, keys, smix>>
  BY DEF DropRetired
<1>2. CASE rotation[r].failed
  <2>1. rotation' = [rotation EXCEPT ![r] = NoRotation] /\ paper' = {} /\ UNCHANGED ring
    BY <1>2 DEF DropRetired
  <2>2. smix' \in MixType /\ paper' \subseteq paper
    BY <1>1, <2>1 DEF SecretInv, SecretTypeOK
  <2>3. QED BY <1>1, <2>1, <2>2, RotationEnds
<1>3. CASE ~rotation[r].failed
  <2>1. /\ ring' = DropKeys(ring, rotation[r].id) /\ paper' = {RecoveryKey(ring)}
        /\ rotation' = [rotation EXCEPT ![r].at = "drop"]
    BY <1>3 DEF DropRetired
  <2>2. rotation[r].id = ring.active /\ keyfile = ring /\ RingOK(ring, keys) /\ keys \in Nat
    BY <1>1 DEF SecretInv, SecretTypeOK, NewKeyIsSaved
  <2>3. RingOK(ring', keys) /\ ring'.active = ring.active /\ ring'.keys[ring.active] = ring.keys[ring.active]
    BY <2>1, <2>2, DropKeysOK
  <2>4. /\ RecoveryKey(ring) \in [id : Nat, key : Nat] /\ RecoveryKey(ring).id = ring.active
        /\ RecoveryKey(ring).key = ring.keys[ring.active] /\ ring.keys[ring.active] <= keys
    <3>1. ring.active \in Nat /\ ring.keys[ring.active] \in 1..keys
      BY <2>2 DEF RingOK
    <3>2. QED BY <2>2, <3>1 DEF RecoveryKey
  <2>5. /\ rotation' \in [Rotations -> RotationType] /\ rotation'[r].at = "drop"
        /\ \A q \in Rotations \ {r} : rotation'[q].at = "off"
    BY <1>1, <2>1 DEF SecretInv, SecretTypeOK, OneRotation, RotationType
  <2>6. SecretTypeOK'
    BY <1>1, <2>1, <2>2, <2>3, <2>4, <2>5 DEF SecretInv, SecretTypeOK
  <2>7. OneEnvelope' /\ OneRotation' /\ NewKeyIsSaved' /\ Listed'
    BY <1>1, <2>5 DEF SecretInv, OneEnvelope, OneRotation, NewKeyIsSaved, Listed
  <2>8. PaperIsActive'
    BY <1>1, <2>1, <2>2, <2>3, <2>4 DEF PaperIsActive, UnderActive
  <2>9. CalmCells'
    <3>1. SUFFICES ASSUME NEW c \in calm, NEW e \in cell[c]
                   PROVE  Opens(e, c, e.value)' /\ meant[c] = {e.value}
      BY <1>1 DEF CalmCells
    <3>2. UnderActive(ring, e)
      BY <1>1, <1>3, <3>1 DEF SecretInv, Listed
    <3>3. Opens(e, c, e.value) /\ meant[c] = {e.value}
      BY <3>1 DEF SecretInv, CalmCells
    <3>4. UnderActive(ring', e)
      BY <2>3, <3>2 DEF UnderActive
    <3>5. Unwraps(ring', e)
      BY <2>3, <3>4, ActiveUnwraps
    <3>6. \A p \in paper' : e.id = p.id /\ e.key = p.key
      BY <2>1, <2>4, <3>2 DEF UnderActive
    <3>7. QED BY <1>1, <3>3, <3>5, <3>6 DEF Opens
  <2>10. CalmWriters'
    BY <1>1, NoneCalm
  <2>11. QED BY <2>6, <2>7, <2>8, <2>9, <2>10 DEF SecretInv
<1>4. QED BY <1>2, <1>3

LEMMA SaveDroppedInv == ASSUME SecretInv, NEW r \in Rotations, SaveDropped(r) PROVE SecretInv'
<1>1. CASE UNCHANGED keyfile
  <2>1. smix' \in MixType
    BY MixSpent DEF SecretInv, SecretTypeOK, SaveDropped
  <2>2. QED BY <1>1, <2>1, RotationEnds DEF SaveDropped
<1>2. CASE keyfile' = ring /\ UNCHANGED smix
  <2>1. UNCHANGED <<ring, cell, meant, calm, writer, paper, keys>> /\ rotation[r].at = "drop"
    BY DEF SaveDropped
  <2>2. rotation' \in [Rotations -> RotationType] /\ \A q \in Rotations : rotation'[q].at = "off"
    BY DEF SaveDropped, SecretInv, SecretTypeOK, OneRotation, NoRotation, RotationType
  <2>3. SecretTypeOK'
    BY <1>2, <2>1, <2>2 DEF SecretInv, SecretTypeOK
  <2>4. OneEnvelope' /\ OneRotation' /\ NewKeyIsSaved' /\ PaperIsActive' /\ Listed'
    BY <1>2, <2>1, <2>2 DEF SecretInv, OneEnvelope, OneRotation, NewKeyIsSaved, PaperIsActive, Listed
  <2>5. CalmCells'
    BY <1>2, <2>1 DEF SecretInv, CalmCells, Opens
  <2>6. CalmWriters'
    BY <2>1, NoneCalm
  <2>7. QED BY <2>3, <2>4, <2>5, <2>6 DEF SecretInv
<1>3. QED BY <1>1, <1>2 DEF SaveDropped

LEMMA LoadKeyringInv == ASSUME SecretInv, LoadKeyring PROVE SecretInv'
<1>1. smix' \in MixType
  BY MixSpent DEF SecretInv, SecretTypeOK, LoadKeyring
<1>2. ring' = keyfile /\ UNCHANGED <<keyfile, cell, meant, calm, paper, keys>>
  BY DEF LoadKeyring
<1>3. rotation' \in [Rotations -> RotationType] /\ \A q \in Rotations : rotation'[q].at = "off"
  BY DEF LoadKeyring, NoRotation, RotationType
<1>4. writer' \in [Writers -> Write \cup {Off}] /\ \A w \in Writers : writer'[w].at = "off"
  BY DEF LoadKeyring, Off
<1>5. SecretTypeOK'
  BY <1>1, <1>2, <1>3, <1>4 DEF SecretInv, SecretTypeOK
<1>6. OneEnvelope' /\ OneRotation' /\ NewKeyIsSaved' /\ PaperIsActive' /\ Listed'
  BY <1>2, <1>3 DEF SecretInv, OneEnvelope, OneRotation, NewKeyIsSaved, PaperIsActive, Listed
<1>7. CalmCells' /\ CalmWriters'
  BY <1>2, <1>4 DEF SecretInv, CalmCells, CalmWriters, Opens
<1>8. QED BY <1>5, <1>6, <1>7 DEF SecretInv

LEMMA SecretNextInv == SecretInv /\ [SecretNext]_secretVars => SecretInv'
<1> SUFFICES ASSUME SecretInv, [SecretNext]_secretVars PROVE SecretInv'
  OBVIOUS
<1>1. CASE LoadKeyring
  BY <1>1, LoadKeyringInv
<1>2. CASE \E c \in Cells : DeleteRow(c) \/ \E w \in Writers : SealValue(w, c) \/ ReadRow(w, c)
  BY <1>2, DeleteRowInv, SealValueInv, ReadRowInv
<1>3. CASE \E w \in Writers : WriteRow(w)
  BY <1>3, WriteRowInv
<1>4. CASE \E r \in Rotations : \/ BeginRotation(r) \/ SaveNewKey(r) \/ ListSealedSecrets(r)
                                \/ DropRetired(r) \/ SaveDropped(r)
                                \/ \E ref \in rotation[r].refs : UpdateSealed(r, ref)
  BY <1>4, BeginRotationInv, SaveNewKeyInv, ListSealedSecretsInv, DropRetiredInv, SaveDroppedInv, UpdateSealedInv
<1>5. CASE UNCHANGED secretVars
  <2> USE <1>5 DEF secretVars
  <2>1. SecretTypeOK' /\ OneEnvelope' /\ OneRotation' /\ NewKeyIsSaved' /\ PaperIsActive'
    BY DEF SecretInv, SecretTypeOK, OneEnvelope, OneRotation, NewKeyIsSaved, PaperIsActive
  <2>2. CalmCells' /\ CalmWriters' /\ Listed'
    BY DEF SecretInv, CalmCells, CalmWriters, Listed, Opens, Rotating
  <2>3. QED BY <2>1, <2>2 DEF SecretInv
<1>6. QED BY <1>1, <1>2, <1>3, <1>4, <1>5 DEF SecretNext

\* With one rotation at a time - and any number of them, of writes, of failed steps and of stops of
\* the process - every secret nobody wrote meanwhile opens: with the keys in memory, with those
\* in the file, and with the recovery key the last rotation handed out.
THEOREM CalmSecretsOpenAlways ==
    ASSUME \A x \in SecretMixes : "overlap" \notin x.kinds
    PROVE  SecretSpec => []CalmSecretsOpen
<1>1. SecretInv => CalmSecretsOpen
  <2>1. SUFFICES ASSUME SecretInv, NEW c \in calm, NEW e \in cell[c]
                 PROVE  /\ OpenEnvelope(ring, e, c) = meant[c] /\ OpenEnvelope(keyfile, e, c) = meant[c]
                        /\ \A p \in paper : p.key = keys => OpenEnvelope(ParseRecoveryKey(p), e, c) = meant[c]
    BY DEF CalmSecretsOpen
  <2>2. Opens(e, c, e.value) /\ meant[c] = {e.value}
    BY <2>1 DEF SecretInv, CalmCells
  <2>3. ASSUME NEW p \in paper, p.key = keys PROVE OpenEnvelope(ParseRecoveryKey(p), e, c) = meant[c]
    <3>1. e.id = p.id /\ e.key = p.key
      BY <2>2, <2>3 DEF Opens
    <3>2. Unwraps(ParseRecoveryKey(p), e)
      BY <3>1 DEF Unwraps, KeyIds, ParseRecoveryKey, NewKeyring
    <3>3. QED BY <2>2, <3>2 DEF OpenEnvelope, Opens
  <2>4. QED BY <2>2, <2>3 DEF OpenEnvelope, Opens
<1>2. SecretInit => SecretInv
  BY SecretInitInv
<1>3. QED
  BY <1>1, <1>2, SecretNextInv, PTL DEF SecretSpec

(***************************************************************************)
(* The add-ons and the rows.                                               *)
(***************************************************************************)
Shape(x) == x = [at |-> x.at, kind |-> x.kind, name |-> x.name, app |-> x.app, gone |-> x.gone, alone |-> x.alone,
                 config |-> x.config, token |-> x.token]

\* What a request is at is something its kind does.
Stage(x) ==
    \/ x.at = "off"
    \/ x.kind = "install" /\ x.name \in Comps /\ x.at \in {"lock", "read", "objects", "wait", "record", "failed"}
    \/ x.kind = "install" /\ x.name = "firewall" /\ x.at = "middlewares"
    \/ x.kind = "rules" /\ x.app \in FApps /\ x.at \in {"status", "file", "middlewares", "sync"}
    \/ x.kind = "domain" /\ x.app \in FApps /\ x.at = "sync"
    \/ x.kind = "token" /\ x.at \in {"tunnel", "connectors", "removed"}

EdgeShape ==
    /\ freq = [r \in FRequests |-> freq[r]] /\ \A r \in FRequests : Shape(freq[r]) /\ Stage(freq[r])
    /\ frow = [a \in FApps |-> frow[a]] /\ hosts = [a \in FApps |-> hosts[a]]
    /\ comp = [c \in Comps |-> comp[c]] /\ ingress = [a \in FApps |-> ingress[a]]

\* A request that is alone is the only one.
AloneIsAlone ==
    \A r, q \in FRequests : freq[r].at # "off" /\ freq[r].alone /\ freq[q].at # "off" => q = r

FileIsRight == \A c \in cmap : c.sets = ProtectedHostnames
SetsAreRight(config) == \A c \in config : c.sets = ProtectedHostnames
FirewallIsRight == FileIsRight /\ ProtectedNamespaces \subseteq middle \cup missed
TunnelIsRight ==
    /\ comp["tunnel"] = "installed" => connectors = {token} /\ token # ""
    /\ comp["tunnel"] = "removed" => connectors = {}

\* How far a request that is alone has brought the cluster.
Brought(x) ==
    /\ x.kind = "install" /\ x.at # "lock" => comp[x.name] = "installing"
    /\ x.kind = "install" /\ x.name = "firewall" =>
         /\ x.at = "objects" => SetsAreRight(x.config)
         /\ x.at \in {"wait", "middlewares", "record"} => FileIsRight
         /\ x.at = "record" => FirewallIsRight
    /\ x.kind = "install" /\ x.name = "tunnel" =>
         /\ x.at = "objects" => x.token = token /\ token # ""
         /\ x.at \in {"wait", "record"} => connectors = {token} /\ token # ""
    /\ x.kind = "rules" =>
         /\ x.at = "file" => SetsAreRight(x.config)
         /\ x.at = "middlewares" => FileIsRight
         /\ x.at = "sync" /\ comp["firewall"] = "installed" => FirewallIsRight
    /\ x.kind = "token" =>
         /\ x.at = "connectors" => comp["tunnel"] = "installed" /\ x.token = token
         /\ x.at = "removed" => connectors = {}

AloneBrings == \A r \in FRequests : freq[r].at # "off" /\ freq[r].alone => Brought(freq[r])

\* Requests that write what the guards or the connectors live on.
Guarding(r) == freq[r].at # "off" /\ (freq[r].kind = "rules" \/ (freq[r].kind = "install" /\ freq[r].name = "firewall"))
Tunnelling(r) == freq[r].at # "off" /\ (freq[r].kind = "token" \/ (freq[r].kind = "install" /\ freq[r].name = "tunnel"))

NobodyWrites ==
    /\ "firewall" \in inStep => \A r \in FRequests : ~Guarding(r)
    /\ "tunnel" \in inStep => \A r \in FRequests : ~Tunnelling(r)

Follows(a) == ingress[a] = [hosts |-> hosts[a], protected |-> Enabled(a)]
StepsAreKept ==
    /\ "firewall" \in inStep /\ comp["firewall"] = "installed" => FirewallIsRight
    /\ \A a \in FApps \cap inStep : Follows(a)
    /\ "tunnel" \in inStep => TunnelIsRight

EdgeInv == EdgeShape /\ AloneIsAlone /\ AloneBrings /\ NobodyWrites /\ StepsAreKept

LEMMA EdgeStart == EdgeInit => EdgeInv
<1> SUFFICES ASSUME EdgeInit PROVE EdgeInv
  OBVIOUS
<1>1. EdgeShape
  BY EdgeAssumption DEF EdgeInit, EdgeShape, Shape, Stage, NoFReq, FReq
<1>2. inStep = {} /\ \A r \in FRequests : freq[r].at = "off"
  BY DEF EdgeInit, NoFReq, FReq
<1>3. QED BY <1>1, <1>2 DEF EdgeInv, AloneIsAlone, AloneBrings, NobodyWrites, StepsAreKept

LEMMA RowsGiveTheSame ==
    ASSUME UNCHANGED <<frow, hosts>>
    PROVE  ProtectedHostnames' = ProtectedHostnames /\ ProtectedNamespaces' = ProtectedNamespaces /\ \A a \in FApps : Enabled(a)' = Enabled(a)
BY DEF ProtectedHostnames, ProtectedNamespaces, Enabled

\* Of a step of a request under way: the others stay, and it keeps what it is about or is over.
Moves(r) ==
    /\ freq' = [q \in FRequests |-> freq'[q]] /\ \A q \in FRequests : q # r => freq'[q] = freq[q]
    /\ Shape(freq'[r]) /\ Stage(freq'[r])
    /\ freq'[r].at # "off" => /\ freq'[r].kind = freq[r].kind /\ freq'[r].name = freq[r].name
                              /\ freq'[r].app = freq[r].app /\ freq'[r].alone = freq[r].alone

LEMMA GoesMoves ==
    ASSUME EdgeShape, NEW r \in FRequests, NEW v, FGoes(r, v), Stage([freq[r] EXCEPT !.at = v])
    PROVE  Moves(r) /\ freq'[r].at = v /\ freq'[r].token = freq[r].token /\ freq'[r].config = freq[r].config
           /\ freq'[r].gone = freq[r].gone /\ freq'[r].kind = freq[r].kind /\ freq'[r].name = freq[r].name
<1>1. /\ freq' = [q \in FRequests |-> freq'[q]] /\ \A q \in FRequests : q # r => freq'[q] = freq[q]
      /\ freq'[r] = [freq[r] EXCEPT !.at = v]
  BY DEF EdgeShape, FGoes
<1>2. freq'[r] = [at |-> v, kind |-> freq[r].kind, name |-> freq[r].name, app |-> freq[r].app, gone |-> freq[r].gone,
                  alone |-> freq[r].alone, config |-> freq[r].config, token |-> freq[r].token]
  BY <1>1 DEF EdgeShape, Shape
<1>3. Shape(freq'[r])
  BY <1>2 DEF Shape
<1>4. Stage(freq'[r])
  BY <1>1
<1>5. QED BY <1>1, <1>2, <1>3, <1>4 DEF Moves

LEMMA EndMoves ==
    ASSUME EdgeShape, NEW r \in FRequests, FEnds(r) PROVE Moves(r) /\ freq'[r].at = "off"
<1>1. /\ freq' = [q \in FRequests |-> freq'[q]] /\ \A q \in FRequests : q # r => freq'[q] = freq[q]
      /\ freq'[r] = NoFReq
  BY DEF EdgeShape, FEnds
<1>2. Shape(NoFReq) /\ NoFReq.at = "off"
  BY DEF Shape, NoFReq, FReq
<1>3. QED BY <1>1, <1>2 DEF Moves, Stage

\* A request that has read something.
LEMMA ReadFields ==
    ASSUME EdgeShape, NEW r \in FRequests
    PROVE  /\ DOMAIN freq[r] = {"at", "kind", "name", "app", "gone", "alone", "config", "token"}
           /\ freq[r] = [f \in DOMAIN freq[r] |-> freq[r][f]]
<1>1. freq[r] = [at |-> freq[r].at, kind |-> freq[r].kind, name |-> freq[r].name, app |-> freq[r].app,
                 gone |-> freq[r].gone, alone |-> freq[r].alone, config |-> freq[r].config, token |-> freq[r].token]
  BY DEF EdgeShape, Shape
<1>2. QED BY <1>1

LEMMA FileReadMoves ==
    ASSUME EdgeShape, NEW r \in FRequests, NEW v, NEW config, Stage([freq[r] EXCEPT !.at = v]),
           freq' = [freq EXCEPT ![r].at = v, ![r].config = config]
    PROVE  Moves(r) /\ freq'[r].at = v /\ freq'[r].config = config
           /\ freq'[r].kind = freq[r].kind /\ freq'[r].name = freq[r].name
<1>1. /\ freq' = [q \in FRequests |-> freq'[q]] /\ \A q \in FRequests : q # r => freq'[q] = freq[q]
  BY DEF EdgeShape
<1>a. freq'[r] = [freq[r] EXCEPT !.at = v, !.config = config]
  BY DEF EdgeShape
<1>2. freq'[r] = [f \in DOMAIN freq[r] |-> IF f = "config" THEN config ELSE IF f = "at" THEN v ELSE freq[r][f]]
  BY <1>a, ReadFields
<1>3. freq'[r] = [at |-> v, kind |-> freq[r].kind, name |-> freq[r].name, app |-> freq[r].app, gone |-> freq[r].gone,
                 alone |-> freq[r].alone, config |-> config, token |-> freq[r].token]
  <2>1. DOMAIN freq[r] = {"at", "kind", "name", "app", "gone", "alone", "config", "token"}
    BY ReadFields
  <2>2. QED BY <1>2, <2>1
<1>4. Shape(freq'[r])
  BY <1>3 DEF Shape
<1>5. Stage(freq'[r])
  BY <1>3 DEF Stage, EdgeShape, Shape
<1>6. /\ freq'[r].at = v /\ freq'[r].kind = freq[r].kind /\ freq'[r].name = freq[r].name /\ freq'[r].app = freq[r].app
      /\ freq'[r].alone = freq[r].alone
  BY <1>3
<1>7. QED BY <1>1, <1>3, <1>4, <1>5, <1>6 DEF Moves

LEMMA TokenReadMoves ==
    ASSUME EdgeShape, NEW r \in FRequests, NEW v, NEW t, Stage([freq[r] EXCEPT !.at = v]),
           freq' = [freq EXCEPT ![r].at = v, ![r].token = t]
    PROVE  Moves(r) /\ freq'[r].at = v /\ freq'[r].token = t
           /\ freq'[r].kind = freq[r].kind /\ freq'[r].name = freq[r].name
<1>1. /\ freq' = [q \in FRequests |-> freq'[q]] /\ \A q \in FRequests : q # r => freq'[q] = freq[q]
  BY DEF EdgeShape
<1>a. freq'[r] = [freq[r] EXCEPT !.at = v, !.token = t]
  BY DEF EdgeShape
<1>2. freq'[r] = [f \in DOMAIN freq[r] |-> IF f = "token" THEN t ELSE IF f = "at" THEN v ELSE freq[r][f]]
  BY <1>a, ReadFields
<1>3. freq'[r] = [at |-> v, kind |-> freq[r].kind, name |-> freq[r].name, app |-> freq[r].app, gone |-> freq[r].gone,
                 alone |-> freq[r].alone, config |-> freq[r].config, token |-> t]
  <2>1. DOMAIN freq[r] = {"at", "kind", "name", "app", "gone", "alone", "config", "token"}
    BY ReadFields
  <2>2. QED BY <1>2, <2>1
<1>4. Shape(freq'[r])
  BY <1>3 DEF Shape
<1>5. Stage(freq'[r])
  BY <1>3 DEF Stage, EdgeShape, Shape
<1>6. /\ freq'[r].at = v /\ freq'[r].kind = freq[r].kind /\ freq'[r].name = freq[r].name /\ freq'[r].app = freq[r].app
      /\ freq'[r].alone = freq[r].alone
  BY <1>3
<1>7. QED BY <1>1, <1>3, <1>4, <1>5, <1>6 DEF Moves

\* A step of a request under way leaves the others as they were, and one that is over is the last
\* if it was alone.
LEMMA MoveKeeps ==
    ASSUME EdgeInv, NEW r \in FRequests, freq[r].at # "off", Moves(r), UNCHANGED <<frow, hosts>>,
           comp' = [c \in Comps |-> comp'[c]], ingress' = [a \in FApps |-> ingress'[a]],
           freq[r].alone /\ freq'[r].at # "off" => Brought(freq[r])',
           inStep' \subseteq inStep \/ (freq[r].alone /\ freq'[r].at = "off")
    PROVE  EdgeShape' /\ AloneIsAlone' /\ AloneBrings' /\ NobodyWrites'
<1>1. EdgeShape'
  BY DEF EdgeInv, EdgeShape, Moves
<1>2. \A q \in FRequests : q # r => freq'[q] = freq[q] /\ (freq[q].at # "off" => ~freq[q].alone)
  BY DEF EdgeInv, AloneIsAlone, Moves
<1>3. freq[r].alone => \A q \in FRequests : q # r => freq[q].at = "off"
  BY DEF EdgeInv, AloneIsAlone
<1>4. AloneIsAlone'
  <2>1. ASSUME NEW q \in FRequests, freq'[q].at # "off", freq'[q].alone PROVE q = r /\ freq[r].alone
    BY <1>2, <2>1 DEF Moves
  <2>2. QED BY <1>2, <1>3, <2>1 DEF AloneIsAlone
<1>5. AloneBrings'
  <2>1. ASSUME NEW q \in FRequests, freq'[q].at # "off", freq'[q].alone PROVE Brought(freq[q])'
    <3>1. q = r
      BY <1>2, <2>1
    <3>2. freq[r].alone /\ freq'[r].at # "off"
      BY <2>1, <3>1 DEF Moves
    <3>3. Brought(freq[r])'
      BY <3>2
    <3>4. QED BY <3>1, <3>3
  <2>2. QED BY <2>1 DEF AloneBrings
<1>6. ASSUME inStep' \subseteq inStep PROVE NobodyWrites'
  <2>1. ASSUME NEW q \in FRequests, Guarding(q)' PROVE Guarding(q)
    BY <1>2, <2>1 DEF Moves, Guarding
  <2>2. ASSUME NEW q \in FRequests, Tunnelling(q)' PROVE Tunnelling(q)
    BY <1>2, <2>2 DEF Moves, Tunnelling
  <2>3. /\ "firewall" \in inStep => \A q \in FRequests : ~Guarding(q)
        /\ "tunnel" \in inStep => \A q \in FRequests : ~Tunnelling(q)
    BY DEF EdgeInv, NobodyWrites
  <2>4. QED BY <1>6, <2>1, <2>2, <2>3 DEF NobodyWrites
<1>7. ASSUME freq[r].alone, freq'[r].at = "off" PROVE NobodyWrites'
  <2>1. ASSUME NEW q \in FRequests PROVE freq'[q].at = "off"
    BY <1>2, <1>3, <1>7
  <2>2. QED BY <2>1 DEF NobodyWrites, Guarding, Tunnelling
<1>8. QED BY <1>1, <1>4, <1>5, <1>6, <1>7

LEMMA StepsStay ==
    ASSUME EdgeInv, UNCHANGED <<frow, hosts, comp, token, cmap, middle, missed, ingress, connectors>>, inStep' \subseteq inStep
    PROVE  StepsAreKept'
<1>1. ProtectedHostnames' = ProtectedHostnames /\ ProtectedNamespaces' = ProtectedNamespaces /\ \A a \in FApps : Enabled(a)' = Enabled(a)
  BY RowsGiveTheSame
<1>2. (FirewallIsRight <=> FirewallIsRight') /\ (TunnelIsRight <=> TunnelIsRight')
  BY <1>1 DEF FirewallIsRight, FileIsRight, TunnelIsRight
<1>3. \A a \in FApps : Follows(a) <=> Follows(a)'
  BY <1>1 DEF Follows
<1>4. QED BY <1>2, <1>3 DEF EdgeInv, StepsAreKept

LEMMA RequestFacts ==
    ASSUME EdgeInv, NEW r \in FRequests
    PROVE  EdgeShape /\ Shape(freq[r]) /\ Stage(freq[r]) /\ (freq[r].at # "off" /\ freq[r].alone => Brought(freq[r]))
BY DEF EdgeInv, EdgeShape, AloneBrings

LEMMA LockKeeps == ASSUME EdgeInv, NEW r \in FRequests, InstallComponent(r) PROVE EdgeInv'
<1>1. /\ freq[r].at = "lock" /\ freq[r].kind = "install" /\ freq[r].name \in Comps /\ EdgeShape
      /\ UNCHANGED <<frow, hosts, token, cmap, middle, missed, ingress, connectors, inStep>>
  BY RequestFacts DEF InstallComponent, Stage, clusterVars
<1>2. CASE FEnds(r) /\ UNCHANGED comp
  <2>1. Moves(r) /\ freq'[r].at = "off"
    BY <1>1, <1>2, EndMoves
  <2>2. comp' = [c \in Comps |-> comp'[c]] /\ ingress' = [a \in FApps |-> ingress'[a]]
    BY <1>1, <1>2 DEF EdgeShape
  <2>3. EdgeShape' /\ AloneIsAlone' /\ AloneBrings' /\ NobodyWrites'
    BY <1>1, <2>1, <2>2, MoveKeeps
  <2>4. StepsAreKept'
    BY <1>1, <1>2, StepsStay
  <2>5. QED BY <2>3, <2>4 DEF EdgeInv
<1>3. CASE comp' = [comp EXCEPT ![freq[r].name] = "installing"] /\ FGoes(r, "read")
  <2>1. Stage([freq[r] EXCEPT !.at = "read"])
    BY <1>1, RequestFacts DEF Stage, Shape
  <2>2. Moves(r) /\ freq'[r].at = "read" /\ freq'[r].kind = freq[r].kind /\ freq'[r].name = freq[r].name
    BY <1>1, <1>3, <2>1, GoesMoves
  <2>3. /\ comp' = [c \in Comps |-> comp'[c]] /\ comp'[freq[r].name] = "installing"
        /\ \A c \in Comps : c # freq[r].name => comp'[c] = comp[c]
    BY <1>1, <1>3 DEF EdgeShape
  <2>4. ingress' = [a \in FApps |-> ingress'[a]]
    BY <1>1 DEF EdgeShape
  <2>5. Brought(freq[r])'
    BY <1>1, <2>2, <2>3 DEF Brought
  <2>6. EdgeShape' /\ AloneIsAlone' /\ AloneBrings' /\ NobodyWrites'
    BY <1>1, <2>2, <2>3, <2>4, <2>5, MoveKeeps
  <2>7. /\ ProtectedHostnames' = ProtectedHostnames /\ ProtectedNamespaces' = ProtectedNamespaces
        /\ \A a \in FApps : Enabled(a)' = Enabled(a)
    BY <1>1, RowsGiveTheSame
  <2>8. StepsAreKept'
    <3>1. "firewall" \in inStep => comp'["firewall"] = comp["firewall"]
      BY <1>1, <2>3 DEF EdgeInv, NobodyWrites, Guarding, Comps
    <3>2. "tunnel" \in inStep => comp'["tunnel"] = comp["tunnel"]
      BY <1>1, <2>3 DEF EdgeInv, NobodyWrites, Tunnelling, Comps
    <3>3. FirewallIsRight <=> FirewallIsRight'
      BY <1>1, <2>7 DEF FirewallIsRight, FileIsRight
    <3>4. \A a \in FApps : Follows(a) <=> Follows(a)'
      BY <1>1, <2>7 DEF Follows
    <3>5. "tunnel" \in inStep /\ TunnelIsRight => TunnelIsRight'
      BY <1>1, <3>2 DEF TunnelIsRight
    <3>6. QED BY <1>1, <3>1, <3>3, <3>4, <3>5 DEF EdgeInv, StepsAreKept
  <2>9. QED BY <2>6, <2>8 DEF EdgeInv
<1>4. QED BY <1>2, <1>3 DEF InstallComponent

LEMMA GuardConfigSets == GuardConfig.sets = ProtectedHostnames
BY DEF GuardConfig

\* Steps that change nothing but the request.
LEMMA StillKeeps ==
    ASSUME EdgeInv, NEW r \in FRequests, freq[r].at # "off", Moves(r), UNCHANGED <<frow, hosts, comp, token, cmap, middle, missed, ingress, connectors>>,
           freq[r].alone /\ freq'[r].at # "off" => Brought(freq[r])', inStep' \subseteq inStep
    PROVE  EdgeInv'
<1>1. comp' = [c \in Comps |-> comp'[c]] /\ ingress' = [a \in FApps |-> ingress'[a]]
  BY DEF EdgeInv, EdgeShape
<1>2. QED BY <1>1, MoveKeeps, StepsStay DEF EdgeInv

LEMMA ReadKeeps == ASSUME EdgeInv, NEW r \in FRequests, InstallReads(r) PROVE EdgeInv'
<1>1. /\ freq[r].at = "read" /\ freq[r].kind = "install" /\ freq[r].name \in Comps /\ EdgeShape /\ Shape(freq[r])
      /\ UNCHANGED <<frow, hosts, comp, token, cmap, middle, missed, ingress, connectors, inStep>>
  BY RequestFacts DEF InstallReads, Stage, clusterVars, rowVars
<1>2. \A v \in {"objects", "failed"} : Stage([freq[r] EXCEPT !.at = v])
  BY <1>1 DEF Stage, Shape
<1>3. freq[r].alone => comp'[freq[r].name] = "installing"
  BY <1>1, RequestFacts DEF Brought
<1>4. ProtectedHostnames' = ProtectedHostnames /\ token' = token
  BY <1>1, RowsGiveTheSame
<1>5. CASE FGoes(r, "failed")
  <2>1. Moves(r) /\ freq'[r].at = "failed" /\ freq'[r].kind = freq[r].kind /\ freq'[r].name = freq[r].name
    BY <1>1, <1>2, <1>5, GoesMoves
  <2>2. freq[r].alone => Brought(freq[r])'
    BY <1>1, <1>3, <2>1 DEF Brought
  <2>3. QED BY <1>1, <2>1, <2>2, StillKeeps
<1>6. CASE freq[r].name = "firewall" /\ freq' = [freq EXCEPT ![r].at = "objects", ![r].config = {GuardConfig}]
  <2>1. /\ Moves(r) /\ freq'[r].at = "objects" /\ freq'[r].kind = freq[r].kind /\ freq'[r].name = freq[r].name
        /\ freq'[r].config = {GuardConfig}
    BY <1>1, <1>2, <1>6, FileReadMoves
  <2>2. freq[r].alone => Brought(freq[r])'
    BY <1>1, <1>3, <1>4, <1>6, <2>1, GuardConfigSets DEF Brought, SetsAreRight
  <2>3. QED BY <1>1, <2>1, <2>2, StillKeeps
<1>7. CASE freq[r].name = "tunnel" /\ token # "" /\ freq' = [freq EXCEPT ![r].at = "objects", ![r].token = token]
  <2>1. /\ Moves(r) /\ freq'[r].at = "objects" /\ freq'[r].kind = freq[r].kind /\ freq'[r].name = freq[r].name
        /\ freq'[r].token = token
    BY <1>1, <1>2, <1>7, TokenReadMoves
  <2>2. freq[r].alone => Brought(freq[r])'
    BY <1>1, <1>3, <1>4, <1>7, <2>1 DEF Brought
  <2>3. QED BY <1>1, <2>1, <2>2, StillKeeps
<1>8. CASE freq[r].name = "plain" /\ FGoes(r, "objects")
  <2>1. Moves(r) /\ freq'[r].at = "objects" /\ freq'[r].kind = freq[r].kind /\ freq'[r].name = freq[r].name
    BY <1>1, <1>2, <1>8, GoesMoves
  <2>2. freq[r].alone => Brought(freq[r])'
    BY <1>1, <1>3, <1>8, <2>1 DEF Brought
  <2>3. QED BY <1>1, <2>1, <2>2, StillKeeps
<1>9. QED BY <1>5, <1>6, <1>7, <1>8 DEF InstallReads

\* What a step may leave of the rows' being kept, part by part.
LEMMA FirewallStays ==
    ASSUME EdgeInv, UNCHANGED <<frow, hosts>>, "firewall" \in inStep' => "firewall" \in inStep,
           "firewall" \in inStep => cmap' = cmap /\ middle \subseteq middle' /\ missed \subseteq missed' /\ comp'["firewall"] = comp["firewall"]
    PROVE  "firewall" \in inStep' /\ comp'["firewall"] = "installed" => FirewallIsRight'
<1>1. ProtectedHostnames' = ProtectedHostnames /\ ProtectedNamespaces' = ProtectedNamespaces
  BY RowsGiveTheSame
<1>2. QED BY <1>1 DEF EdgeInv, StepsAreKept, FirewallIsRight, FileIsRight

LEMMA AppsStay ==
    ASSUME EdgeInv, UNCHANGED <<frow, hosts, ingress>>, \A a \in FApps : a \in inStep' => a \in inStep
    PROVE  \A a \in FApps \cap inStep' : Follows(a)'
<1>1. \A a \in FApps : Enabled(a)' = Enabled(a)
  BY RowsGiveTheSame
<1>2. QED BY <1>1 DEF EdgeInv, StepsAreKept, Follows

LEMMA TunnelStays ==
    ASSUME EdgeInv, "tunnel" \in inStep' => "tunnel" \in inStep,
           "tunnel" \in inStep => connectors' = connectors /\ token' = token /\ comp'["tunnel"] = comp["tunnel"]
    PROVE  "tunnel" \in inStep' => TunnelIsRight'
BY DEF EdgeInv, StepsAreKept, TunnelIsRight

LEMMA PartsMakeWhole ==
    ASSUME "firewall" \in inStep' /\ comp'["firewall"] = "installed" => FirewallIsRight',
           \A a \in FApps \cap inStep' : Follows(a)',
           "tunnel" \in inStep' => TunnelIsRight'
    PROVE  StepsAreKept'
BY DEF StepsAreKept

\* A request that is over.
LEMMA OverKeeps ==
    ASSUME EdgeInv, NEW r \in FRequests, freq[r].at # "off", FEnds(r),
           UNCHANGED <<frow, hosts, comp, token, cmap, middle, missed, ingress, connectors, inStep>>
    PROVE  EdgeInv'
<1>1. Moves(r) /\ freq'[r].at = "off"
  BY RequestFacts, EndMoves
<1>2. QED BY <1>1, StillKeeps

LEMMA AppliesKeeps == ASSUME EdgeInv, NEW r \in FRequests, InstallApplies(r) PROVE EdgeInv'
<1>1. /\ freq[r].at = "objects" /\ freq[r].kind = "install" /\ freq[r].name \in Comps /\ EdgeShape /\ Shape(freq[r])
      /\ UNCHANGED <<frow, hosts, comp, token, middle, missed, ingress, inStep>>
  BY RequestFacts DEF InstallApplies, Stage, rowVars
<1>2. \A v \in {"wait", "failed"} : Stage([freq[r] EXCEPT !.at = v])
  BY <1>1 DEF Stage, Shape
<1>3. freq[r].alone => Brought(freq[r])
  BY <1>1, RequestFacts
<1>4. /\ ProtectedHostnames' = ProtectedHostnames
      /\ comp' = [c \in Comps |-> comp'[c]] /\ ingress' = [a \in FApps |-> ingress'[a]]
  BY <1>1, RowsGiveTheSame DEF EdgeShape
<1>5. CASE /\ FGoes(r, "wait")
           /\ cmap' = IF freq[r].name = "firewall" THEN GuardObjects(freq[r].config) ELSE cmap
           /\ connectors' = IF freq[r].name = "tunnel" THEN TunnelObjects(freq[r].token) ELSE connectors
  <2>1. Moves(r) /\ freq'[r].at = "wait" /\ freq'[r].kind = freq[r].kind /\ freq'[r].name = freq[r].name
    BY <1>1, <1>2, <1>5, GoesMoves
  <2>2. ASSUME freq[r].alone PROVE Brought(freq[r])'
    <3>1. comp'[freq'[r].name] = "installing"
      BY <1>1, <1>3, <2>1, <2>2 DEF Brought
    <3>2. freq'[r].name = "firewall" => FileIsRight'
      BY <1>1, <1>3, <1>4, <1>5, <2>1, <2>2 DEF Brought, FileIsRight, SetsAreRight, GuardObjects
    <3>3. freq'[r].name = "tunnel" => connectors' = {token'} /\ token' # ""
      BY <1>1, <1>3, <1>5, <2>1, <2>2 DEF Brought, TunnelObjects
    <3>4. QED BY <1>1, <2>1, <3>1, <3>2, <3>3 DEF Brought
  <2>3. EdgeShape' /\ AloneIsAlone' /\ AloneBrings' /\ NobodyWrites'
    BY <1>1, <1>4, <2>1, <2>2, MoveKeeps
  <2>4. "firewall" \in inStep => cmap' = cmap
    BY <1>1, <1>5 DEF EdgeInv, NobodyWrites, Guarding
  <2>5. "tunnel" \in inStep => connectors' = connectors
    BY <1>1, <1>5 DEF EdgeInv, NobodyWrites, Tunnelling
  <2>6. StepsAreKept'
    BY <1>1, <2>4, <2>5, FirewallStays, AppsStay, TunnelStays, PartsMakeWhole
  <2>7. QED BY <2>3, <2>6 DEF EdgeInv
<1>6. CASE FGoes(r, "failed") /\ UNCHANGED <<cmap, connectors>>
  <2>1. Moves(r) /\ freq'[r].at = "failed" /\ freq'[r].kind = freq[r].kind /\ freq'[r].name = freq[r].name
    BY <1>1, <1>2, <1>6, GoesMoves
  <2>2. freq[r].alone => Brought(freq[r])'
    BY <1>1, <1>3, <2>1 DEF Brought
  <2>3. QED BY <1>1, <1>6, <2>1, <2>2, StillKeeps
<1>7. QED BY <1>5, <1>6 DEF InstallApplies

LEMMA WaitKeeps == ASSUME EdgeInv, NEW r \in FRequests, WaitForAddOn(r) PROVE EdgeInv'
<1>1. /\ freq[r].at = "wait" /\ freq[r].kind = "install" /\ freq[r].name \in Comps /\ EdgeShape /\ Shape(freq[r])
      /\ UNCHANGED <<frow, hosts, comp, token, cmap, middle, missed, ingress, connectors, inStep>>
  BY RequestFacts DEF WaitForAddOn, Stage, rowVars, clusterVars
<1>2. /\ \A v \in {"record", "failed"} : Stage([freq[r] EXCEPT !.at = v])
      /\ freq[r].name = "firewall" => Stage([freq[r] EXCEPT !.at = "middlewares"])
  BY <1>1 DEF Stage, Shape
<1>3. PICK v \in {"record", "middlewares", "failed"} :
        /\ FGoes(r, v)
        /\ v = "middlewares" => freq[r].name = "firewall"
        /\ v = "record" => freq[r].name # "firewall"
  BY DEF WaitForAddOn
<1>4. Moves(r) /\ freq'[r].at = v /\ freq'[r].kind = freq[r].kind /\ freq'[r].name = freq[r].name
  BY <1>1, <1>2, <1>3, GoesMoves
<1>5. freq[r].alone => Brought(freq[r])
  BY <1>1, RequestFacts
<1>6. FileIsRight' <=> FileIsRight
  BY <1>1, RowsGiveTheSame DEF FileIsRight
<1>7. freq[r].alone => Brought(freq[r])'
  BY <1>1, <1>3, <1>4, <1>5, <1>6 DEF Brought
<1>8. QED BY <1>1, <1>4, <1>7, StillKeeps

LEMMA RecordKeeps == ASSUME EdgeInv, NEW r \in FRequests, RecordInstall(r) PROVE EdgeInv'
<1>1. /\ freq[r].at \in {"record", "failed"} /\ freq[r].kind = "install" /\ freq[r].name \in Comps /\ EdgeShape
      /\ FEnds(r) /\ UNCHANGED <<frow, hosts, token, cmap, middle, missed, ingress, connectors>>
  BY RequestFacts DEF RecordInstall, Stage, clusterVars
<1>2. /\ comp' = [c \in Comps |-> comp'[c]] /\ ingress' = [a \in FApps |-> ingress'[a]]
      /\ \A c \in Comps : c # freq[r].name => comp'[c] = comp[c]
      /\ comp'[freq[r].name] \in {comp[freq[r].name], "installed", "failed"}
  BY <1>1 DEF RecordInstall, EdgeShape
<1>3. inStep' \subseteq inStep \/ (freq[r].alone /\ freq[r].at = "record" /\ inStep' = inStep \cup ({freq[r].name} \ {"plain"}))
  BY DEF RecordInstall
<1>4. Moves(r) /\ freq'[r].at = "off"
  BY <1>1, EndMoves
<1>5. EdgeShape' /\ AloneIsAlone' /\ AloneBrings' /\ NobodyWrites'
  BY <1>1, <1>2, <1>3, <1>4, MoveKeeps
<1>6. freq[r].alone => Brought(freq[r])
  BY <1>1, RequestFacts
<1>7. freq[r].name = "firewall" => "firewall" \notin inStep
  BY <1>1 DEF EdgeInv, NobodyWrites, Guarding
<1>8. freq[r].name = "tunnel" => "tunnel" \notin inStep
  BY <1>1 DEF EdgeInv, NobodyWrites, Tunnelling
<1>9. "firewall" \in inStep' /\ comp'["firewall"] = "installed" => FirewallIsRight'
  <2>1. CASE freq[r].name = "firewall"
    <3>1. "firewall" \in inStep' => FirewallIsRight
      BY <1>1, <1>3, <1>6, <1>7, <2>1 DEF Brought
    <3>2. FirewallIsRight' <=> FirewallIsRight
      BY <1>1, RowsGiveTheSame DEF FirewallIsRight, FileIsRight
    <3>3. QED BY <3>1, <3>2
  <2>2. CASE freq[r].name # "firewall"
    <3>1. "firewall" \in inStep' => "firewall" \in inStep
      BY <1>3, <2>2
    <3>2. comp'["firewall"] = comp["firewall"]
      BY <1>2, <2>2 DEF Comps
    <3>3. QED BY <1>1, <3>1, <3>2, FirewallStays
  <2>3. QED BY <2>1, <2>2
<1>10. \A a \in FApps \cap inStep' : Follows(a)'
  <2>1. \A a \in FApps : a \in inStep' => a \in inStep
    BY <1>1, <1>3, EdgeAssumption
  <2>2. QED BY <1>1, <2>1, AppsStay
<1>11. "tunnel" \in inStep' => TunnelIsRight'
  <2>1. CASE freq[r].name = "tunnel"
    <3>1. "tunnel" \in inStep' => connectors = {token} /\ token # "" /\ comp["tunnel"] = "installing"
      BY <1>1, <1>3, <1>6, <1>8, <2>1 DEF Brought
    <3>2. QED BY <1>1, <1>2, <2>1, <3>1 DEF TunnelIsRight
  <2>2. CASE freq[r].name # "tunnel"
    <3>1. "tunnel" \in inStep' => "tunnel" \in inStep
      BY <1>3, <2>2
    <3>2. comp'["tunnel"] = comp["tunnel"]
      BY <1>2, <2>2 DEF Comps
    <3>3. QED BY <1>1, <3>1, <3>2, TunnelStays
  <2>3. QED BY <2>1, <2>2
<1>12. StepsAreKept'
  BY <1>9, <1>10, <1>11, PartsMakeWhole
<1>13. QED BY <1>5, <1>12 DEF EdgeInv

LEMMA GoneKeeps == ASSUME EdgeInv, NEW r \in FRequests, BrowserGoes(r) PROVE EdgeInv'
<1>1. /\ freq[r].at # "off" /\ freq[r].kind = "install" /\ EdgeShape /\ Stage(freq[r])
      /\ freq' = [freq EXCEPT ![r].gone = TRUE]
      /\ UNCHANGED <<frow, hosts, comp, token, cmap, middle, missed, ingress, connectors, inStep>>
  BY RequestFacts DEF BrowserGoes, rowVars, clusterVars
<1>2. /\ freq' = [q \in FRequests |-> freq'[q]] /\ \A q \in FRequests : q # r => freq'[q] = freq[q]
      /\ freq'[r] = [freq[r] EXCEPT !.gone = TRUE]
  BY <1>1 DEF EdgeShape
<1>3. freq'[r] = [at |-> freq[r].at, kind |-> freq[r].kind, name |-> freq[r].name, app |-> freq[r].app, gone |-> TRUE,
                  alone |-> freq[r].alone, config |-> freq[r].config, token |-> freq[r].token]
  <2>1. Shape(freq[r])
    BY RequestFacts
  <2>2. QED BY <1>2, <2>1 DEF Shape
<1>4. Shape(freq'[r]) /\ Stage(freq'[r])
  <2>1. Shape(freq'[r])
    BY <1>3 DEF Shape
  <2>2. /\ freq'[r].at = freq[r].at /\ freq'[r].kind = freq[r].kind /\ freq'[r].name = freq[r].name
        /\ freq'[r].app = freq[r].app
    BY <1>3
  <2>3. Stage(freq'[r])
    BY <1>1, <2>2 DEF Stage
  <2>4. QED BY <2>1, <2>3
<1>5. Moves(r)
  BY <1>2, <1>3, <1>4 DEF Moves
<1>6. FirewallIsRight' = FirewallIsRight /\ FileIsRight' = FileIsRight
  BY <1>1, RowsGiveTheSame DEF FirewallIsRight, FileIsRight
<1>7. SetsAreRight(freq[r].config)' = SetsAreRight(freq[r].config)
  <2>1. freq'[r].config = freq[r].config /\ ProtectedHostnames' = ProtectedHostnames
    BY <1>1, <1>3, RowsGiveTheSame
  <2>2. QED BY <2>1 DEF SetsAreRight
<1>8. freq[r].alone => Brought(freq[r])'
  <2>1. freq[r].alone => Brought(freq[r])
    BY <1>1, RequestFacts
  <2>2. /\ freq'[r].at = freq[r].at /\ freq'[r].kind = freq[r].kind /\ freq'[r].name = freq[r].name
        /\ freq'[r].token = freq[r].token
    BY <1>3
  <2>3. ASSUME freq[r].alone PROVE Brought(freq[r])'
    <3>1. comp' = comp /\ token' = token /\ connectors' = connectors
      BY <1>1
    <3>2. Brought(freq[r])
      BY <2>1, <2>3
    <3>3. freq[r].kind # "rules" /\ freq[r].kind # "token"
      BY <1>1
    <3>4. QED BY <1>6, <1>7, <2>2, <3>1, <3>2, <3>3 DEF Brought
  <2>4. QED BY <2>3
<1>9. QED BY <1>1, <1>5, <1>8, StillKeeps

LEMMA RefreshKeeps == ASSUME EdgeInv, NEW r \in FRequests, RefreshFirewall(r) PROVE EdgeInv'
<1>1. /\ freq[r].at = "status" /\ freq[r].kind = "rules" /\ freq[r].app \in FApps /\ EdgeShape /\ Shape(freq[r])
      /\ UNCHANGED <<frow, hosts, comp, token, cmap, middle, missed, ingress, connectors, inStep>>
  BY RequestFacts DEF RefreshFirewall, Stage, rowVars, clusterVars
<1>2. \A v \in {"sync", "file"} : Stage([freq[r] EXCEPT !.at = v])
  BY <1>1 DEF Stage, Shape
<1>3. CASE comp["firewall"] # "installed" /\ FGoes(r, "sync")
  <2>1. Moves(r) /\ freq'[r].at = "sync" /\ freq'[r].kind = freq[r].kind
    BY <1>1, <1>2, <1>3, GoesMoves
  <2>2. Brought(freq[r])'
    BY <1>1, <1>3, <2>1 DEF Brought
  <2>3. QED BY <1>1, <2>1, <2>2, StillKeeps
<1>4. CASE freq' = [freq EXCEPT ![r].at = "file", ![r].config = {GuardConfig}]
  <2>1. Moves(r) /\ freq'[r].at = "file" /\ freq'[r].kind = freq[r].kind /\ freq'[r].config = {GuardConfig}
    BY <1>1, <1>2, <1>4, FileReadMoves
  <2>2. ProtectedHostnames' = ProtectedHostnames
    BY <1>1, RowsGiveTheSame
  <2>3. Brought(freq[r])'
    BY <1>1, <2>1, <2>2, GuardConfigSets DEF Brought, SetsAreRight
  <2>4. QED BY <1>1, <2>1, <2>3, StillKeeps
<1>5. CASE FEnds(r)
  BY <1>1, <1>5, OverKeeps
<1>6. QED BY <1>3, <1>4, <1>5 DEF RefreshFirewall

LEMMA FileKeeps == ASSUME EdgeInv, NEW r \in FRequests, ApplyGuardConfigMap(r) PROVE EdgeInv'
<1>1. /\ freq[r].at = "file" /\ freq[r].kind = "rules" /\ freq[r].app \in FApps /\ EdgeShape /\ Shape(freq[r])
      /\ UNCHANGED <<frow, hosts, comp, token, middle, missed, ingress, connectors, inStep>>
  BY RequestFacts DEF ApplyGuardConfigMap, Stage, rowVars
<1>2. CASE cmap' = freq[r].config /\ FGoes(r, "middlewares")
  <2>1. Stage([freq[r] EXCEPT !.at = "middlewares"])
    BY <1>1 DEF Stage, Shape
  <2>2. Moves(r) /\ freq'[r].at = "middlewares" /\ freq'[r].kind = freq[r].kind
    BY <1>1, <1>2, <2>1, GoesMoves
  <2>3. ProtectedHostnames' = ProtectedHostnames
    BY <1>1, RowsGiveTheSame
  <2>4. freq[r].alone => FileIsRight'
    <3>1. freq[r].alone => SetsAreRight(freq[r].config)
      BY <1>1, RequestFacts DEF Brought
    <3>2. QED BY <1>2, <2>3, <3>1 DEF SetsAreRight, FileIsRight
  <2>5. freq[r].alone => Brought(freq[r])'
    BY <1>1, <2>2, <2>4 DEF Brought
  <2>6. comp' = [c \in Comps |-> comp'[c]] /\ ingress' = [a \in FApps |-> ingress'[a]]
    BY <1>1 DEF EdgeShape
  <2>7. EdgeShape' /\ AloneIsAlone' /\ AloneBrings' /\ NobodyWrites'
    BY <1>1, <2>2, <2>5, <2>6, MoveKeeps
  <2>8. "firewall" \notin inStep
    BY <1>1 DEF EdgeInv, NobodyWrites, Guarding
  <2>9. StepsAreKept'
    BY <1>1, <2>8, FirewallStays, AppsStay, TunnelStays, PartsMakeWhole
  <2>10. QED BY <2>7, <2>9 DEF EdgeInv
<1>3. CASE FEnds(r) /\ UNCHANGED cmap
  BY <1>1, <1>3, OverKeeps
<1>4. QED BY <1>2, <1>3 DEF ApplyGuardConfigMap

LEMMA MiddlewaresKeep == ASSUME EdgeInv, NEW r \in FRequests, EnsureGuardMiddlewares(r) PROVE EdgeInv'
<1>1. /\ freq[r].at = "middlewares" /\ EdgeShape /\ Shape(freq[r])
      /\ (freq[r].kind = "install" /\ freq[r].name = "firewall") \/ (freq[r].kind = "rules" /\ freq[r].app \in FApps)
      /\ UNCHANGED <<frow, hosts, comp, token, cmap, ingress, connectors, inStep>>
  <2>1. freq[r].at = "middlewares" /\ EdgeShape /\ Shape(freq[r]) /\ Stage(freq[r])
    BY RequestFacts DEF EnsureGuardMiddlewares
  <2>2. (freq[r].kind = "install" /\ freq[r].name = "firewall") \/ (freq[r].kind = "rules" /\ freq[r].app \in FApps)
    BY <2>1 DEF Stage
  <2>3. QED BY <2>1, <2>2 DEF EnsureGuardMiddlewares, rowVars
<1>2. \A v \in {"record", "failed", "sync"} :
         (v = "sync" <=> freq[r].kind # "install") => Stage([freq[r] EXCEPT !.at = v])
  <2>1. ASSUME NEW v \in {"record", "failed", "sync"}, v = "sync" <=> freq[r].kind # "install"
        PROVE  Stage([freq[r] EXCEPT !.at = v])
    <3>1. /\ [freq[r] EXCEPT !.at = v].at = v /\ [freq[r] EXCEPT !.at = v].kind = freq[r].kind
          /\ [freq[r] EXCEPT !.at = v].name = freq[r].name /\ [freq[r] EXCEPT !.at = v].app = freq[r].app
      BY <1>1 DEF Shape
    <3>2. CASE v # "sync"
      BY <1>1, <2>1, <3>1, <3>2 DEF Stage, Comps
    <3>3. CASE v = "sync"
      BY <1>1, <2>1, <3>1, <3>3 DEF Stage
    <3>4. QED BY <3>2, <3>3
  <2>2. QED BY <2>1
<1>3. freq[r].alone => Brought(freq[r])
  BY <1>1, RequestFacts
<1>4. CASE \E refused \in SUBSET ProtectedNamespaces :
              /\ middle' = middle \cup (ProtectedNamespaces \ refused)
              /\ missed' = missed \cup refused
              /\ FGoes(r, IF freq[r].kind = "install" THEN "record" ELSE "sync")
  <2>1. middle \subseteq middle' /\ missed \subseteq missed' /\ ProtectedNamespaces \subseteq middle' \cup missed'
    BY <1>4
  <2>2. PICK v \in {"record", "sync"} : FGoes(r, v) /\ (v = "sync" <=> freq[r].kind # "install")
    BY <1>4
  <2>3. Moves(r) /\ freq'[r].at = v /\ freq'[r].kind = freq[r].kind /\ freq'[r].name = freq[r].name
    BY <1>1, <1>2, <2>2, GoesMoves
  <2>4. ProtectedHostnames' = ProtectedHostnames /\ ProtectedNamespaces' = ProtectedNamespaces
    BY <1>1, RowsGiveTheSame
  <2>5. freq[r].alone => FirewallIsRight' /\ FileIsRight'
    BY <1>1, <1>3, <2>1, <2>4 DEF Brought, FirewallIsRight, FileIsRight
  <2>6. ASSUME freq[r].alone PROVE Brought(freq[r])'
    <3>1. CASE freq[r].kind = "install"
      <4>1. comp'[freq'[r].name] = "installing"
        BY <1>1, <1>3, <2>3, <2>6, <3>1 DEF Brought
      <4>2. QED BY <1>1, <2>2, <2>3, <2>5, <2>6, <3>1, <4>1 DEF Brought
    <3>2. CASE freq[r].kind = "rules"
      BY <2>2, <2>3, <2>5, <2>6, <3>2 DEF Brought
    <3>3. QED BY <1>1, <3>1, <3>2
  <2>7. comp' = [c \in Comps |-> comp'[c]] /\ ingress' = [a \in FApps |-> ingress'[a]]
    BY <1>1 DEF EdgeShape
  <2>8. EdgeShape' /\ AloneIsAlone' /\ AloneBrings' /\ NobodyWrites'
    BY <1>1, <2>3, <2>6, <2>7, MoveKeeps
  <2>9. StepsAreKept'
    BY <1>1, <2>1, FirewallStays, AppsStay, TunnelStays, PartsMakeWhole
  <2>10. QED BY <2>8, <2>9 DEF EdgeInv
<1>5. CASE UNCHANGED <<middle, missed>> /\ freq[r].kind = "install" /\ FGoes(r, "failed")
  <2>1. Moves(r) /\ freq'[r].at = "failed" /\ freq'[r].kind = freq[r].kind /\ freq'[r].name = freq[r].name
    BY <1>1, <1>2, <1>5, GoesMoves
  <2>2. freq[r].alone => Brought(freq[r])'
    BY <1>1, <1>3, <1>5, <2>1 DEF Brought
  <2>3. QED BY <1>1, <1>5, <2>1, <2>2, StillKeeps
<1>6. CASE UNCHANGED <<middle, missed>> /\ FEnds(r)
  BY <1>1, <1>6, OverKeeps
<1>7. QED
  <2>1. \/ \E refused \in SUBSET ProtectedNamespaces :
              /\ middle' = middle \cup (ProtectedNamespaces \ refused)
              /\ missed' = missed \cup refused
              /\ FGoes(r, IF freq[r].kind = "install" THEN "record" ELSE "sync")
        \/ UNCHANGED <<middle, missed>> /\ (IF freq[r].kind = "install" THEN FGoes(r, "failed") ELSE FEnds(r))
    BY DEF EnsureGuardMiddlewares
  <2>2. QED BY <1>4, <1>5, <1>6, <2>1

LEMMA SyncKeeps == ASSUME EdgeInv, NEW r \in FRequests, Sync(r) PROVE EdgeInv'
<1>1. /\ freq[r].at = "sync" /\ freq[r].kind \in {"rules", "domain"} /\ freq[r].app \in FApps /\ EdgeShape
      /\ FEnds(r) /\ UNCHANGED <<frow, hosts, comp, token, cmap, middle, missed, connectors>>
  BY RequestFacts DEF Sync, Stage, rowVars
<1>2. CASE /\ ingress' = [ingress EXCEPT ![freq[r].app] = [hosts |-> hosts[freq[r].app], protected |-> Enabled(freq[r].app)]]
           /\ inStep' = IF ~freq[r].alone THEN inStep
                        ELSE inStep \cup {freq[r].app} \cup {x \in {"firewall"} : freq[r].kind = "rules"}
  <2>1. /\ ingress' = [a \in FApps |-> ingress'[a]] /\ comp' = [c \in Comps |-> comp'[c]]
        /\ \A a \in FApps : a # freq[r].app => ingress'[a] = ingress[a]
        /\ ingress'[freq[r].app] = [hosts |-> hosts[freq[r].app], protected |-> Enabled(freq[r].app)]
    BY <1>1, <1>2 DEF EdgeShape
  <2>2. Moves(r) /\ freq'[r].at = "off"
    BY <1>1, EndMoves
  <2>3. EdgeShape' /\ AloneIsAlone' /\ AloneBrings' /\ NobodyWrites'
    BY <1>1, <1>2, <2>1, <2>2, MoveKeeps
  <2>4. ProtectedHostnames' = ProtectedHostnames /\ ProtectedNamespaces' = ProtectedNamespaces
        /\ \A a \in FApps : Enabled(a)' = Enabled(a)
    BY <1>1, RowsGiveTheSame
  <2>5. freq[r].app \notin Comps
    BY <1>1, EdgeAssumption
  <2>6. "firewall" \in inStep' /\ comp'["firewall"] = "installed" => FirewallIsRight'
    <3>1. CASE freq[r].kind = "rules"
      <4>1. "firewall" \notin inStep
        BY <1>1, <3>1 DEF EdgeInv, NobodyWrites, Guarding
      <4>2. "firewall" \in inStep' => freq[r].alone
        BY <1>2, <4>1
      <4>3. freq[r].alone /\ comp["firewall"] = "installed" => FirewallIsRight
        BY <1>1, <3>1, RequestFacts DEF Brought
      <4>4. FirewallIsRight' <=> FirewallIsRight
        BY <1>1, <2>4 DEF FirewallIsRight, FileIsRight
      <4>5. QED BY <1>1, <4>2, <4>3, <4>4
    <3>2. CASE freq[r].kind # "rules"
      <4>1. "firewall" \in inStep' => "firewall" \in inStep
        BY <1>2, <2>5, <3>2 DEF Comps
      <4>2. QED BY <1>1, <4>1, FirewallStays
    <3>3. QED BY <3>1, <3>2
  <2>7. \A a \in FApps \cap inStep' : Follows(a)'
    <3>1. ASSUME NEW a \in FApps, a \in inStep' PROVE ingress'[a] = [hosts |-> hosts'[a], protected |-> Enabled(a)']
      <4>1. CASE a = freq[r].app
        BY <1>1, <2>1, <2>4, <4>1
      <4>2. CASE a # freq[r].app
        <5>1. a \in inStep
          BY <1>2, <3>1, <4>2, EdgeAssumption DEF Comps
        <5>2. ingress[a] = [hosts |-> hosts[a], protected |-> Enabled(a)]
          BY <5>1 DEF EdgeInv, StepsAreKept, Follows
        <5>3. QED BY <1>1, <2>1, <2>4, <4>2, <5>2
      <4>3. QED BY <4>1, <4>2
    <3>2. QED BY <3>1 DEF Follows
  <2>8. "tunnel" \in inStep' => TunnelIsRight'
    <3>1. "tunnel" \in inStep' => "tunnel" \in inStep
      BY <1>2, <2>5 DEF Comps
    <3>2. QED BY <1>1, <3>1, TunnelStays
  <2>9. StepsAreKept'
    BY <2>6, <2>7, <2>8, PartsMakeWhole
  <2>10. QED BY <2>3, <2>9 DEF EdgeInv
<1>3. CASE UNCHANGED <<ingress, inStep>>
  BY <1>1, <1>3, OverKeeps
<1>4. QED BY <1>2, <1>3 DEF Sync

LEMMA TunnelReadKeeps == ASSUME EdgeInv, NEW r \in FRequests, RefreshCloudflareTunnel(r) PROVE EdgeInv'
<1>1. /\ freq[r].at = "tunnel" /\ freq[r].kind = "token" /\ EdgeShape /\ Shape(freq[r])
      /\ UNCHANGED <<frow, hosts, comp, token, cmap, middle, missed, ingress, connectors, inStep>>
  BY RequestFacts DEF RefreshCloudflareTunnel, Stage, rowVars, clusterVars
<1>2. CASE FEnds(r)
  BY <1>1, <1>2, OverKeeps
<1>3. CASE comp["tunnel"] = "installed" /\ freq' = [freq EXCEPT ![r].at = "connectors", ![r].token = token]
  <2>1. Stage([freq[r] EXCEPT !.at = "connectors"])
    BY <1>1 DEF Stage, Shape
  <2>2. Moves(r) /\ freq'[r].at = "connectors" /\ freq'[r].kind = freq[r].kind /\ freq'[r].token = token
    BY <1>1, <1>3, <2>1, TokenReadMoves
  <2>3. Brought(freq[r])'
    BY <1>1, <1>3, <2>2 DEF Brought
  <2>4. QED BY <1>1, <2>2, <2>3, StillKeeps
<1>4. QED BY <1>2, <1>3 DEF RefreshCloudflareTunnel

LEMMA TunnelKeeps == ASSUME EdgeInv, NEW r \in FRequests, ApplyTunnel(r) PROVE EdgeInv'
<1>1. /\ freq[r].at = "connectors" /\ freq[r].kind = "token" /\ EdgeShape /\ Shape(freq[r])
      /\ UNCHANGED <<frow, hosts, comp, token, cmap, middle, missed, ingress>>
  BY RequestFacts DEF ApplyTunnel, Stage, rowVars
<1>2. /\ comp' = [c \in Comps |-> comp'[c]] /\ ingress' = [a \in FApps |-> ingress'[a]]
      /\ "tunnel" \notin inStep
  BY <1>1 DEF EdgeInv, EdgeShape, NobodyWrites, Tunnelling
<1>3. freq[r].alone => comp["tunnel"] = "installed" /\ freq[r].token = token
  BY <1>1, RequestFacts DEF Brought
<1>4. CASE /\ freq[r].token # "" /\ connectors' = TunnelObjects(freq[r].token) /\ FEnds(r)
           /\ inStep' = IF freq[r].alone THEN inStep \cup {"tunnel"} ELSE inStep
  <2>1. Moves(r) /\ freq'[r].at = "off"
    BY <1>1, <1>4, EndMoves
  <2>2. EdgeShape' /\ AloneIsAlone' /\ AloneBrings' /\ NobodyWrites'
    BY <1>1, <1>2, <1>4, <2>1, MoveKeeps
  <2>3. "tunnel" \in inStep' => TunnelIsRight'
    BY <1>1, <1>2, <1>3, <1>4 DEF TunnelIsRight, TunnelObjects
  <2>4. /\ "firewall" \in inStep' => "firewall" \in inStep
        /\ \A a \in FApps : a \in inStep' => a \in inStep
    BY <1>4, EdgeAssumption DEF Comps
  <2>5. StepsAreKept'
    BY <1>1, <2>3, <2>4, FirewallStays, AppsStay, PartsMakeWhole
  <2>6. QED BY <2>2, <2>5 DEF EdgeInv
<1>5. CASE connectors' = {} /\ FGoes(r, "removed") /\ UNCHANGED inStep
  <2>1. Stage([freq[r] EXCEPT !.at = "removed"])
    BY <1>1 DEF Stage, Shape
  <2>2. Moves(r) /\ freq'[r].at = "removed" /\ freq'[r].kind = freq[r].kind
    BY <1>1, <1>5, <2>1, GoesMoves
  <2>3. Brought(freq[r])'
    BY <1>1, <1>5, <2>2 DEF Brought
  <2>4. EdgeShape' /\ AloneIsAlone' /\ AloneBrings' /\ NobodyWrites'
    BY <1>1, <1>2, <1>5, <2>2, <2>3, MoveKeeps
  <2>5. StepsAreKept'
    BY <1>1, <1>2, <1>5, FirewallStays, AppsStay, TunnelStays, PartsMakeWhole
  <2>6. QED BY <2>4, <2>5 DEF EdgeInv
<1>6. CASE FEnds(r) /\ UNCHANGED <<connectors, inStep>>
  BY <1>1, <1>6, OverKeeps
<1>7. QED BY <1>4, <1>5, <1>6 DEF ApplyTunnel

LEMMA RemovedKeeps == ASSUME EdgeInv, NEW r \in FRequests, RecordRemoved(r) PROVE EdgeInv'
<1>1. /\ freq[r].at = "removed" /\ freq[r].kind = "token" /\ EdgeShape /\ FEnds(r)
      /\ UNCHANGED <<frow, hosts, token, cmap, middle, missed, ingress, connectors>>
      /\ comp' = [comp EXCEPT !["tunnel"] = "removed"]
      /\ inStep' = (IF freq[r].alone THEN inStep \cup {"tunnel"} ELSE inStep)
  BY RequestFacts DEF RecordRemoved, Stage, clusterVars
<1>2. /\ comp' = [c \in Comps |-> comp'[c]] /\ ingress' = [a \in FApps |-> ingress'[a]]
      /\ comp'["tunnel"] = "removed" /\ comp'["firewall"] = comp["firewall"]
  BY <1>1 DEF EdgeShape, Comps
<1>3. Moves(r) /\ freq'[r].at = "off"
  BY <1>1, EndMoves
<1>4. EdgeShape' /\ AloneIsAlone' /\ AloneBrings' /\ NobodyWrites'
  BY <1>1, <1>2, <1>3, MoveKeeps
<1>5. "tunnel" \in inStep' => TunnelIsRight'
  <2>1. "tunnel" \notin inStep
    BY <1>1 DEF EdgeInv, NobodyWrites, Tunnelling
  <2>2. freq[r].alone => connectors = {}
    BY <1>1, RequestFacts DEF Brought
  <2>3. QED BY <1>1, <1>2, <2>1, <2>2 DEF TunnelIsRight
<1>6. /\ "firewall" \in inStep' => "firewall" \in inStep
      /\ \A a \in FApps : a \in inStep' => a \in inStep
  BY <1>1, EdgeAssumption DEF Comps
<1>7. StepsAreKept'
  BY <1>1, <1>2, <1>5, <1>6, FirewallStays, AppsStay, PartsMakeWhole
<1>8. QED BY <1>4, <1>7 DEF EdgeInv

\* A request begins: it is alone if nothing was under way, and the others no longer are.
Begun(r, req) ==
    /\ freq' = [q \in FRequests |-> freq'[q]]
    /\ \A q \in FRequests : Shape(freq'[q]) /\ Stage(freq'[q])
    /\ \A q \in FRequests \ {r} :
          /\ freq'[q].at = freq[q].at /\ freq'[q].kind = freq[q].kind /\ freq'[q].name = freq[q].name
          /\ freq'[q].at # "off" => ~freq'[q].alone
    /\ freq'[r].at = req.at /\ freq'[r].kind = req.kind /\ freq'[r].name = req.name
    /\ freq'[r].alone => \A q \in FRequests : freq[q].at = "off"

LEMMA BeginFacts ==
    ASSUME EdgeInv, NEW r \in FRequests, NEW req, Shape(req), Stage(req), req.at # "off", FBegins(r, req)
    PROVE  Begun(r, req)
<1>1. /\ freq' = [q \in FRequests |-> freq'[q]] /\ \A q \in FRequests : Shape(freq[q]) /\ Stage(freq[q])
      /\ freq'[r] = [req EXCEPT !.alone = Busy = {}]
      /\ \A q \in FRequests : q # r =>
            freq'[q] = IF q \in Busy THEN [freq[q] EXCEPT !.alone = FALSE] ELSE freq[q]
  BY DEF EdgeInv, EdgeShape, FBegins
<1>2. freq'[r] = [at |-> req.at, kind |-> req.kind, name |-> req.name, app |-> req.app, gone |-> req.gone,
                  alone |-> Busy = {}, config |-> req.config, token |-> req.token]
  BY <1>1 DEF Shape
<1>3. Shape(freq'[r])
  BY <1>2 DEF Shape
<1>4. Stage(freq'[r])
  <2>1. freq'[r].at = req.at /\ freq'[r].kind = req.kind /\ freq'[r].name = req.name /\ freq'[r].app = req.app
    BY <1>2
  <2>2. QED BY <2>1 DEF Stage
<1>5. freq'[r].alone => \A q \in FRequests : freq[q].at = "off"
  <2>1. freq'[r].alone = (Busy = {})
    BY <1>2
  <2>2. QED BY <2>1 DEF Busy
<1>6. ASSUME NEW q \in FRequests, q # r
      PROVE  /\ Shape(freq'[q]) /\ Stage(freq'[q]) /\ freq'[q].at = freq[q].at /\ freq'[q].kind = freq[q].kind
             /\ freq'[q].name = freq[q].name /\ (freq'[q].at # "off" => ~freq'[q].alone)
  <2>1. CASE q \notin Busy
    BY <1>1, <1>6, <2>1 DEF Busy
  <2>2. CASE q \in Busy
    <3>1. freq'[q] = [freq[q] EXCEPT !.alone = FALSE]
      BY <1>1, <1>6, <2>2
    <3>2. Shape(freq[q]) /\ Stage(freq[q])
      BY <1>1
    <3>3. freq'[q] = [at |-> freq[q].at, kind |-> freq[q].kind, name |-> freq[q].name, app |-> freq[q].app, gone |-> freq[q].gone,
                      alone |-> FALSE, config |-> freq[q].config, token |-> freq[q].token]
      BY <3>1, <3>2 DEF Shape
    <3>4. Shape(freq'[q])
      BY <3>3 DEF Shape
    <3>5. /\ freq'[q].at = freq[q].at /\ freq'[q].kind = freq[q].kind /\ freq'[q].name = freq[q].name
          /\ freq'[q].app = freq[q].app /\ ~freq'[q].alone
      BY <3>3
    <3>6. Stage(freq'[q])
      BY <3>2, <3>5 DEF Stage
    <3>7. QED BY <3>4, <3>5, <3>6
  <2>3. QED BY <2>1, <2>2
<1>7. freq'[r].at = req.at /\ freq'[r].kind = req.kind /\ freq'[r].name = req.name
  BY <1>2
<1>8. QED BY <1>1, <1>3, <1>4, <1>5, <1>6, <1>7 DEF Begun

LEMMA BeginKeeps ==
    ASSUME EdgeInv, NEW r \in FRequests, NEW req, Shape(req), Stage(req), FBegins(r, req),
           req.at \in {"lock", "status", "tunnel"} \/ (req.at = "sync" /\ req.kind = "domain"),
           frow' = [a \in FApps |-> frow'[a]], hosts' = [a \in FApps |-> hosts'[a]], UNCHANGED <<comp, ingress>>,
           inStep' \subseteq inStep,
           (req.kind = "rules" \/ (req.kind = "install" /\ req.name = "firewall")) => "firewall" \notin inStep',
           (req.kind = "token" \/ (req.kind = "install" /\ req.name = "tunnel")) => "tunnel" \notin inStep'
    PROVE  EdgeShape' /\ AloneIsAlone' /\ AloneBrings' /\ NobodyWrites'
<1>1. Begun(r, req)
  BY BeginFacts
<1>2. EdgeShape'
  <2>1. comp' = [c \in Comps |-> comp'[c]] /\ ingress' = [a \in FApps |-> ingress'[a]]
    BY DEF EdgeInv, EdgeShape
  <2>2. QED BY <1>1, <2>1 DEF EdgeShape, Begun
<1>3. AloneIsAlone'
  <2>1. ASSUME NEW p \in FRequests, NEW q \in FRequests, freq'[p].at # "off", freq'[p].alone, freq'[q].at # "off"
        PROVE  q = p
    <3>1. p = r
      BY <1>1, <2>1 DEF Begun
    <3>2. freq'[r].alone
      BY <2>1, <3>1
    <3>3. freq[q].at = "off"
      BY <1>1, <3>2 DEF Begun
    <3>4. QED BY <1>1, <2>1, <3>1, <3>3 DEF Begun
  <2>2. QED BY <2>1 DEF AloneIsAlone
<1>4. AloneBrings'
  <2>1. ASSUME NEW q \in FRequests, freq'[q].at # "off", freq'[q].alone PROVE Brought(freq[q])'
    <3>1. q = r
      BY <1>1, <2>1 DEF Begun
    <3>2. Brought(freq[r])'
      <4>1. CASE req.at = "lock"
        BY <1>1, <4>1 DEF Brought, Stage, Begun
      <4>2. CASE req.at \in {"status", "tunnel"} \/ (req.at = "sync" /\ req.kind = "domain")
        BY <1>1, <4>2 DEF Brought, Stage, Begun
      <4>3. QED BY <4>1, <4>2
    <3>3. QED BY <3>1, <3>2
  <2>2. QED BY <2>1 DEF AloneBrings
<1>5. NobodyWrites'
  <2>1. /\ "firewall" \in inStep => \A q \in FRequests : ~Guarding(q)
        /\ "tunnel" \in inStep => \A q \in FRequests : ~Tunnelling(q)
    BY DEF EdgeInv, NobodyWrites
  <2>2. ASSUME "firewall" \in inStep', NEW q \in FRequests PROVE ~Guarding(q)'
    <3>1. CASE q = r
      BY <1>1, <2>2, <3>1 DEF Guarding, Begun
    <3>2. CASE q # r
      <4>1. ~Guarding(q)
        BY <2>1, <2>2
      <4>2. freq'[q].at = freq[q].at /\ freq'[q].kind = freq[q].kind /\ freq'[q].name = freq[q].name
        BY <1>1, <3>2 DEF Begun
      <4>3. QED BY <4>1, <4>2 DEF Guarding
    <3>3. QED BY <3>1, <3>2
  <2>3. ASSUME "tunnel" \in inStep', NEW q \in FRequests PROVE ~Tunnelling(q)'
    <3>1. CASE q = r
      BY <1>1, <2>3, <3>1 DEF Tunnelling, Begun
    <3>2. CASE q # r
      <4>1. ~Tunnelling(q)
        BY <2>1, <2>3
      <4>2. freq'[q].at = freq[q].at /\ freq'[q].kind = freq[q].kind /\ freq'[q].name = freq[q].name
        BY <1>1, <3>2 DEF Begun
      <4>3. QED BY <4>1, <4>2 DEF Tunnelling
    <3>3. QED BY <3>1, <3>2
  <2>4. QED BY <2>2, <2>3 DEF NobodyWrites
<1>6. QED BY <1>2, <1>3, <1>4, <1>5

LEMMA InstallBeginKeeps == ASSUME EdgeInv, NEW r \in FRequests, NEW c \in Comps, InstallBegins(r, c) PROVE EdgeInv'
<1> DEFINE req == FReq("install", "lock", c, "none")
<1>1. FBegins(r, req) /\ inStep' = inStep \ {c} /\ UNCHANGED <<frow, hosts, comp, token, cmap, middle, missed, ingress, connectors>>
  BY DEF InstallBegins, rowVars, clusterVars
<1>3. Shape(req) /\ Stage(req) /\ req.at = "lock" /\ req.kind = "install" /\ req.name = c
  BY DEF FReq, Shape, Stage
<1>4. frow' = [a \in FApps |-> frow'[a]] /\ hosts' = [a \in FApps |-> hosts'[a]]
  BY <1>1 DEF EdgeInv, EdgeShape
<1> HIDE DEF req
<1>5. EdgeShape' /\ AloneIsAlone' /\ AloneBrings' /\ NobodyWrites'
  BY <1>1, <1>3, <1>4, BeginKeeps
<1>6. StepsAreKept'
  BY <1>1, FirewallStays, AppsStay, TunnelStays, PartsMakeWhole
<1>7. QED BY <1>5, <1>6 DEF EdgeInv

LEMMA RulesBeginKeep ==
    ASSUME EdgeInv, NEW r \in FRequests, NEW a \in FApps, NEW enabled, NEW rules, SetAppFirewall(r, a, enabled, rules)
    PROVE  EdgeInv'
<1> DEFINE req == FReq("rules", "status", "none", a)
<1>1. /\ FBegins(r, req) /\ inStep' = inStep \ {"firewall", a} /\ UNCHANGED <<hosts, comp, token, cmap, middle, missed, ingress, connectors>>
      /\ frow' = [frow EXCEPT ![a] = {[enabled |-> enabled, rules |-> rules]}]
  BY DEF SetAppFirewall, clusterVars
<1>3. Shape(req) /\ Stage(req) /\ req.at = "status" /\ req.kind = "rules"
  BY DEF FReq, Shape, Stage
<1>4. /\ frow' = [b \in FApps |-> frow'[b]] /\ hosts' = [b \in FApps |-> hosts'[b]]
      /\ \A b \in FApps : b # a => frow'[b] = frow[b]
  BY <1>1 DEF EdgeInv, EdgeShape
<1> HIDE DEF req
<1>5. EdgeShape' /\ AloneIsAlone' /\ AloneBrings' /\ NobodyWrites'
  BY <1>1, <1>3, <1>4, BeginKeeps
<1>6. \A b \in FApps \cap inStep' : Follows(b)'
  <2>1. ASSUME NEW b \in FApps, b \in inStep' PROVE ingress'[b] = [hosts |-> hosts'[b], protected |-> Enabled(b)']
    <3>1. b \in inStep /\ b # a
      BY <1>1, <2>1
    <3>2. ingress[b] = [hosts |-> hosts[b], protected |-> Enabled(b)]
      BY <3>1 DEF EdgeInv, StepsAreKept, Follows
    <3>3. Enabled(b)' = Enabled(b)
      BY <1>4, <3>1 DEF Enabled
    <3>4. QED BY <1>1, <3>2, <3>3
  <2>2. QED BY <2>1 DEF Follows
<1>7. "tunnel" \in inStep' => TunnelIsRight'
  BY <1>1, TunnelStays
<1>8. StepsAreKept'
  BY <1>1, <1>6, <1>7, PartsMakeWhole
<1>9. QED BY <1>5, <1>8 DEF EdgeInv

LEMMA DomainBeginKeeps ==
    ASSUME EdgeInv, NEW r \in FRequests, NEW a \in FApps, NEW h \in Hosts, SetDomain(r, a, h) PROVE EdgeInv'
<1> DEFINE req == FReq("domain", "sync", "none", a)
<1>1. /\ FBegins(r, req) /\ inStep' = inStep \ {"firewall", a} /\ UNCHANGED <<frow, comp, token, cmap, middle, missed, ingress, connectors>>
      /\ hosts' = [hosts EXCEPT ![a] = IF h \in @ THEN @ \ {h} ELSE @ \cup {h}]
  BY DEF SetDomain, clusterVars
<1>3. Shape(req) /\ Stage(req) /\ req.at = "sync" /\ req.kind = "domain"
  BY DEF FReq, Shape, Stage
<1>4. /\ frow' = [b \in FApps |-> frow'[b]] /\ hosts' = [b \in FApps |-> hosts'[b]]
      /\ \A b \in FApps : b # a => hosts'[b] = hosts[b]
  BY <1>1 DEF EdgeInv, EdgeShape
<1> HIDE DEF req
<1>5. EdgeShape' /\ AloneIsAlone' /\ AloneBrings' /\ NobodyWrites'
  BY <1>1, <1>3, <1>4, BeginKeeps
<1>6. \A b \in FApps \cap inStep' : Follows(b)'
  <2>1. ASSUME NEW b \in FApps, b \in inStep' PROVE ingress'[b] = [hosts |-> hosts'[b], protected |-> Enabled(b)']
    <3>1. b \in inStep /\ b # a
      BY <1>1, <2>1
    <3>2. ingress[b] = [hosts |-> hosts[b], protected |-> Enabled(b)]
      BY <3>1 DEF EdgeInv, StepsAreKept, Follows
    <3>3. Enabled(b)' = Enabled(b)
      BY <1>1 DEF Enabled
    <3>4. QED BY <1>1, <1>4, <3>1, <3>2, <3>3
  <2>2. QED BY <2>1 DEF Follows
<1>7. "tunnel" \in inStep' => TunnelIsRight'
  BY <1>1, TunnelStays
<1>8. StepsAreKept'
  BY <1>1, <1>6, <1>7, PartsMakeWhole
<1>9. QED BY <1>5, <1>8 DEF EdgeInv

LEMMA TokenBeginKeeps ==
    ASSUME EdgeInv, NEW r \in FRequests, NEW t \in Tokens \cup {""}, SaveToken(r, t) PROVE EdgeInv'
<1> DEFINE req == FReq("token", "tunnel", "none", "none")
<1>1. /\ FBegins(r, req) /\ inStep' = inStep \ {"tunnel"} /\ UNCHANGED <<frow, hosts, comp, cmap, middle, missed, ingress, connectors>>
  BY DEF SaveToken, clusterVars
<1>3. Shape(req) /\ Stage(req) /\ req.at = "tunnel" /\ req.kind = "token"
  BY DEF FReq, Shape, Stage
<1>4. frow' = [a \in FApps |-> frow'[a]] /\ hosts' = [a \in FApps |-> hosts'[a]]
  BY <1>1 DEF EdgeInv, EdgeShape
<1> HIDE DEF req
<1>5. EdgeShape' /\ AloneIsAlone' /\ AloneBrings' /\ NobodyWrites'
  BY <1>1, <1>3, <1>4, BeginKeeps
<1>6. StepsAreKept'
  BY <1>1, FirewallStays, AppsStay, TunnelStays, PartsMakeWhole
<1>7. QED BY <1>5, <1>6 DEF EdgeInv

\* The guards look at the file and write nothing; a restart ends every request.
LEMMA OthersKeep ==
    ASSUME EdgeInv, UNCHANGED <<frow, hosts, comp, token, cmap, middle, missed, ingress, connectors, inStep>>,
           UNCHANGED freq \/ freq' = [r \in FRequests |-> NoFReq]
    PROVE  EdgeInv'
<1>1. ProtectedHostnames' = ProtectedHostnames /\ ProtectedNamespaces' = ProtectedNamespaces
  BY RowsGiveTheSame
<1>2. StepsAreKept'
  BY StepsStay
<1>3. /\ frow' = [a \in FApps |-> frow'[a]] /\ hosts' = [a \in FApps |-> hosts'[a]]
      /\ comp' = [c \in Comps |-> comp'[c]] /\ ingress' = [a \in FApps |-> ingress'[a]]
  BY DEF EdgeInv, EdgeShape
<1>4. CASE UNCHANGED freq
  <2>1. EdgeShape'
    BY <1>3, <1>4 DEF EdgeInv, EdgeShape
  <2>2. AloneIsAlone'
    BY <1>4 DEF EdgeInv, AloneIsAlone
  <2>3. NobodyWrites'
    BY <1>4 DEF EdgeInv, NobodyWrites, Guarding, Tunnelling
  <2>4. ASSUME NEW r \in FRequests, freq'[r].at # "off", freq'[r].alone PROVE Brought(freq[r])'
    <3>1. Brought(freq[r])
      BY <1>4, <2>4 DEF EdgeInv, AloneBrings
    <3>2. FirewallIsRight' = FirewallIsRight /\ FileIsRight' = FileIsRight /\ SetsAreRight(freq[r].config)' = SetsAreRight(freq[r].config)
      BY <1>1, <1>4 DEF FirewallIsRight, FileIsRight, SetsAreRight
    <3>3. QED BY <1>4, <3>1, <3>2 DEF Brought
  <2>5. AloneBrings'
    BY <2>4 DEF AloneBrings
  <2>6. QED BY <1>2, <2>1, <2>2, <2>3, <2>5 DEF EdgeInv
<1>5. CASE freq' = [r \in FRequests |-> NoFReq]
  <2>1. \A r \in FRequests : freq'[r] = NoFReq /\ freq'[r].at = "off"
    BY <1>5 DEF NoFReq, FReq
  <2>2. freq' = [r \in FRequests |-> freq'[r]] /\ Shape(NoFReq) /\ Stage(NoFReq)
    BY <1>5 DEF Shape, Stage, NoFReq, FReq
  <2>3. EdgeShape'
    BY <1>3, <2>1, <2>2 DEF EdgeShape
  <2>4. AloneIsAlone'
    BY <2>1 DEF AloneIsAlone
  <2>5. NobodyWrites'
    BY <2>1 DEF NobodyWrites, Guarding, Tunnelling
  <2>6. AloneBrings'
    BY <2>1 DEF AloneBrings
  <2>7. QED BY <1>2, <2>3, <2>4, <2>5, <2>6 DEF EdgeInv
<1>6. QED BY <1>4, <1>5

LEMMA RequestKeeps == ASSUME EdgeInv, NEW r \in FRequests, RequestStep(r) PROVE EdgeInv'
BY LockKeeps, ReadKeeps, AppliesKeeps, WaitKeeps, RecordKeeps, RefreshKeeps, FileKeeps, MiddlewaresKeep, SyncKeeps,
   TunnelReadKeeps, TunnelKeeps, RemovedKeeps DEF RequestStep

LEMMA EdgeKeeps == EdgeInv /\ [EdgeNext]_edgeVars => EdgeInv'
<1> SUFFICES ASSUME EdgeInv, [EdgeNext]_edgeVars PROVE EdgeInv'
  OBVIOUS
<1>1. ASSUME NEW r \in FRequests, RequestStep(r) PROVE EdgeInv'
  BY <1>1, RequestKeeps
<1>2. ASSUME NEW r \in FRequests, BrowserGoes(r) PROVE EdgeInv'
  BY <1>2, GoneKeeps
<1>3. ASSUME NEW r \in FRequests, NEW c \in Comps, InstallBegins(r, c) PROVE EdgeInv'
  BY <1>3, InstallBeginKeeps
<1>4. ASSUME NEW r \in FRequests, NEW a \in FApps, NEW on \in BOOLEAN, NEW x \in FRules, SetAppFirewall(r, a, on, x)
      PROVE  EdgeInv'
  BY <1>4, RulesBeginKeep
<1>5. ASSUME NEW r \in FRequests, NEW a \in FApps, NEW h \in Hosts, SetDomain(r, a, h) PROVE EdgeInv'
  BY <1>5, DomainBeginKeeps
<1>6. ASSUME NEW r \in FRequests, NEW t \in Tokens \cup {""}, SaveToken(r, t) PROVE EdgeInv'
  BY <1>6, TokenBeginKeeps
<1>7. ASSUME NEW g \in Guards, FileArrives(g) \/ Reload(g) \/ GuardRestarts(g) PROVE EdgeInv'
  <2>1. UNCHANGED <<frow, hosts, comp, token, cmap, middle, missed, ingress, connectors, inStep, freq>>
    BY <1>7 DEF FileArrives, Reload, GuardRestarts, rowVars, clusterVars
  <2>2. QED BY <2>1, OthersKeep
<1>8. ASSUME PanelRestarts PROVE EdgeInv'
  <2>1. /\ UNCHANGED <<frow, hosts, comp, token, cmap, middle, missed, ingress, connectors, inStep>>
        /\ freq' = [r \in FRequests |-> NoFReq]
    BY <1>8 DEF PanelRestarts, rowVars, clusterVars
  <2>2. QED BY <2>1, OthersKeep
<1>9. ASSUME UNCHANGED edgeVars PROVE EdgeInv'
  <2>1. UNCHANGED <<frow, hosts, comp, token, cmap, middle, missed, ingress, connectors, inStep, freq>>
    BY <1>9 DEF edgeVars, rowVars, clusterVars
  <2>2. QED BY <2>1, OthersKeep
<1>10. QED BY <1>1, <1>2, <1>3, <1>4, <1>5, <1>6, <1>7, <1>8, <1>9 DEF EdgeNext, GuardStep

\* Whatever the apps, their hostnames, the rules, the tokens and the number of requests: after a
\* request that ran alone from end to end (an install, a save of rules, a domain, a token), and
\* with nothing under way, the rule sets in the guards' file, the app's Ingress and the tunnel's
\* connectors are what the rows say, and every protected namespace has the middleware but those
\* whose middleware the cluster refused, though a request before it was cut off anywhere, failed
\* or overlapped with others.
THEOREM AloneBringsInStep == EdgeSpec => []InStepWithTheRows
<1>1. EdgeInv => InStepWithTheRows
  <2> SUFFICES ASSUME EdgeInv PROVE InStepWithTheRows
    OBVIOUS
  <2>1. "firewall" \in inStep /\ Busy = {} /\ comp["firewall"] = "installed" =>
            (\A c \in cmap : c.sets = GuardConfig.sets) /\ ProtectedNamespaces \subseteq middle \cup missed
    BY GuardConfigSets DEF EdgeInv, StepsAreKept, FirewallIsRight, FileIsRight
  <2>2. \A a \in FApps \cap inStep : ingress[a] = [hosts |-> hosts[a], protected |-> Enabled(a)]
    BY DEF EdgeInv, StepsAreKept, Follows
  <2>3. "tunnel" \in inStep => /\ comp["tunnel"] = "installed" => connectors = {token} /\ token # ""
                               /\ comp["tunnel"] = "removed" => connectors = {}
    BY DEF EdgeInv, StepsAreKept, TunnelIsRight
  <2>4. QED BY <2>1, <2>2, <2>3 DEF InStepWithTheRows
<1>2. QED BY <1>1, EdgeStart, EdgeKeeps, PTL DEF EdgeSpec
=============================================================================
