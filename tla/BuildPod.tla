------------------------------ MODULE BuildPod ------------------------------
(***************************************************************************)
(* One build, between the panel and the pod that does it: the Job with its *)
(* containers (builder/job.go), the uploaded code the panel streams into   *)
(* the first of them (deploy/upload.go), and the panel's waits for the pod *)
(* and for the Job (deploy/build.go).                                      *)
(*                                                                         *)
(* The containers run one after the other: "clone" fetches the repository  *)
(* or waits for the panel, "prepare" writes a plan for the builders that   *)
(* need one, "build" makes and pushes the image.  A pod is Pending for as  *)
(* long as its first two run.  Time is not counted: a wait may end by its  *)
(* limit whenever what it waits for is not there yet.                      *)
(***************************************************************************)
EXTENDS Integers, Sequences, FiniteSets

CONSTANTS
    Builds,      \* what is built: [upload, builder, old]; old: the Job an earlier attempt left
    PodFaults    \* how often the cluster fails or the panel ends

ASSUME PodAssumption == PodFaults \in Nat /\ \A b \in Builds : b.upload \in BOOLEAN /\ b.old \in BOOLEAN

VARIABLES
    build,       \* which
    panel,       \* [at, says, stage]: where the panel is and what it concluded
    bjob,        \* the Job: [at, failed]; failed: the container that did, "gone" with its pod, or {}
    code,        \* the workspace: "none", "part" or "whole"
    marks,       \* the marker files the waiting script looks for
    exec,        \* the stream: "off", "open", "cut"
    pushed,      \* the image is in the registry
    bfaults

podVars == <<build, panel, bjob, code, marks, exec, pushed, bfaults>>

Stages(b) == IF b.builder \in {"railpack", "nixpacks"} THEN <<"clone", "prepare", "build">> ELSE <<"clone", "build">>
Running(stage) == bjob.at = stage
Started == bjob.at \in {"build", "done"}           \* the phase is no longer Pending
Over == bjob.at \in {"none", "done"}
PodFails == bfaults > 0 /\ bfaults' = bfaults - 1
PanelGoes(at) == panel' = [panel EXCEPT !.at = at]
Concludes(says, stage) == panel' = [at |-> "off", says |-> says, stage |-> stage]

PodInit ==
    /\ build \in Builds
    /\ panel = [at |-> "clear", says |-> "", stage |-> ""]
    /\ bjob = [at |-> IF build.old THEN "old" ELSE "none", failed |-> {}]
    /\ code = "none" /\ marks = {} /\ exec = "off" /\ pushed = FALSE /\ bfaults = PodFaults

-----------------------------------------------------------------------------
(* The pod.                                                                *)

Fails(stage) == bjob' = [at |-> "done", failed |-> {stage}]
NextStage(stage) ==
    LET s == Stages(build) IN
    IF stage = "build" THEN "done" ELSE s[CHOOSE i \in DOMAIN s : i > 1 /\ s[i - 1] = stage]

PodStarts ==
    /\ Running("pending") /\ bjob' = [bjob EXCEPT !.at = "clone"]
    /\ UNCHANGED <<build, panel, code, marks, exec, pushed, bfaults>>
\* A repository is fetched whole or not at all.
CloneScript ==
    /\ Running("clone") /\ ~build.upload
    /\ \/ code' = "whole" /\ bjob' = [bjob EXCEPT !.at = NextStage("clone")] /\ UNCHANGED bfaults
       \/ PodFails /\ Fails("clone") /\ UNCHANGED code
    /\ UNCHANGED <<build, panel, marks, exec, pushed>>
\* Every second: the code is there, or it could not be unpacked, or it never came.
ReceiveScript_NoLimit ==
    /\ Running("clone") /\ build.upload
    /\ \/ "ready" \in marks /\ bjob' = [bjob EXCEPT !.at = NextStage("clone")]
       \/ "failed" \in marks /\ Fails("clone")
    /\ UNCHANGED <<build, panel, code, marks, exec, pushed, bfaults>>
ReceiveScript ==
    /\ Running("clone") /\ build.upload
    /\ \/ "ready" \in marks /\ bjob' = [bjob EXCEPT !.at = NextStage("clone")] /\ UNCHANGED exec
       \/ /\ "ready" \notin marks /\ Fails("clone")
          /\ exec' = IF exec = "open" THEN "cut" ELSE exec
    /\ UNCHANGED <<build, panel, code, marks, pushed, bfaults>>
\* tar in the container, on the stream: all of it, or a failure it leaves a mark of.
ReceiveCommand_AlwaysReady ==
    /\ exec \in {"open", "cut"} /\ Running("clone") /\ marks = {}
    /\ \/ exec = "open" /\ code = "part" /\ code' = "whole" /\ marks' = {"ready"}
       \/ exec = "cut" /\ marks' = {"ready"} /\ UNCHANGED code
    /\ UNCHANGED <<build, panel, bjob, exec, pushed, bfaults>>
ReceiveCommand ==
    /\ exec \in {"open", "cut"} /\ Running("clone") /\ marks = {}
    /\ \/ exec = "open" /\ code = "part" /\ code' = "whole" /\ marks' = {"ready"}
       \/ exec = "cut" /\ marks' = {"failed"} /\ UNCHANGED code
    /\ UNCHANGED <<build, panel, bjob, exec, pushed, bfaults>>
PrepareContainer ==
    /\ Running("prepare")
    /\ \/ bjob' = [bjob EXCEPT !.at = "build"] /\ UNCHANGED bfaults
       \/ PodFails /\ Fails("prepare")
    /\ UNCHANGED <<build, panel, code, marks, exec, pushed>>
\* The push is the last thing the script does.
BuildContainer ==
    /\ Running("build")
    /\ \/ pushed' = TRUE /\ bjob' = [bjob EXCEPT !.at = "done"] /\ UNCHANGED bfaults
       \/ PodFails /\ Fails("build") /\ UNCHANGED pushed
    /\ UNCHANGED <<build, panel, code, marks, exec>>

-----------------------------------------------------------------------------
(* The panel.                                                              *)

\* What an earlier attempt left is deleted and waited for; if it stays, the build ends here.
DeleteAndWait ==
    /\ panel.at = "clear"
    /\ \/ bjob' = [bjob EXCEPT !.at = "none"] /\ PanelGoes("apply") /\ UNCHANGED bfaults
       \/ PodFails /\ bjob.at = "old" /\ Concludes("error", "") /\ UNCHANGED bjob
    /\ UNCHANGED <<build, code, marks, exec, pushed>>
ApplyJob ==
    /\ panel.at = "apply"
    /\ \/ /\ bjob' = [at |-> "pending", failed |-> {}] /\ UNCHANGED bfaults
          /\ PanelGoes(IF build.upload THEN "source" ELSE "pod")
       \/ PodFails /\ Concludes("error", "") /\ UNCHANGED bjob
    /\ UNCHANGED <<build, code, marks, exec, pushed>>
\* The first container has to run for the code to be handed to it; found ended, the build is over.
WaitForSourceContainer ==
    /\ panel.at = "source"
    /\ \/ Running("clone") /\ PanelGoes("open")
       \/ bjob.at \in {"done", "none"} /\ PanelGoes("delete")      \* stopped, or never started in time
       \/ Running("pending") /\ PanelGoes("delete")
    /\ UNCHANGED <<build, bjob, code, marks, exec, pushed, bfaults>>
\* The archive, if it is still stored, is streamed into the container.
DeliverUpload ==
    /\ panel.at = "open"
    /\ \/ /\ Running("clone") /\ exec = "off" /\ exec' = "open" /\ code' = "part" /\ PanelGoes("stream") /\ UNCHANGED bfaults
       \/ ~Running("clone") /\ PanelGoes("delete") /\ UNCHANGED <<exec, code, bfaults>>
       \/ PodFails /\ PanelGoes("delete") /\ UNCHANGED <<exec, code>>
    /\ UNCHANGED <<build, bjob, marks, pushed>>
\* The stream ends with the command's own exit, or breaks.
ExecWithInput ==
    /\ panel.at = "stream"
    /\ \/ "ready" \in marks /\ PanelGoes("pod") /\ UNCHANGED <<exec, bfaults>>
       \/ exec = "cut" /\ PanelGoes("delete") /\ UNCHANGED <<exec, bfaults>>
       \/ PodFails /\ marks = {} /\ exec = "open" /\ exec' = "cut" /\ UNCHANGED panel
    /\ UNCHANGED <<build, bjob, code, marks, pushed>>
\* A Job that never got its code is deleted, if that can be done.
DeleteJob ==
    /\ panel.at = "delete" /\ Concludes("undelivered", "")
    /\ \/ bjob' = [bjob EXCEPT !.at = "none"] /\ UNCHANGED bfaults
       \/ PodFails /\ UNCHANGED bjob
    /\ UNCHANGED <<build, code, marks, exec, pushed>>
\* Five minutes for the pod to leave Pending.
WaitForBuildPod ==
    /\ panel.at = "pod"
    /\ \/ Started /\ PanelGoes("job")
       \/ ~Started /\ Concludes("not started", "")
    /\ UNCHANGED <<build, bjob, code, marks, exec, pushed, bfaults>>
\* The stage whose container ended badly; "build" when the pods cannot be listed or the pod is gone.
FailedStage(listed) ==
    IF listed /\ bjob.failed # {"gone"} THEN CHOOSE s \in bjob.failed : TRUE ELSE "build"
WaitForJob_AnyEnd ==
    /\ panel.at = "job"
    /\ Running("done") /\ Concludes("built", "")
    /\ UNCHANGED <<build, bjob, code, marks, exec, pushed, bfaults>>
WaitForJob ==
    /\ panel.at = "job"
    /\ \/ Running("done") /\ bjob.failed = {} /\ Concludes("built", "") /\ UNCHANGED bfaults
       \/ /\ Running("done") /\ bjob.failed # {}
          /\ \/ Concludes("failed", FailedStage(TRUE)) /\ UNCHANGED bfaults
             \/ PodFails /\ Concludes("failed", FailedStage(FALSE))
       \/ PodFails /\ Concludes("error", "")            \* the Job could not be read, or took too long
    /\ UNCHANGED <<build, bjob, code, marks, exec, pushed>>

\* The panel ends: the stream with it, the Job without it.
PanelEnds ==
    /\ PodFails /\ panel.at # "off"
    /\ panel' = [at |-> "off", says |-> "restarted", stage |-> ""]
    /\ exec' = IF exec = "open" /\ marks = {} THEN "cut" ELSE exec
    /\ UNCHANGED <<build, bjob, code, marks, pushed>>
\* The Job's own deadline: the pod is stopped and taken away.
DeadlinePasses ==
    /\ PodFails /\ bjob.at \in {"pending", "clone", "prepare", "build"}
    /\ Fails("gone") /\ exec' = IF exec = "open" /\ marks = {} THEN "cut" ELSE exec
    /\ UNCHANGED <<build, panel, code, marks, pushed>>

PodStep == PodStarts \/ CloneScript \/ ReceiveScript \/ ReceiveCommand \/ PrepareContainer \/ BuildContainer
PanelStep == \/ DeleteAndWait \/ ApplyJob \/ WaitForSourceContainer \/ DeliverUpload \/ ExecWithInput
             \/ DeleteJob \/ WaitForBuildPod \/ WaitForJob
PodNext == PodStep \/ PanelStep \/ PanelEnds \/ DeadlinePasses
PodSpec == PodInit /\ [][PodNext]_podVars

-----------------------------------------------------------------------------
(* Properties.                                                             *)

\* No container after the first ever runs on part of the code, however the stream is cut, the panel
\* ends or the wait runs out (receiveScript, ReceiveCommand, deliverUpload); and what the panel
\* concludes of the whole is so: built means pushed and failed means not pushed.  Of the stage it
\* names only this is so: one that is not "build" is the one that failed; "build" is also said when
\* nobody could be asked (waitForJob, failedStage).
OnlyWholeCodeIsBuilt ==
    /\ bjob.at \in {"prepare", "build"} \/ pushed => code = "whole"
    /\ panel.says = "built" => pushed
    /\ panel.says = "failed" => ~pushed /\ (panel.stage = "build" \/ bjob.failed = {panel.stage})

\* Every build begun is concluded and every Job comes to its end, also one whose code never arrives
\* (receiveScript's limit) and one nobody waits for any more.
BuildEnds == panel.at # "clear" ~> panel.at = "off" /\ bjob.at \in {"none", "old", "done"}

\* "No build pod became ready within five minutes.": "Nothing was built or deployed."
NotStartedMeansNotBuilt == panel.says = "not started" => ~pushed
=============================================================================
