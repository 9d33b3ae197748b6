------------------------------ MODULE Backups ------------------------------
(***************************************************************************)
(* Backups of one database or one volume: internal/backup/manager.go (Run, *)
(* run, runVolume, applyRetention) over the backups table of               *)
(* internal/store/data.go and an object storage bucket.                    *)
(*                                                                         *)
(* Every backup has a goroutine in the panel and a Job in the cluster; the *)
(* Job does the copying and does not stop because the goroutine did.       *)
(* Backups run side by side: a scheduled one and those people ask for.     *)
(*                                                                         *)
(* Backups are numbered in the order of created_at.  The limits of time    *)
(* (two hours for the Job, three for the goroutine) are outcomes of the    *)
(* Job: the goroutine's own limit is never the first to pass.              *)
(***************************************************************************)
EXTENDS Naturals, FiniteSets

CONSTANTS
    MaxBackups,  \* bound: how many backups are taken
    Retention,   \* BackupPolicy.Retention
    Faults       \* which faults this instance meets

FaultKinds == {"job", "status", "storage", "rows", "panic", "restart", "same second"}

ASSUME MaxBackupsAssumption == MaxBackups \in Nat
ASSUME RetentionAssumption == Retention \in Nat \ {0}
ASSUME FaultsAssumption == Faults \subseteq FaultKinds

Ids == 1..MaxBackups

VARIABLES
    row,      \* row[b]: the row's status, "none" before and "gone" after it
    at,       \* at[b]: the row's location in the bucket
    pc,       \* pc[b]: where the goroutine of backup b is
    expired,  \* expired[b]: the rows its retention pass still has to delete
    job,      \* job[b]: the Job of backup b
    bucket,   \* the locations that hold an object
    ever,     \* history: the backups that were ever recorded as succeeded
    refused   \* history: the rows left at "running" because their end was not recorded

vars == <<row, at, pc, expired, job, bucket, ever, refused>>

Succeeded(b)  == row[b] = "succeeded"
Restorable(b) == Succeeded(b) /\ at[b] \in bucket

\* ORDER BY created_at DESC over the rows that succeeded.
Rank(b) == Cardinality({m \in Ids : Succeeded(m) /\ m >= b})

\* Mutant: the offset is one short.
ExpiredBackups_OneMore == {b \in Ids : Succeeded(b) /\ Rank(b) >= Retention}

ExpiredBackups == {b \in Ids : Succeeded(b) /\ Rank(b) > Retention}

-----------------------------------------------------------------------------
Init ==
    /\ row     = [b \in Ids |-> "none"]
    /\ at      = [b \in Ids |-> b]
    /\ pc      = [b \in Ids |-> "off"]
    /\ expired = [b \in Ids |-> {}]
    /\ job     = [b \in Ids |-> "none"]
    /\ bucket  = {}
    /\ ever    = {}
    /\ refused = {}

Goto(b, where) == pc' = [pc EXCEPT ![b] = where]

\* Run, by hand or by the scheduler: the row is written and the goroutine
\* started.  The location is made of the target and the second it is taken in.
Run(b) ==
    /\ row[b] = "none" /\ \A m \in Ids : m < b => row[m] # "none"
    /\ row' = [row EXCEPT ![b] = "running"]
    /\ \/ UNCHANGED at
       \/ /\ "same second" \in Faults
          /\ \E m \in Ids : /\ m = b - 1 /\ pc[m] = "start"
                            /\ at' = [at EXCEPT ![b] = at[m]]
    /\ Goto(b, "start")
    /\ UNCHANGED <<expired, job, bucket, ever, refused>>

\* The signed URL, its Secret and the Job; any of them may be refused.
StartJob(b) ==
    /\ pc[b] = "start"
    /\ \/ job' = [job EXCEPT ![b] = "running"] /\ Goto(b, "wait")
       \/ "storage" \in Faults /\ Goto(b, "fail") /\ UNCHANGED job
    /\ UNCHANGED <<row, at, expired, bucket, ever, refused>>

JobUploads(b) ==
    /\ job[b] = "running"
    /\ bucket' = bucket \cup {at[b]}
    /\ job' = [job EXCEPT ![b] = "done"]
    /\ UNCHANGED <<row, at, pc, expired, ever, refused>>

JobFails(b) ==
    /\ "job" \in Faults /\ job[b] = "running"
    /\ job' = [job EXCEPT ![b] = "failed"]
    /\ UNCHANGED <<row, at, pc, expired, bucket, ever, refused>>

\* One status that cannot be read fails the backup, and the Job goes on.
WaitForJob(b) ==
    /\ pc[b] = "wait"
    /\ \/ job[b] = "done" /\ Goto(b, "finish")
       \/ job[b] = "failed" /\ Goto(b, "fail")
       \/ "status" \in Faults /\ Goto(b, "fail")
    /\ UNCHANGED <<row, at, expired, job, bucket, ever, refused>>

\* Mutant: the row is given the word the event uses.
Finish_Completed(b) ==
    /\ pc[b] = "finish"
    /\ row' = [row EXCEPT ![b] = "completed"]
    /\ ever' = ever \cup {b}
    /\ Goto(b, "retention")
    /\ UNCHANGED <<at, expired, job, bucket, refused>>

\* FinishBackup when the database refuses it: the end is logged or dropped, and
\* the row goes on saying what it said.
EndNotRecorded(b) ==
    /\ "rows" \in Faults
    /\ refused' = IF row[b] = "running" THEN refused \cup {b} ELSE refused
    /\ UNCHANGED <<row, ever>>

\* FinishBackup has no guard on what the row says.
Finish(b) ==
    /\ pc[b] = "finish"
    /\ \/ /\ row' = [row EXCEPT ![b] = "succeeded"]
          /\ ever' = ever \cup {b} /\ UNCHANGED refused
       \/ EndNotRecorded(b)
    /\ Goto(b, "retention")
    /\ UNCHANGED <<at, expired, job, bucket>>

\* Mutant: the failure is logged and the row left as it is.
Fail_OnlyLogs(b) ==
    /\ pc[b] = "fail"
    /\ Goto(b, "done")
    /\ UNCHANGED <<row, at, expired, job, bucket, ever, refused>>

\* fail, called for an error or by the recover of a panic.
Fail(b) ==
    /\ pc[b] = "fail"
    /\ \/ /\ row' = [row EXCEPT ![b] = IF @ = "gone" THEN @ ELSE "failed"]
          /\ refused' = refused \ {b} /\ UNCHANGED ever
       \/ EndNotRecorded(b)
    /\ Goto(b, "done")
    /\ UNCHANGED <<at, expired, job, bucket>>

\* applyRetention: nothing to do without a policy or when the query fails.
ListExpired(b) ==
    /\ pc[b] = "retention"
    /\ \/ expired' = [expired EXCEPT ![b] = ExpiredBackups] /\ Goto(b, "trim")
       \/ UNCHANGED expired /\ Goto(b, "done")
    /\ UNCHANGED <<row, at, job, bucket, ever, refused>>

\* The list is gone through from the newest.
IsNext(b, m) == m \in expired[b] /\ \A k \in expired[b] : k <= m

\* Mutant: an object that could not be deleted does not keep its row.
RemoveObject_Forgets(b) ==
    /\ pc[b] = "trim"
    /\ \E m \in expired[b] :
          /\ IsNext(b, m)
          /\ \/ bucket' = bucket \ {at[m]}
             \/ "storage" \in Faults /\ UNCHANGED bucket
    /\ Goto(b, "delete")
    /\ UNCHANGED <<row, at, expired, job, ever, refused>>

\* The object first.  One that cannot be deleted keeps its row.
RemoveObject(b) ==
    /\ pc[b] = "trim"
    /\ \E m \in expired[b] :
          /\ IsNext(b, m)
          /\ \/ /\ bucket' = bucket \ {at[m]}
                /\ Goto(b, "delete") /\ UNCHANGED expired
             \/ /\ "storage" \in Faults
                /\ expired' = [expired EXCEPT ![b] = @ \ {m}]
                /\ UNCHANGED <<bucket, pc>>
    /\ UNCHANGED <<row, at, job, ever, refused>>

\* Then the row, and on with the rest, whether the row went or not.
DeleteBackup(b) ==
    /\ pc[b] = "delete"
    /\ \E m \in expired[b] :
          /\ IsNext(b, m)
          /\ \/ row' = [row EXCEPT ![m] = "gone"]
             \/ "rows" \in Faults /\ UNCHANGED row
          /\ expired' = [expired EXCEPT ![b] = @ \ {m}]
    /\ Goto(b, "trim")
    /\ UNCHANGED <<at, job, bucket, ever, refused>>

RetentionDone(b) ==
    /\ pc[b] = "trim" /\ expired[b] = {}
    /\ Goto(b, "done")
    /\ UNCHANGED <<row, at, expired, job, bucket, ever, refused>>

\* runsafe.Recover hands the panic to fail.
Panic(b) ==
    /\ "panic" \in Faults
    /\ pc[b] \in {"start", "wait", "finish", "retention", "trim", "delete"}
    /\ Goto(b, "fail")
    /\ UNCHANGED <<row, at, expired, job, bucket, ever, refused>>

\* markInterruptedWork, when the panel starts again.
Restart ==
    /\ "restart" \in Faults
    /\ row' = [b \in Ids |-> IF row[b] = "running" THEN "failed" ELSE row[b]]
    /\ pc'  = [b \in Ids |-> IF pc[b] = "off" THEN "off" ELSE "done"]
    /\ expired' = [b \in Ids |-> {}]
    /\ refused' = {}
    /\ UNCHANGED <<at, job, bucket, ever>>

-----------------------------------------------------------------------------
JobStep(b) == JobUploads(b) \/ JobFails(b)
BackupStep(b) ==
    \/ StartJob(b) \/ WaitForJob(b) \/ Finish(b) \/ Fail(b)
    \/ ListExpired(b) \/ RemoveObject(b) \/ DeleteBackup(b) \/ RetentionDone(b)

Next ==
    \/ \E b \in Ids : Run(b) \/ BackupStep(b) \/ JobStep(b) \/ Panic(b)
    \/ Restart

Spec == Init /\ [][Next]_vars

\* A Job has a deadline of two hours, and the goroutine's calls time out.
Fairness == \A b \in Ids : WF_vars(BackupStep(b)) /\ WF_vars(JobStep(b))

FairSpec == Spec /\ Fairness

-----------------------------------------------------------------------------
(***************************************************************************)
(* Properties.                                                             *)
(***************************************************************************)
\* Every variable has the values the code can give it.
TypeOK ==
    /\ row \in [Ids -> {"none", "running", "succeeded", "failed", "gone"}]
    /\ at \in [Ids -> Ids]
    /\ pc \in [Ids -> {"off", "start", "wait", "finish", "fail", "retention", "trim",
                       "delete", "done"}]
    /\ expired \in [Ids -> SUBSET Ids]
    /\ job \in [Ids -> {"none", "running", "done", "failed"}]
    /\ bucket \subseteq Ids
    /\ ever \subseteq Ids
    /\ refused \subseteq Ids

\* applyRetention, however many passes run at once and wherever they stop:
\* one of the newest Retention backups that succeeded is still in the bucket,
\* as long as no other backup was given the same location.
Newer(b)   == {m \in ever : m >= b}
Private(b) == \A m \in Ids : at[m] = at[b] => m = b
RetainedIsThere ==
    \A b \in Ids : Succeeded(b) /\ Cardinality(Newer(b)) <= Retention /\ Private(b)
        => at[b] \in bucket

\* applyRetention: "A backup that cannot be deleted from storage stays in the
\* list, so it is not silently forgotten while still costing money": every
\* object in the bucket has a row that names it.
ObjectsAreListed ==
    \A l \in bucket : \E b \in Ids : at[b] = l /\ row[b] \notin {"none", "gone"}

\* The rows and the bucket tell the same story, whatever fails, panics or is
\* cut off between the two: the newest Retention backups that were recorded as
\* succeeded are in the bucket, and what is in the bucket has a row.  An older
\* row may outlive its object, when only the deletion of the row is refused.
BucketMatchesRows == RetainedIsThere /\ ObjectsAreListed

\* A backup does not sit at "running" for ever, panics and restarts included;
\* only one whose end the database did not record does, until the next start.
EveryBackupEnds ==
    \A b \in Ids : row[b] = "running" ~> row[b] # "running" \/ b \in refused

\* docs/backups.md: "Older ones are deleted after a successful new one, never
\* before: a retention rule must not be able to leave you with nothing."
NeverLeftWithNothing ==
    [][(\E b \in Ids : Restorable(b)) => (\E b \in Ids : Restorable(b))']_vars
=============================================================================
