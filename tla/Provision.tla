----------------------------- MODULE Provision -----------------------------
(***************************************************************************)
(* Adding, retrying, promoting, renaming and removing a server:            *)
(* internal/provision (provisioner.go, runner.go, remove.go) over the      *)
(* servers, operations and operation_steps tables, and the handlers of     *)
(* internal/api/servers_handlers.go that call it.  The panel is attached   *)
(* to the cluster the server joins.                                        *)
(*                                                                         *)
(* An operation is a row with a step row per step of its plan, and a       *)
(* goroutine under a context of thirty minutes, registered in running      *)
(* under the operation's id.  A statement through a context that has ended *)
(* has no effect; UpdateServer writes every column of a row that was read  *)
(* earlier.                                                                *)
(***************************************************************************)
EXTENDS Naturals, Sequences, FiniteSets

CONSTANTS
    Servers,   \* the machines
    Requests,  \* the requests that may be in progress at once
    MaxOps,    \* bound: operations ever created
    Mixes      \* what behaviours may meet: requests, faults, overlapping work

CallKinds  == {"add", "retry", "remove", "promote", "cancel", "rename"}
FaultKinds == {"timeout", "panic", "restart", "disconnect"}

ASSUME MaxOpsAssumption == MaxOps \in Nat
ASSUME MixesAssumption  ==
    Mixes \subseteq [calls : SUBSET CallKinds, faults : SUBSET FaultKinds,
                     ops : 0..MaxOps, overlap : BOOLEAN]

VARIABLES
    row,      \* row[s]: the servers row, NoRow when there is none
    op,       \* op[o]: the operations row
    step,     \* step[o]: the status of each of its operation_steps
    running,  \* Provisioner.running
    work,     \* work[o]: the goroutine of an operation
    dying,    \* dying[o]: one that has panicked, and whether its context lived
    req,      \* req[q]: a request in progress
    machine,  \* machine[s]: whether k3s is on the machine
    node,     \* node[s]: the node object in the cluster
    mix       \* the mix this behaviour meets

vars == <<row, op, step, running, work, dying, req, machine, node, mix>>

Ops == 1..MaxOps

AddSteps     == <<"connect", "preflight", "install-key", "firewall",
                  "connectivity", "install-k3s", "wait-ready">>
RemoveSteps  == <<"cordon", "drain", "delete-node", "uninstall">>
PromoteSteps == <<"preflight", "drain", "leave", "install-k3s", "wait-ready">>

Plan(kind) == CASE kind = "add"     -> AddSteps
                [] kind = "remove"  -> RemoveSteps
                [] kind = "promote" -> PromoteSteps

Keys(plan) == {plan[i] : i \in DOMAIN plan}
AllKeys    == Keys(AddSteps) \cup Keys(RemoveSteps) \cup Keys(PromoteSteps)

NoRow  == [status |-> "none", role |-> "none", node |-> FALSE, key |-> FALSE, seen |-> FALSE]
NoOp   == [kind |-> "none", status |-> "none", s |-> "none"]
NoWork == [prog |-> "none", at |-> "off", n |-> 0, live |-> FALSE, pass |-> FALSE,
           skip |-> {}, orig |-> NoRow, copy |-> NoRow, wipe |-> FALSE]
NoReq  == [call |-> "none", at |-> "off", s |-> "none", o |-> 0, copy |-> NoRow, pass |-> FALSE]

Exists(s) == row[s].status # "none"
Made      == {o \in Ops : op[o].kind # "none"}
Alive(o)  == work[o].at # "off"
Of(s)     == {o \in Made : op[o].s = s}

\* LatestOperation: of any kind.
LatestOperation(s) == CHOOSE o \in Of(s) : \A p \in Of(s) : p <= o

-----------------------------------------------------------------------------
(* The statements.                                                         *)

\* UpdateServer writes a whole row; of a row that is gone it is an error.
UpdateServer(s, r) == row' = [row EXCEPT ![s] = r]

SetServerStatus(s, status) ==
    row' = [row EXCEPT ![s] = IF @.status = "none" THEN @ ELSE [@ EXCEPT !.status = status]]

SetOperationStatus(o, status) == op' = [op EXCEPT ![o].status = status]

\* A step the operation does not have is no row to update.
SetStepStatus(o, k, status) ==
    step' = [step EXCEPT ![o][k] = IF @ = "absent" THEN @ ELSE status]

CompletedSteps(o) == {k \in AllKeys : step[o][k] = "succeeded"}

Position(plan, k) == CHOOSE i \in DOMAIN plan : plan[i] = k

ResetStepsFrom(o, k) ==
    LET plan == Plan(op[o].kind)
    IN  step' = [step EXCEPT ![o] = [j \in AllKeys |->
                    IF /\ j \in Keys(plan) /\ k \in Keys(plan)
                       /\ Position(plan, j) >= Position(plan, k)
                    THEN "pending" ELSE @[j]]]

\* Where a retry starts: the first step that has not succeeded.
FirstOpenStep(o) ==
    LET plan == Plan(op[o].kind)
        open == {i \in DOMAIN plan : step[o][plan[i]] # "succeeded"}
    IN  IF open = {} THEN "connect" ELSE plan[CHOOSE i \in open : \A j \in open : i <= j]

\* Mutant: a status the other statements do not know.
CreateOperation_Queued(o, kind, s) ==
    /\ op' = [op EXCEPT ![o] = [kind |-> kind, status |-> "queued", s |-> s]]
    /\ step' = [step EXCEPT ![o] = [k \in AllKeys |->
                    IF k \in Keys(Plan(kind)) THEN "pending" ELSE "absent"]]

CreateOperation(o, kind, s) ==
    /\ op' = [op EXCEPT ![o] = [kind |-> kind, status |-> "pending", s |-> s]]
    /\ step' = [step EXCEPT ![o] = [k \in AllKeys |->
                    IF k \in Keys(Plan(kind)) THEN "pending" ELSE "absent"]]

-----------------------------------------------------------------------------
Init ==
    /\ row = [s \in Servers |-> NoRow]
    /\ op = [o \in Ops |-> NoOp]
    /\ step = [o \in Ops |-> [k \in AllKeys |-> "absent"]]
    /\ running = {}
    /\ work = [o \in Ops |-> NoWork]
    /\ dying = [o \in Ops |-> "no"]
    /\ req = [q \in Requests |-> NoReq]
    /\ machine = [s \in Servers |-> FALSE]
    /\ node = [s \in Servers |-> "none"]
    /\ mix \in Mixes

Free(q) == req[q] = NoReq
Reply(q) == req' = [req EXCEPT ![q] = NoReq]
ReqAt(q, where) == req' = [req EXCEPT ![q].at = where]
NewOp == Cardinality(Made) + 1
MayCreate == NewOp <= mix.ops

\* Somebody is at work on the server, or about to be.
Busy(s) == \/ \E o \in Of(s) : Alive(o) \/ dying[o] # "no"
           \/ \E q \in Requests : req[q].s = s

\* start: never the same operation twice at once.
Register(o, w) ==
    IF o \in running THEN UNCHANGED <<running, work>>
    ELSE running' = running \cup {o} /\ work' = [work EXCEPT ![o] = w]

(* AddServer: the row, the user's key if there is one, the operation, start. *)
AddServer(q, s) ==
    /\ Free(q) /\ "add" \in mix.calls /\ ~Exists(s) /\ Of(s) = {} /\ MayCreate
    /\ \E key \in BOOLEAN, role \in {"worker", "control-plane"} :
        /\ UpdateServer(s, [status |-> "pending", role |-> role,
                            node |-> FALSE, key |-> key, seen |-> FALSE])
        /\ req' = [req EXCEPT ![q] = [NoReq EXCEPT !.call = "add", !.at = "create",
                                                   !.s = s, !.pass = ~key]]
    /\ UNCHANGED <<op, step, running, work, machine, node, dying, mix>>

\* RemoveServer and PromoteServer keep the row they read; whether another
\* operation is working on the server is not asked.
KeepRow(q, s, call) ==
    /\ Free(q) /\ call \in mix.calls
    /\ Exists(s) /\ MayCreate /\ (mix.overlap \/ ~Busy(s))
    /\ req' = [req EXCEPT ![q] = [NoReq EXCEPT !.call = call, !.at = "create",
                                               !.s = s, !.copy = row[s]]]
    /\ UNCHANGED <<row, op, step, running, work, machine, node, dying, mix>>

\* A control plane is not removed: fewer than four are left in a cluster of
\* this size.
AskRemove(q, s)  == row[s].role # "control-plane" /\ KeepRow(q, s, "remove")

\* The two other servers that a promotion asks for are there.
AskPromote(q, s) == row[s].role # "control-plane" /\ KeepRow(q, s, "promote")

CreateTheOperation(q) ==
    /\ req[q].at = "create"
    /\ MayCreate
    /\ CreateOperation(NewOp, req[q].call, req[q].s)
    /\ req' = [req EXCEPT ![q].at = "start", ![q].o = NewOp]
    /\ UNCHANGED <<row, running, work, machine, node, dying, mix>>

Start(q) ==
    /\ req[q].at = "start"
    /\ \E wipe \in BOOLEAN :
        /\ wipe => req[q].call = "remove"
        /\ Register(req[q].o, [NoWork EXCEPT
               !.prog = IF req[q].call = "retry" THEN "add" ELSE req[q].call,
               !.at = "begin", !.live = TRUE, !.pass = req[q].pass,
               !.orig = req[q].copy, !.wipe = wipe])
    /\ Reply(q)
    /\ UNCHANGED <<row, op, step, machine, node, mix, dying>>

(* RetryServer: the latest operation, whatever it is, runs as an add.      *)
RetryServer(q, s) ==
    /\ Free(q) /\ "retry" \in mix.calls /\ Exists(s) /\ Of(s) # {} /\ (mix.overlap \/ ~Busy(s))
    /\ op[LatestOperation(s)].status # "running"
    /\ req' = [req EXCEPT ![q] = [NoReq EXCEPT !.call = "retry", !.at = "reset",
                                               !.s = s, !.o = LatestOperation(s)]]
    /\ UNCHANGED <<row, op, step, running, work, machine, node, dying, mix>>

RetryReset(q) ==
    /\ req[q].at = "reset"
    /\ ResetStepsFrom(req[q].o, FirstOpenStep(req[q].o))
    /\ ReqAt(q, "again")
    /\ UNCHANGED <<row, op, running, work, machine, node, mix, dying>>

RetryAgain(q) ==
    /\ req[q].at = "again"
    /\ SetOperationStatus(req[q].o, "running")
    /\ ReqAt(q, "start")
    /\ UNCHANGED <<row, step, running, work, machine, node, dying, mix>>

(* Cancel: the context first, then the row, through the request's context. *)
Cancel(q, o) ==
    /\ Free(q) /\ "cancel" \in mix.calls /\ o \in running
    /\ work' = [work EXCEPT ![o].live = FALSE]
    /\ req' = [req EXCEPT ![q] = [NoReq EXCEPT !.call = "cancel", !.at = "record", !.o = o]]
    /\ UNCHANGED <<row, op, step, running, machine, node, dying, mix>>

CancelRecord(q) ==
    /\ req[q].at = "record"
    /\ SetOperationStatus(req[q].o, "cancelled")
    /\ Reply(q)
    /\ UNCHANGED <<row, step, running, work, machine, node, mix, dying>>

(* handleUpdateServer: a name changes, every column is written.            *)
Rename(q, s) ==
    /\ Free(q) /\ "rename" \in mix.calls /\ Exists(s) /\ (mix.overlap \/ ~Busy(s))
    /\ req' = [req EXCEPT ![q] = [NoReq EXCEPT !.call = "rename", !.at = "write",
                                               !.s = s, !.copy = row[s]]]
    /\ UNCHANGED <<row, op, step, running, work, machine, node, dying, mix>>

RenameWrite(q) ==
    /\ req[q].at = "write"
    /\ IF Exists(req[q].s) THEN UpdateServer(req[q].s, req[q].copy) ELSE UNCHANGED row
    /\ Reply(q)
    /\ UNCHANGED <<op, step, running, work, machine, node, mix, dying>>

\* The caller goes away: the next statement of its request is refused.
RequestIsCut(q) ==
    /\ "disconnect" \in mix.faults
    /\ req[q].at \in {"create", "reset", "again", "record", "write"}
    /\ Reply(q)
    /\ UNCHANGED <<row, op, step, running, work, machine, node, dying, mix>>

-----------------------------------------------------------------------------
(* The goroutine of an operation.                                          *)

WorkAt(o, where) == work' = [work EXCEPT ![o].at = where]
Key(o)  == Plan(work[o].prog)[work[o].n]
Last(o) == work[o].n = Len(Plan(work[o].prog))

\* Mutant: the entry stays in the map.
Finish_Forgets(o) ==
    /\ UNCHANGED running
    /\ work' = [work EXCEPT ![o] = NoWork]

\* finish, deferred by every program.
Finish(o) ==
    /\ running' = running \ {o}
    /\ work' = [work EXCEPT ![o] = NoWork]

Begin(o) ==
    /\ work[o].at = "begin"
    /\ IF work[o].live THEN SetOperationStatus(o, "running") ELSE UNCHANGED op
    /\ WorkAt(o, IF work[o].prog = "promote" THEN "read" ELSE "server")
    /\ UNCHANGED <<row, step, running, req, machine, node, mix, dying>>

BeginServer(o) ==
    /\ work[o].at = "server"
    /\ IF work[o].live
       THEN SetServerStatus(op[o].s, IF work[o].prog = "add" THEN "provisioning" ELSE "removing")
       ELSE UNCHANGED row
    /\ WorkAt(o, "read")
    /\ UNCHANGED <<op, step, running, req, machine, node, mix, dying>>

\* runAddServer reads the steps an earlier attempt finished; the others
\* start from the top.
ReadDone(o) ==
    /\ work[o].at = "read"
    /\ IF work[o].prog = "add" /\ ~work[o].live
       THEN WorkAt(o, "failop")
       ELSE work' = [work EXCEPT ![o].at = "mark", ![o].n = 1,
                       ![o].skip = IF work[o].prog = "add" THEN CompletedSteps(o) ELSE {}]
    /\ UNCHANGED <<row, op, step, running, req, machine, node, mix, dying>>

\* A finished step is passed over, except that the connection is made again.
Skipped(o) == Key(o) \in work[o].skip /\ Key(o) # "connect"

\* After the last step the row is deleted or the operation recorded.
Advance(o, w) ==
    work' = [work EXCEPT ![o] =
        IF ~Last(o) THEN [w EXCEPT !.copy = NoRow, !.n = @ + 1, !.at = IF Key(o) = "leave" THEN "role" ELSE "mark"]
        ELSE [w EXCEPT !.at = IF w.prog = "remove" THEN "delete" ELSE "success"]]

StepSkip(o) ==
    /\ work[o].at = "mark" /\ Skipped(o)
    /\ Advance(o, work[o])
    /\ UNCHANGED <<row, op, step, running, req, machine, node, mix, dying>>

\* Steps that work on the row as the request read it.
ByRequest(o) == work[o].prog = "remove" \/ Key(o) \in {"drain", "leave"}

\* setStep(running); an add reads the row as its step starts.
StepMark(o) ==
    /\ work[o].at = "mark" /\ ~Skipped(o)
    /\ IF work[o].live /\ Key(o) \notin work[o].skip
       THEN SetStepStatus(o, Key(o), "running") ELSE UNCHANGED step
    /\ work' = [work EXCEPT ![o].at = "do",
                    ![o].copy = IF ByRequest(o) THEN work[o].orig ELSE row[op[o].s]]
    /\ UNCHANGED <<row, op, running, req, machine, node, mix, dying>>

(* The steps when they succeed: what each needs, what it writes back into   *)
(* the row it read, and what it does to the machine and the cluster.  The   *)
(* ones on a row or node that is not there do nothing.                      *)

WayIn(o)      == work[o].copy.key \/ work[o].pass
WriteBack(o, r) == Exists(op[o].s) /\ UpdateServer(op[o].s, r)
SetNode(o, n) == node' = [node EXCEPT ![op[o].s] = n]
SetMachine(o, k3s) == machine' = [machine EXCEPT ![op[o].s] = k3s]

\* The host key is trusted on first use, and kept.
StepConnect(o) ==
    LET c == work[o].copy
    IN  /\ c.status # "none" /\ WayIn(o)
        /\ IF c.seen THEN UNCHANGED row ELSE WriteBack(o, [c EXCEPT !.seen = TRUE])
        /\ UNCHANGED <<machine, node>>

\* The row is read and written after the script: nothing of it is lost.
StepPreflight(o) ==
    /\ work[o].prog = "promote" => StepConnect(o)
    /\ work[o].prog # "promote" => Exists(op[o].s) /\ UNCHANGED <<row, machine, node>>

\* One key per server, installed with the password, tried, then stored.
StepInstallKey(o) ==
    LET c == work[o].copy
    IN  /\ c.status # "none"
        /\ IF c.key THEN UNCHANGED row ELSE WriteBack(o, [c EXCEPT !.key = TRUE])
        /\ UNCHANGED <<machine, node>>

StepFirewall(o)     == UNCHANGED <<row, machine, node>>
StepConnectivity(o) == UNCHANGED <<row, machine, node>>

\* The script joins the cluster the panel runs in; a node that is still
\* registered keeps its object.  A promotion connects again first.
StepInstallK3s(o) ==
    /\ work[o].copy.status # "none"
    /\ work[o].prog = "promote" => work[o].copy.key
    /\ SetMachine(o, TRUE)
    /\ SetNode(o, IF node[op[o].s] = "none" THEN "open" ELSE node[op[o].s])
    /\ UNCHANGED row

\* Mutant: the row is put together from the request, which has no key.
StepWaitReady_FromRequest(o) ==
    /\ node[op[o].s] # "none"
    /\ WriteBack(o, [work[o].copy EXCEPT !.node = TRUE, !.status = "ready", !.key = FALSE])
    /\ UNCHANGED <<machine, node>>

\* The row was read when the wait began.
StepWaitReady(o) ==
    /\ work[o].copy.status # "none" /\ node[op[o].s] # "none"
    /\ WriteBack(o, [work[o].copy EXCEPT !.node = TRUE, !.status = "ready"])
    /\ UNCHANGED <<machine, node>>

Cordon(o) ==
    /\ SetNode(o, IF work[o].copy.node /\ node[op[o].s] = "open" THEN "cordoned" ELSE node[op[o].s])
    /\ UNCHANGED <<row, machine>>

\* A removal has cordoned already, a promotion does it here.  What is evicted
\* is not modelled, only that it may refuse to go.
Drain(o) == Cordon(o)

\* Mutant: the node object stays.
DeleteNode_Stays(o) == UNCHANGED <<row, machine, node>>

DeleteNode(o) ==
    /\ SetNode(o, IF work[o].copy.node THEN "none" ELSE node[op[o].s])
    /\ UNCHANGED <<row, machine>>

\* A promotion leaves the cluster as a worker: the node, then k3s.
Leave(o) ==
    /\ work[o].copy.key
    /\ SetNode(o, IF work[o].copy.node THEN "none" ELSE node[op[o].s])
    /\ SetMachine(o, FALSE)
    /\ UNCHANGED row

Effect(o) ==
    CASE Key(o) = "connect"      -> StepConnect(o)
      [] Key(o) = "preflight"    -> StepPreflight(o)
      [] Key(o) = "install-key"  -> StepInstallKey(o)
      [] Key(o) = "firewall"     -> StepFirewall(o)
      [] Key(o) = "connectivity" -> StepConnectivity(o)
      [] Key(o) = "install-k3s"  -> StepInstallK3s(o)
      [] Key(o) = "wait-ready"   -> StepWaitReady(o)
      [] Key(o) = "cordon"       -> Cordon(o)
      [] Key(o) = "drain"        -> Drain(o)
      [] Key(o) = "delete-node"  -> DeleteNode(o)
      [] Key(o) = "leave"        -> Leave(o)

StepWorks(o) ==
    /\ work[o].at = "do" /\ Key(o) # "uninstall" /\ work[o].live
    /\ Effect(o)
    /\ work' = [work EXCEPT ![o].at = "did", ![o].copy = NoRow,
                             ![o].pass = @ /\ Key(o) # "install-key"]
    /\ UNCHANGED <<op, step, running, req, mix, dying>>

\* Any step may fail, and one whose context has ended does; what it did
\* before that stays done.
StepFails(o) ==
    /\ work[o].at = "do" /\ Key(o) # "uninstall"
    /\ work' = [work EXCEPT ![o].at = "failstep", ![o].copy = NoRow, ![o].pass = FALSE]
    /\ \/ UNCHANGED <<row, machine, node>>
       \/ Key(o) = "drain" /\ Cordon(o)
       \/ Key(o) = "leave" /\ DeleteNode(o)
       \/ Key(o) = "install-k3s" /\ StepInstallK3s(o)
    /\ UNCHANGED <<op, step, running, req, mix, dying>>

\* uninstall is asked for with wipe; when it fails the removal goes on.
Uninstall(o) ==
    /\ work[o].at = "do" /\ Key(o) = "uninstall"
    /\ \E ok \in BOOLEAN :
        /\ ok => work[o].live /\ work[o].wipe /\ work[o].copy.key
        /\ machine' = IF ok THEN [machine EXCEPT ![op[o].s] = FALSE] ELSE machine
        /\ IF work[o].live
           THEN SetStepStatus(o, "uninstall", CASE ok -> "succeeded"
                                                [] ~work[o].wipe -> "skipped"
                                                [] OTHER -> "failed")
           ELSE UNCHANGED step
    /\ Advance(o, work[o])
    /\ UNCHANGED <<row, op, running, req, node, mix, dying>>

StepDone(o) ==
    /\ work[o].at = "did"
    /\ IF work[o].live /\ Key(o) \notin work[o].skip
       THEN SetStepStatus(o, Key(o), "succeeded") ELSE UNCHANGED step
    /\ Advance(o, work[o])
    /\ UNCHANGED <<row, op, running, req, machine, node, mix, dying>>

\* Mutant: the role is not written.
Promote_KeepsRole(o) ==
    /\ work[o].at = "role"
    /\ IF work[o].live /\ Exists(op[o].s)
       THEN /\ UpdateServer(op[o].s, [work[o].orig EXCEPT !.node = FALSE])
            /\ WorkAt(o, "mark")
       ELSE WorkAt(o, "failop") /\ UNCHANGED row
    /\ UNCHANGED <<op, step, running, req, machine, node, mix, dying>>

\* runPromote writes the role into the row its request read.
Promote(o) ==
    /\ work[o].at = "role"
    /\ IF work[o].live /\ Exists(op[o].s)
       THEN /\ UpdateServer(op[o].s, [work[o].orig EXCEPT !.role = "control-plane", !.node = FALSE])
            /\ WorkAt(o, "mark")
       ELSE WorkAt(o, "failop") /\ UNCHANGED row
    /\ UNCHANGED <<op, step, running, req, machine, node, mix, dying>>

\* DeleteServer; a row that is gone is a failure of the operation.
DeleteServer(o) ==
    /\ work[o].at = "delete"
    /\ IF work[o].live /\ Exists(op[o].s)
       THEN UpdateServer(op[o].s, NoRow) /\ WorkAt(o, "success")
       ELSE WorkAt(o, "failop") /\ UNCHANGED row
    /\ UNCHANGED <<op, step, running, req, machine, node, mix, dying>>

Succeed(o) ==
    /\ work[o].at = "success"
    /\ IF work[o].live THEN SetOperationStatus(o, "succeeded") ELSE UNCHANGED op
    /\ IF work[o].prog = "remove" THEN Finish(o)
       ELSE WorkAt(o, "ready") /\ UNCHANGED running
    /\ UNCHANGED <<row, step, req, machine, node, mix, dying>>

SucceedServer(o) ==
    /\ work[o].at = "ready"
    /\ IF work[o].live THEN SetServerStatus(op[o].s, "ready") ELSE UNCHANGED row
    /\ Finish(o)
    /\ UNCHANGED <<op, step, req, machine, node, mix, dying>>

(* failStep: the step, the operation, the server, through the context      *)
(* that may be the reason for the failure; failOperation is the last two.  *)
FailStep(o) ==
    /\ work[o].at = "failstep"
    /\ IF work[o].live THEN SetStepStatus(o, Key(o), "failed") ELSE UNCHANGED step
    /\ WorkAt(o, "failop")
    /\ UNCHANGED <<row, op, running, req, machine, node, mix, dying>>

FailOperation(o) ==
    /\ work[o].at = "failop"
    /\ IF work[o].live THEN SetOperationStatus(o, "failed") ELSE UNCHANGED op
    /\ WorkAt(o, "failserver")
    /\ UNCHANGED <<row, step, running, req, machine, node, mix, dying>>

\* Mutant: the server keeps the status it had.
FailServer_Forgets(o) ==
    /\ work[o].at = "failserver"
    /\ Finish(o)
    /\ UNCHANGED <<row, op, step, req, machine, node, mix, dying>>

FailServer(o) ==
    /\ work[o].at = "failserver"
    /\ IF work[o].live THEN SetServerStatus(op[o].s, "failed") ELSE UNCHANGED row
    /\ Finish(o)
    /\ UNCHANGED <<op, step, req, machine, node, mix, dying>>

-----------------------------------------------------------------------------
(* What happens to a goroutine.                                            *)

\* maxOperationDuration is over.
Expire(o) ==
    /\ "timeout" \in mix.faults /\ Alive(o) /\ work[o].live
    /\ work' = [work EXCEPT ![o].live = FALSE]
    /\ UNCHANGED <<row, op, step, running, req, machine, node, dying, mix>>

\* The program's own deferred finish runs while the panic unwinds it ...
Panic(o) ==
    /\ "panic" \in mix.faults /\ Alive(o) /\ dying[o] = "no"
    /\ dying' = [dying EXCEPT ![o] = IF work[o].live THEN "live" ELSE "dead"]
    /\ Finish(o)
    /\ UNCHANGED <<row, op, step, req, machine, node, mix>>

\* ... then Recover's callback: finish again, and failPanicked.
FailPanicked(o) ==
    /\ dying[o] # "no"
    /\ running' = running \ {o}
    /\ IF dying[o] = "live" THEN SetOperationStatus(o, "failed") ELSE UNCHANGED op
    /\ dying' = [dying EXCEPT ![o] = "no"]
    /\ UNCHANGED <<row, step, work, req, machine, node, mix>>

\* Mutant: operations that had not begun are not looked for.
Interrupted_RunningOnly == {o \in Made : op[o].status = "running"}

\* ListRunningOperations.
Interrupted == {o \in Made : op[o].status \in {"pending", "running"}}

\* A restart, with ResumeInterrupted before the listener opens.
Restart ==
    /\ "restart" \in mix.faults
    /\ running' = {}
    /\ work' = [o \in Ops |-> NoWork]
    /\ dying' = [o \in Ops |-> "no"]
    /\ req' = [q \in Requests |-> NoReq]
    /\ op' = [o \in Ops |-> IF o \in Interrupted THEN [op[o] EXCEPT !.status = "failed"] ELSE op[o]]
    /\ step' = [o \in Ops |-> [k \in AllKeys |->
                   IF o \in Interrupted /\ step[o][k] = "running" THEN "failed" ELSE step[o][k]]]
    /\ row' = [s \in Servers |->
                   IF Exists(s) /\ \E o \in Interrupted : op[o].s = s
                   THEN [row[s] EXCEPT !.status = "failed"] ELSE row[s]]
    /\ UNCHANGED <<machine, node, mix>>

-----------------------------------------------------------------------------
Ask(q) == \/ \E s \in Servers : AddServer(q, s) \/ AskRemove(q, s) \/ AskPromote(q, s)
                                \/ RetryServer(q, s) \/ Rename(q, s)
          \/ \E o \in Ops : Cancel(q, o)

Serve(q) == \/ CreateTheOperation(q) \/ Start(q) \/ RetryReset(q)
            \/ RetryAgain(q) \/ CancelRecord(q) \/ RenameWrite(q)

Run(o) == \/ Begin(o) \/ BeginServer(o) \/ ReadDone(o) \/ StepSkip(o) \/ StepMark(o)
          \/ StepWorks(o) \/ StepFails(o) \/ Uninstall(o) \/ StepDone(o)
          \/ Promote(o) \/ DeleteServer(o) \/ Succeed(o) \/ SucceedServer(o)
          \/ FailStep(o) \/ FailOperation(o) \/ FailServer(o) \/ FailPanicked(o)

Next == \/ \E q \in Requests : Ask(q) \/ Serve(q) \/ RequestIsCut(q)
        \/ \E o \in Ops : Run(o) \/ Expire(o) \/ Panic(o)
        \/ Restart

Spec == Init /\ [][Next]_vars

\* A request and a goroutine make their next statement or call; every call
\* of theirs has a limit of its own.
FairSpec == /\ Spec
            /\ \A q \in Requests : WF_vars(Serve(q))
            /\ \A o \in Ops : WF_vars(Run(o))

-----------------------------------------------------------------------------
(* What is expected of it.                                                 *)

Statuses == {"none", "pending", "provisioning", "ready", "failed", "removing"}
Rows     == [status : Statuses, role : {"none", "worker", "control-plane"},
             node : BOOLEAN, key : BOOLEAN, seen : BOOLEAN]
OpStatuses == {"none", "pending", "running", "succeeded", "failed", "cancelled"}

\* Every variable has its type; in particular an operation and its steps only
\* have statuses the tables know.
TypeOK ==
    /\ row \in [Servers -> Rows]
    /\ \A o \in Ops : /\ op[o].kind \in {"none", "add", "remove", "promote"}
                       /\ op[o].status \in OpStatuses
    /\ step \in [Ops -> [AllKeys -> {"absent", "pending", "running", "succeeded", "failed", "skipped"}]]
    /\ running \subseteq Made
    /\ machine \in [Servers -> BOOLEAN]
    /\ node \in [Servers -> {"none", "open", "cordoned"}]
    /\ \A o \in Ops : Alive(o) => o \in Made /\ op[o].s \in Servers

Over(o) == op[o].status \in {"succeeded", "failed", "cancelled"}

\* Provisioner.running keeps one operation from running twice at once: while it
\* has a goroutine it is in the map, and the map holds nothing else.  A panic
\* spoils it: Recover's callback takes a retry's entry out.
MapIsExact ==
    "panic" \notin mix.faults => \A o \in Ops : o \in running <=> Alive(o)

\* A row says "provisioning" or "removing" only while somebody is at it.  Not
\* so when the last write goes through a context that has ended, is skipped by
\* a panic or a restart, or is undone by a rename that read the row before it.
NobodyLeftInProgress ==
    (mix.faults = {} /\ {"cancel", "rename"} \cap mix.calls = {}) =>
        \A s \in Servers : row[s].status \in {"provisioning", "removing"} =>
            \E o \in Of(s) : Alive(o)

\* The key of a server, once stored, is never lost while the row is there: the
\* password is gone and there is no other way in.  UpdateServer writes every
\* column, so this needs that nobody renames the server meanwhile.
KeyIsKept ==
    [][("rename" \notin mix.calls \/ ~mix.overlap) =>
        \A s \in Servers : row[s].key /\ row'[s].status # "none" => row'[s].key]_vars

\* A node the panel has on record has left the cluster when its row is
\* deleted; a removal works on the row as it was when it was asked for.
RecordedNodeLeaves ==
    [][~mix.overlap => \A s \in Servers :
        row[s].node /\ row'[s].status = "none" => node'[s] = "none"]_vars

\* The same of operations that overlap: a removal works on the row as it was when
\* it was asked for, while another operation puts the node in and on record.
NodeAlwaysLeaves ==
    [][\A s \in Servers : row[s].node /\ row'[s].status = "none" => node'[s] = "none"]_vars

\* "Two k3s installers on one machine" (runner.go): the map is by operation, and
\* a removal, a promotion and a retry of one server are three.
OneAtWorkOnAMachine == \A o, p \in Made : Alive(o) /\ Alive(p) /\ op[o].s = op[p].s => o = p

\* What an operation that succeeded has done: a removal has no row left, a
\* promotion a control plane.
DidWhatItSays(o) ==
    op[o].status = "succeeded" /\ ~Alive(o) =>
        /\ op[o].kind = "remove"  => ~Exists(op[o].s)
        /\ op[o].kind = "promote" => row[op[o].s].role # "worker"

\* So it is when operations of one server do not overlap and nothing is retried.
SuccessIsWhatItSays ==
    ("retry" \notin mix.calls /\ ~mix.overlap) => \A o \in Made : DidWhatItSays(o)

\* RetryServer "resumes a failed provision from the step that failed": after a
\* retry too, an operation that succeeded did what its kind says.
RetryResumes == \A o \in Made : DidWhatItSays(o)

\* An operation that is pending or running has a goroutine, or a request that
\* is about to start one: nothing waits for somebody who is not there.  With
\* overlapping requests a retry may find its predecessor still in the map; and
\* what ends because of a timeout, a panic or a cancel is recorded by somebody
\* else, or by nobody.
RunningIsRun ==
    (~mix.overlap /\ {"timeout", "panic"} \cap mix.faults = {} /\ "cancel" \notin mix.calls) =>
        \A o \in Made : op[o].status \in {"pending", "running"} =>
            \/ Alive(o)
            \/ \E q \in Requests : req[q].o = o /\ req[q].at = "start"

\* Nobody waits for work that nobody does.  The map is exact whatever overlaps, is cancelled, runs out of
\* time or is restarted; a row that says somebody is at it, while no fault, cancel or rename interferes; an
\* operation that says so, also with restarts and lost connections.  An operation whose limit has passed is
\* none of these (LimitEndsIt), nor is how many work on a machine (OneAtWorkOnAMachine).
ServersAreLookedAfter == MapIsExact /\ NobodyLeftInProgress /\ RunningIsRun

\* maxOperationDuration "cannot leave an operation running forever".
LimitEndsIt == \A o \in Ops : op[o].status \in {"pending", "running"} ~> Over(o)
=============================================================================
