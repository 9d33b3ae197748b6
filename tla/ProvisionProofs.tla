-------------------------- MODULE ProvisionProofs --------------------------
(***************************************************************************)
(* Proofs about Provision, for every set of servers and requests, any      *)
(* number of operations and every mix of requests and faults.              *)
(***************************************************************************)
EXTENDS Provision, FiniteSetTheorems, WellFoundedInduction, NaturalsInduction, TLAPS

(***************************************************************************)
(* The inductive invariant.  That the records agree with the goroutines    *)
(* rests on where each goroutine is in its plan, on there being one actor  *)
(* to a server as long as work does not overlap (a request that has        *)
(* checked and not yet written counts as one), and on what a removal that  *)
(* has got past its third step has done to the node.                       *)
(***************************************************************************)
WorkPlaces == {"off", "begin", "server", "read", "mark", "do", "did", "role", "delete", "success", "ready",
               "failstep", "failop", "failserver"}
Programs == {"none", "add", "remove", "promote"}
OpRows == [kind : Programs, status : OpStatuses, s : Servers \cup {"none"}]
WorkRecords == [prog : Programs, at : WorkPlaces, n : Nat, live : BOOLEAN, pass : BOOLEAN, skip : SUBSET AllKeys,
                orig : Rows, copy : Rows, wipe : BOOLEAN]
ReqPlaces == {"off", "create", "start", "reset", "again", "record", "write"}
AskRecords == [call : CallKinds \cup {"none"}, at : ReqPlaces, s : Servers \cup {"none"}, o : Ops \cup {0},
               copy : Rows, pass : BOOLEAN]

ProvTypes ==
    /\ row \in [Servers -> Rows] /\ op \in [Ops -> OpRows] /\ running \subseteq Ops
    /\ work \in [Ops -> WorkRecords] /\ dying \in [Ops -> {"no", "live", "dead"}]
    /\ req \in [Requests -> AskRecords] /\ node \in [Servers -> {"none", "open", "cordoned"}]
    /\ mix \in Mixes

\* The ids of the operations are handed out one after the other.
IdsInOrder == \E k \in 0..MaxOps : Made = 1..k

\* A row that is not there is empty; an operation is about a server.
RowsAreRows == /\ \A s \in Servers : row[s].status = "none" => ~row[s].node
               /\ \A o \in Made : op[o].s \in Servers

\* What a request keeps is there, and what it copied was a row.
OnServer(r) == r.at \notin {"off", "record"}
RequestFits(r) ==
    /\ r.at = "off" => r = NoReq
    /\ OnServer(r) => r.s \in Servers
    /\ r.at = "create" => r.call \in {"add", "remove", "promote"}
    /\ r.at \in {"start", "reset", "again"} => r.o \in Made /\ op[r.o].s = r.s
    /\ r.at \in {"reset", "again"} => r.call = "retry"
    /\ r.at = "start" => r.call \in {"add", "remove", "promote", "retry"}
    /\ r.at = "record" => r.o \in Ops
    /\ r.at = "write" \/ (OnServer(r) /\ r.call \in {"remove", "promote"}) => r.copy.status # "none"
    /\ r.at = "write" => "rename" \in mix.calls
    /\ r.at = "record" => "cancel" \in mix.calls

Stepping == {"mark", "do", "did", "failstep", "role"}
WorkFits(w) ==
    /\ w.at # "off" => w.prog # "none"
    /\ w.at \in Stepping => w.n \in 1..Len(Plan(w.prog))
    /\ w.at = "delete" => w.prog = "remove"
    /\ w.at = "ready" => w.prog # "remove"
    /\ w.at = "role" => w.prog = "promote"
    /\ w.prog = "remove" => w.skip = {}
    /\ w.at # "off" /\ w.prog = "promote" => w.orig.status # "none"

WorkIsOfOperations == \A o \in Ops : /\ WorkFits(work[o])
                                     /\ Alive(o) \/ dying[o] # "no" => o \in Made

\* Without panics the map is exact and nobody is dying.
MapInv == "panic" \notin mix.faults => \A o \in Ops : (o \in running <=> Alive(o)) /\ dying[o] = "no"

\* Without timeouts and cancels nobody works on a context that has ended.
LiveInv == {"timeout", "panic"} \cap mix.faults = {} /\ "cancel" \notin mix.calls =>
               \A o \in Ops : Alive(o) => work[o].live

\* A removal that has deleted its row is about to end.
GoneInv == \A o \in Ops : work[o].at = "success" /\ work[o].prog = "remove" => ~Exists(op[o].s)

\* When work does not overlap there is one actor to a server.
AtWork(o) == Alive(o) \/ dying[o] # "no"
OneActor ==
    ~mix.overlap =>
        /\ \A q \in Requests : OnServer(req[q]) => Exists(req[q].s)
        /\ \A p, q \in Requests : OnServer(req[p]) /\ OnServer(req[q]) /\ req[p].s = req[q].s => p = q
        /\ \A q \in Requests, o \in Made : OnServer(req[q]) /\ AtWork(o) => op[o].s # req[q].s
        /\ \A o, p \in Made : AtWork(o) /\ AtWork(p) /\ op[o].s = op[p].s => o = p

\* What ends has been recorded.
EndInv ==
    (~mix.overlap /\ {"timeout", "panic"} \cap mix.faults = {} /\ "cancel" \notin mix.calls) =>
        \A o \in Ops : work[o].at \in {"ready", "failserver"} => Over(o)

\* A removal works on the row as it is, and past its third step the node that
\* the row names has left.
NodeGone(w) == w.at \in Stepping \cup {"delete"} /\ (w.n > 3 \/ (w.n = 3 /\ w.at = "did"))
NodeInv ==
    ~mix.overlap =>
        /\ \A q \in Requests : OnServer(req[q]) /\ req[q].call = "remove" => row[req[q].s].node = req[q].copy.node
        /\ \A o \in Ops : Alive(o) /\ work[o].prog = "remove" =>
               /\ Exists(op[o].s) => row[op[o].s].node = work[o].orig.node
               /\ work[o].at \in {"do"} => work[o].copy = work[o].orig
               /\ work[o].at = "delete" => work[o].n > 3
               /\ NodeGone(work[o]) /\ work[o].orig.node => node[op[o].s] = "none"

ProvInv == /\ ProvTypes /\ IdsInOrder /\ RowsAreRows /\ (\A q \in Requests : RequestFits(req[q])) /\ WorkIsOfOperations
           /\ MapInv /\ LiveInv /\ GoneInv /\ OneActor /\ EndInv /\ NodeInv
           /\ NobodyLeftInProgress /\ RunningIsRun

-----------------------------------------------------------------------------
LEMMA ProvFacts ==
    /\ MaxOps \in Nat /\ NoRow \in Rows /\ NoWork \in WorkRecords /\ NoReq \in AskRecords
    /\ NoWork.at = "off" /\ NoWork.prog = "none" /\ NoReq.at = "off" /\ NoReq.s = "none"
    /\ NoRow.status = "none" /\ NoRow.node = FALSE
<1>1. NoRow \in Rows
  BY DEF NoRow, Rows, Statuses
<1>2. NoWork \in WorkRecords
  BY <1>1 DEF NoWork, WorkRecords, Programs, WorkPlaces
<1>3. NoReq \in AskRecords
  BY <1>1 DEF NoReq, AskRecords, ReqPlaces
<1>4. QED BY <1>1, <1>2, <1>3, MaxOpsAssumption DEF NoWork, NoReq, NoRow

LEMMA EmptyFits == WorkFits(NoWork) /\ RequestFits(NoReq)
BY ProvFacts DEF WorkFits, RequestFits, OnServer, Stepping

LEMMA PlanFacts ==
    /\ \A kind \in {"add", "remove", "promote"} : Len(Plan(kind)) \in Nat /\ Len(Plan(kind)) >= 1
    /\ Len(Plan("remove")) = 4 /\ Plan("remove")[1] = "cordon" /\ Plan("remove")[2] = "drain"
    /\ Plan("remove")[3] = "delete-node" /\ Plan("remove")[4] = "uninstall"
BY DEF Plan, AddSteps, RemoveSteps, PromoteSteps

LEMMA ProvStart == Init => ProvInv
<1> SUFFICES ASSUME Init PROVE ProvInv
  OBVIOUS
<1> USE DEF Init
<1>1. \A o \in Ops : op[o].kind = "none" /\ op[o] \in OpRows /\ work[o] = NoWork
  BY DEF NoOp, OpRows, Programs, OpStatuses
<1>2. ProvTypes
  BY <1>1, ProvFacts DEF ProvTypes
<1>3. Made = {}
  BY <1>1 DEF Made
<1>4. IdsInOrder
  <2>1. Made = 1..0 /\ 0 \in 0..MaxOps
    BY <1>3, ProvFacts
  <2>2. QED BY <2>1 DEF IdsInOrder
<1>5. \A s \in Servers : row[s] = NoRow
  OBVIOUS
<1>6. \A q \in Requests : req[q] = NoReq
  OBVIOUS
<1>7. RowsAreRows /\ \A q \in Requests : RequestFits(req[q])
  BY <1>3, <1>5, <1>6, ProvFacts, EmptyFits DEF RowsAreRows
<1>8. \A o \in Ops : ~Alive(o) /\ ~AtWork(o)
  BY <1>1, ProvFacts DEF Alive, AtWork
<1>9. WorkIsOfOperations /\ MapInv /\ LiveInv
  BY <1>1, <1>8, EmptyFits DEF WorkIsOfOperations, AtWork, MapInv, LiveInv
<1>10. GoneInv /\ EndInv
  BY <1>1, ProvFacts DEF GoneInv, EndInv
<1>11. OneActor /\ NodeInv
  BY <1>3, <1>6, <1>8, ProvFacts DEF OneActor, NodeInv, OnServer
<1>12. NobodyLeftInProgress
  BY <1>5, ProvFacts DEF NobodyLeftInProgress
<1>13. RunningIsRun
  BY <1>3 DEF RunningIsRun
<1>14. QED BY <1>2, <1>4, <1>7, <1>9, <1>10, <1>11, <1>12, <1>13 DEF ProvInv

-----------------------------------------------------------------------------
(* What a step touches.                                                    *)

OnlyOp(o) == /\ op' \in [Ops -> OpRows]
             /\ \A p \in Ops : op'[p].kind = op[p].kind /\ op'[p].s = op[p].s /\ (p # o => op'[p] = op[p])

\* The row of s is as it was, or was there and still is, or goes.
OnlyRow(s) == /\ row' \in [Servers -> Rows]
              /\ \A t \in Servers : t # s => row'[t] = row[t]
              /\ row'[s] = row[s] \/ (Exists(s) /\ row'[s].status # "none") \/ row'[s] = NoRow
OnlyNode(s) == node' \in [Servers -> {"none", "open", "cordoned"}] /\ \A t \in Servers : t # s => node'[t] = node[t]

\* Work of which nothing but timely records is expected.
Calmly(m) == ~m.overlap /\ {"timeout", "panic"} \cap m.faults = {} /\ "cancel" \notin m.calls
Undisturbed(m) == m.faults = {} /\ {"cancel", "rename"} \cap m.calls = {}

LEMMA OpsStay ==
    ASSUME ProvInv, NEW o \in Ops, OnlyOp(o)
    PROVE  /\ Made' = Made /\ IdsInOrder' /\ \A s \in Servers : Of(s)' = Of(s)
           /\ \A p \in Made : p \in Ops /\ op'[p].s = op[p].s /\ op[p].s \in Servers
<1>1. Made' = Made
  BY DEF OnlyOp, Made
<1>2. \A s \in Servers : Of(s)' = Of(s)
  BY <1>1 DEF OnlyOp, Of, Made
<1>3. QED BY <1>1, <1>2 DEF ProvInv, IdsInOrder, RowsAreRows, OnlyOp, Made

\* A goroutine moves on: it stays at work, on the same program and row.
LEMMA WorkMoves ==
    ASSUME ProvInv, NEW o \in Ops, Alive(o), NEW w \in WorkRecords, work' = [work EXCEPT ![o] = w],
           UNCHANGED <<running, req, mix, dying>>, OnlyOp(o), OnlyRow(op[o].s), OnlyNode(op[o].s),
           w.at # "off", WorkFits(w), w.prog = work[o].prog, w.orig = work[o].orig, w.live = work[o].live,
           w.prog = "remove" /\ ~mix.overlap => row'[op[o].s].node = row[op[o].s].node \/ row'[op[o].s].status = "none",
           w.at = "success" /\ w.prog = "remove" => row'[op[o].s].status = "none",
           Calmly(mix) /\ w.at \in {"ready", "failserver"} => Over(o)',
           w.prog = "remove" /\ ~mix.overlap =>
               /\ w.at = "do" => w.copy = w.orig
               /\ w.at = "delete" => w.n > 3
               /\ NodeGone(w) /\ w.orig.node => node'[op[o].s] = "none"
    PROVE  ProvInv'
<1>1. /\ Made' = Made /\ IdsInOrder' /\ (\A s \in Servers : Of(s)' = Of(s))
      /\ \A p \in Made : p \in Ops /\ op'[p].s = op[p].s /\ op[p].s \in Servers
  BY OpsStay
<1>2. /\ work' \in [Ops -> WorkRecords] /\ work'[o] = w /\ (\A p \in Ops : p # o => work'[p] = work[p])
      /\ o \in Made /\ op[o].s \in Servers
  BY <1>1 DEF ProvInv, ProvTypes, WorkIsOfOperations
<1>3. \A p \in Ops : (Alive(p)' <=> Alive(p)) /\ (AtWork(p)' <=> AtWork(p))
  BY <1>2 DEF Alive, AtWork
<1>4. \A s \in Servers : /\ Exists(s)' => Exists(s)
                         /\ s # op[o].s => (Exists(s)' <=> Exists(s))
  BY <1>2, ProvFacts DEF OnlyRow, Exists
<1>5. ProvTypes'
  BY <1>2 DEF ProvInv, ProvTypes, OnlyOp, OnlyRow, OnlyNode
<1>6. RowsAreRows'
  BY <1>1, <1>2, ProvFacts DEF ProvInv, RowsAreRows, OnlyRow, Exists
<1>7. \A q \in Requests : RequestFits(req[q])'
  BY <1>1 DEF ProvInv, RequestFits
<1>8. WorkIsOfOperations'
  BY <1>1, <1>2, <1>3 DEF ProvInv, WorkIsOfOperations, WorkFits
<1>9. MapInv' /\ LiveInv'
  BY <1>2, <1>3 DEF ProvInv, MapInv, LiveInv
<1>10. GoneInv'
  <2>1. ASSUME NEW p \in Ops, work'[p].at = "success", work'[p].prog = "remove" PROVE row'[op'[p].s].status = "none"
    <3>1. CASE p = o
      BY <1>1, <1>2, <2>1, <3>1
    <3>2. CASE p # o
      <4>1. ~Exists(op[p].s) /\ p \in Made
        BY <1>2, <2>1, <3>2 DEF ProvInv, GoneInv, WorkIsOfOperations, Alive
      <4>2. QED BY <1>1, <1>4, <4>1 DEF Exists
    <3>3. QED BY <3>1, <3>2
  <2>2. QED BY <2>1 DEF GoneInv, Exists
<1>11. OneActor'
  <2>1. \A q \in Requests : OnServer(req[q]) => req[q].s \in Servers
    BY DEF ProvInv, RequestFits
  <2>2. ~mix.overlap => \A q \in Requests : OnServer(req[q]) => req[q].s # op[o].s
    BY <1>2 DEF ProvInv, OneActor, AtWork
  <2>3. QED BY <1>1, <1>3, <1>4, <2>1, <2>2 DEF ProvInv, OneActor
<1>12. EndInv'
  BY <1>2 DEF ProvInv, EndInv, OnlyOp, Over, Calmly
<1>13. NodeInv'
  <2> SUFFICES ASSUME ~mix.overlap
               PROVE  /\ \A q \in Requests : OnServer(req[q]) /\ req[q].call = "remove" => row'[req[q].s].node = req[q].copy.node
                      /\ \A p \in Ops : Alive(p)' /\ work'[p].prog = "remove" =>
                            /\ Exists(op[p].s)' => row'[op'[p].s].node = work'[p].orig.node
                            /\ work'[p].at \in {"do"} => work'[p].copy = work'[p].orig
                            /\ work'[p].at = "delete" => work'[p].n > 3
                            /\ NodeGone(work'[p]) /\ work'[p].orig.node => node'[op'[p].s] = "none"
    BY DEF NodeInv
  <2>1. ASSUME NEW q \in Requests, OnServer(req[q]), req[q].call = "remove" PROVE row'[req[q].s].node = req[q].copy.node
    <3>1. req[q].s \in Servers /\ req[q].s # op[o].s
      BY <1>2, <2>1 DEF ProvInv, RequestFits, OneActor, AtWork
    <3>2. QED BY <2>1, <3>1 DEF ProvInv, NodeInv, OnlyRow
  <2>2. ASSUME NEW p \in Ops, Alive(p)', work'[p].prog = "remove"
        PROVE  /\ Exists(op[p].s)' => row'[op'[p].s].node = work'[p].orig.node
               /\ work'[p].at \in {"do"} => work'[p].copy = work'[p].orig
               /\ work'[p].at = "delete" => work'[p].n > 3
               /\ NodeGone(work'[p]) /\ work'[p].orig.node => node'[op'[p].s] = "none"
    <3>1. Alive(p) /\ p \in Made /\ op[p].s \in Servers /\ op'[p].s = op[p].s
      BY <1>1, <1>3, <2>2 DEF ProvInv, WorkIsOfOperations
    <3>2. Exists(op[p].s)' => Exists(op[p].s)
      BY <1>4, <3>1 DEF Exists
    <3>3. CASE p = o
      <4>1. Exists(op[o].s) => row[op[o].s].node = work[o].orig.node
        BY <1>2, <2>2, <3>1, <3>3 DEF ProvInv, NodeInv
      <4>2. QED BY <1>2, <2>2, <3>1, <3>2, <3>3, <4>1 DEF Exists
    <3>4. CASE p # o
      <4>1. op[p].s # op[o].s
        BY <1>2, <3>1, <3>4 DEF ProvInv, OneActor, AtWork
      <4>2. row'[op[p].s] = row[op[p].s] /\ node'[op[p].s] = node[op[p].s] /\ work'[p] = work[p]
        BY <1>2, <3>1, <3>4, <4>1 DEF OnlyRow, OnlyNode
      <4>3. QED BY <2>2, <3>1, <3>2, <4>2 DEF ProvInv, NodeInv
    <3>5. QED BY <3>3, <3>4
  <2>3. QED BY <2>1, <2>2
<1>14. NobodyLeftInProgress'
  <2> SUFFICES ASSUME Undisturbed(mix), NEW s \in Servers, row'[s].status \in {"provisioning", "removing"}
               PROVE  \E p \in Of(s)' : Alive(p)'
    BY DEF NobodyLeftInProgress, Undisturbed
  <2>1. CASE s = op[o].s
    <3>1. o \in Of(s)' /\ Alive(o)'
      BY <1>1, <1>2, <1>3, <2>1 DEF Of
    <3>2. QED BY <3>1
  <2>2. CASE s # op[o].s
    <3>1. \E p \in Of(s) : Alive(p)
      BY <2>2 DEF ProvInv, NobodyLeftInProgress, Undisturbed, OnlyRow
    <3>2. QED BY <1>1, <1>3, <3>1 DEF Of
  <2>3. QED BY <2>1, <2>2
<1>15. RunningIsRun'
  <2> SUFFICES ASSUME Calmly(mix), NEW p \in Made, op'[p].status \in {"pending", "running"}
               PROVE  Alive(p)' \/ \E q \in Requests : req'[q].o = p /\ req'[q].at = "start"
    BY <1>1 DEF RunningIsRun, Calmly
  <2>1. CASE p = o
    BY <1>3, <2>1
  <2>2. CASE p # o
    BY <1>1, <1>3, <2>2 DEF ProvInv, RunningIsRun, Calmly, OnlyOp
  <2>3. QED BY <2>1, <2>2
<1>16. QED BY <1>1, <1>5, <1>6, <1>7, <1>8, <1>9, <1>10, <1>11, <1>12, <1>13, <1>14, <1>15 DEF ProvInv

\* A goroutine ends: nothing of it is left but the records.
LEMMA WorkEnds ==
    ASSUME ProvInv, NEW o \in Ops, Alive(o), work' = [work EXCEPT ![o] = NoWork], running' = running \ {o},
           UNCHANGED <<req, node, mix>>, OnlyOp(o), OnlyRow(op[o].s),
           dying' \in [Ops -> {"no", "live", "dead"}], \A p \in Ops : p # o => dying'[p] = dying[p],
           "panic" \notin mix.faults => dying' = dying,
           row'[op[o].s].node = row[op[o].s].node,
           Calmly(mix) => op'[o].status \notin {"pending", "running"},
           Undisturbed(mix) => row'[op[o].s].status \notin {"provisioning", "removing"}
    PROVE  ProvInv'
<1>1. /\ Made' = Made /\ IdsInOrder' /\ (\A s \in Servers : Of(s)' = Of(s))
      /\ \A p \in Made : p \in Ops /\ op'[p].s = op[p].s /\ op[p].s \in Servers
  BY OpsStay
<1>2. /\ work' \in [Ops -> WorkRecords] /\ work'[o] = NoWork /\ (\A p \in Ops : p # o => work'[p] = work[p])
      /\ o \in Made /\ op[o].s \in Servers
  BY <1>1, ProvFacts DEF ProvInv, ProvTypes, WorkIsOfOperations
<1>3. \A p \in Ops : /\ Alive(p)' <=> Alive(p) /\ p # o
                     /\ AtWork(p)' => AtWork(p)
  BY <1>2, ProvFacts DEF Alive, AtWork
<1>4. \A s \in Servers : /\ Exists(s)' => Exists(s)
                         /\ s # op[o].s => (Exists(s)' <=> Exists(s))
  BY <1>2, ProvFacts DEF OnlyRow, Exists
<1>5. ProvTypes'
  BY <1>2 DEF ProvInv, ProvTypes, OnlyOp, OnlyRow
<1>6. RowsAreRows'
  BY <1>1, <1>2, ProvFacts DEF ProvInv, RowsAreRows, OnlyRow, Exists
<1>7. \A q \in Requests : RequestFits(req[q])'
  BY <1>1 DEF ProvInv, RequestFits
<1>8. WorkIsOfOperations'
  <2>1. \A p \in Ops : WorkFits(work'[p])
    BY <1>2, EmptyFits DEF ProvInv, WorkIsOfOperations
  <2>2. \A p \in Ops : AtWork(p)' => p \in Made'
    BY <1>1, <1>3 DEF ProvInv, WorkIsOfOperations, AtWork
  <2>3. QED BY <2>1, <2>2 DEF WorkIsOfOperations, AtWork, WorkFits
<1>9. MapInv' /\ LiveInv'
  BY <1>2, <1>3 DEF ProvInv, MapInv, LiveInv
<1>10. GoneInv'
  <2>1. ASSUME NEW p \in Ops, work'[p].at = "success", work'[p].prog = "remove" PROVE row'[op'[p].s].status = "none"
    <3>1. p # o
      BY <1>2, <2>1, ProvFacts
    <3>2. ~Exists(op[p].s) /\ p \in Made
      BY <1>2, <2>1, <3>1 DEF ProvInv, GoneInv, WorkIsOfOperations, Alive
    <3>3. QED BY <1>1, <1>4, <3>2 DEF Exists
  <2>2. QED BY <2>1 DEF GoneInv, Exists
<1>11. OneActor'
  <2>1. \A q \in Requests : OnServer(req[q]) => req[q].s \in Servers
    BY DEF ProvInv, RequestFits
  <2>2. ~mix.overlap => \A q \in Requests : OnServer(req[q]) => req[q].s # op[o].s
    BY <1>2 DEF ProvInv, OneActor, AtWork
  <2>3. QED BY <1>1, <1>3, <1>4, <2>1, <2>2 DEF ProvInv, OneActor
<1>12. EndInv'
  BY <1>2, ProvFacts DEF ProvInv, EndInv, OnlyOp, Over
<1>13. NodeInv'
  <2> SUFFICES ASSUME ~mix.overlap
               PROVE  /\ \A q \in Requests : OnServer(req[q]) /\ req[q].call = "remove" => row'[req[q].s].node = req[q].copy.node
                      /\ \A p \in Ops : Alive(p)' /\ work'[p].prog = "remove" =>
                            /\ Exists(op[p].s)' => row'[op'[p].s].node = work'[p].orig.node
                            /\ work'[p].at \in {"do"} => work'[p].copy = work'[p].orig
                            /\ work'[p].at = "delete" => work'[p].n > 3
                            /\ NodeGone(work'[p]) /\ work'[p].orig.node => node'[op'[p].s] = "none"
    BY DEF NodeInv
  <2>1. ASSUME NEW q \in Requests, OnServer(req[q]), req[q].call = "remove" PROVE row'[req[q].s].node = req[q].copy.node
    <3>1. req[q].s \in Servers /\ req[q].s # op[o].s
      BY <1>2, <2>1 DEF ProvInv, RequestFits, OneActor, AtWork
    <3>2. QED BY <2>1, <3>1 DEF ProvInv, NodeInv, OnlyRow
  <2>2. ASSUME NEW p \in Ops, Alive(p)', work'[p].prog = "remove"
        PROVE  /\ Exists(op[p].s)' => row'[op'[p].s].node = work'[p].orig.node
               /\ work'[p].at \in {"do"} => work'[p].copy = work'[p].orig
               /\ work'[p].at = "delete" => work'[p].n > 3
               /\ NodeGone(work'[p]) /\ work'[p].orig.node => node'[op'[p].s] = "none"
    <3>1. Alive(p) /\ p # o /\ p \in Made /\ op[p].s \in Servers /\ op'[p].s = op[p].s
      BY <1>1, <1>3, <2>2 DEF ProvInv, WorkIsOfOperations
    <3>2. Exists(op[p].s)' => Exists(op[p].s)
      BY <1>4, <3>1 DEF Exists
    <3>3. op[p].s # op[o].s
      BY <1>2, <3>1 DEF ProvInv, OneActor, AtWork
    <3>4. row'[op[p].s] = row[op[p].s] /\ node'[op[p].s] = node[op[p].s] /\ work'[p] = work[p]
      BY <1>2, <3>1, <3>3 DEF OnlyRow
    <3>5. QED BY <2>2, <3>1, <3>2, <3>4 DEF ProvInv, NodeInv
  <2>3. QED BY <2>1, <2>2
<1>14. NobodyLeftInProgress'
  <2> SUFFICES ASSUME Undisturbed(mix), NEW s \in Servers, row'[s].status \in {"provisioning", "removing"}
               PROVE  \E p \in Of(s)' : Alive(p)'
    BY DEF NobodyLeftInProgress, Undisturbed
  <2>1. s # op[o].s
    OBVIOUS
  <2>2. \E p \in Of(s) : Alive(p)
    BY <2>1 DEF ProvInv, NobodyLeftInProgress, Undisturbed, OnlyRow
  <2>3. QED BY <1>1, <1>3, <2>1, <2>2 DEF Of
<1>15. RunningIsRun'
  <2> SUFFICES ASSUME Calmly(mix), NEW p \in Made, op'[p].status \in {"pending", "running"}
               PROVE  Alive(p)' \/ \E q \in Requests : req'[q].o = p /\ req'[q].at = "start"
    BY <1>1 DEF RunningIsRun, Calmly
  <2>1. p # o
    OBVIOUS
  <2>2. QED BY <1>1, <1>3, <2>1 DEF ProvInv, RunningIsRun, Calmly, OnlyOp
<1>16. QED BY <1>1, <1>5, <1>6, <1>7, <1>8, <1>9, <1>10, <1>11, <1>12, <1>13, <1>14, <1>15 DEF ProvInv

\* No operation is made, and none is about something else.
OpsKept == op' \in [Ops -> OpRows] /\ \A p \in Ops : op'[p].kind = op[p].kind /\ op'[p].s = op[p].s

LEMMA KeptOps ==
    ASSUME ProvInv, OpsKept
    PROVE  /\ Made' = Made /\ IdsInOrder' /\ \A s \in Servers : Of(s)' = Of(s)
           /\ \A p \in Made : p \in Ops /\ op'[p].s = op[p].s /\ op[p].s \in Servers
<1>1. Made' = Made
  BY DEF OpsKept, Made
<1>2. \A s \in Servers : Of(s)' = Of(s)
  BY <1>1 DEF OpsKept, Of, Made
<1>3. QED BY <1>1, <1>2 DEF ProvInv, IdsInOrder, RowsAreRows, OpsKept, Made

\* Nobody but q is at work on the server.
Alone(q, s) == /\ \A p \in Requests : OnServer(req[p]) /\ req[p].s = s => p = q
               /\ \A o \in Made : AtWork(o) => op[o].s # s

\* A request that was not about to start an operation moves on, and may write a row.
LEMMA RequestMoves ==
    ASSUME ProvInv, NEW q \in Requests, NEW r \in AskRecords, req' = [req EXCEPT ![q] = r], RequestFits(r),
           req[q].at # "start", UNCHANGED <<running, work, dying, node, mix>>, OpsKept, row' \in [Servers -> Rows],
           \A t \in Servers :
               \/ row'[t] = row[t]
               \/ /\ ~mix.overlap => Alone(q, t)
                  /\ row'[t].status # "none"
                  /\ Exists(t) \/ Of(t) = {}
                  /\ Undisturbed(mix) => row'[t].status \notin {"provisioning", "removing"},
           OnServer(r) /\ ~mix.overlap =>
               /\ Alone(q, r.s) /\ row'[r.s].status # "none"
               /\ r.call = "remove" => row'[r.s].node = r.copy.node,
           Calmly(mix) => \A o \in Ops : op'[o] = op[o] \/ (~Alive(o) /\ r.o = o /\ r.at = "start")
    PROVE  ProvInv'
<1>1. /\ Made' = Made /\ IdsInOrder' /\ (\A s \in Servers : Of(s)' = Of(s))
      /\ \A p \in Made : p \in Ops /\ op'[p].s = op[p].s /\ op[p].s \in Servers
  BY KeptOps
<1>2. /\ req' \in [Requests -> AskRecords] /\ req'[q] = r /\ (\A p \in Requests : p # q => req'[p] = req[p])
  BY DEF ProvInv, ProvTypes
<1>3. \A p \in Ops : (Alive(p)' <=> Alive(p)) /\ (AtWork(p)' <=> AtWork(p))
  BY DEF Alive, AtWork
<1>4. \A s \in Servers : /\ Exists(s) => Exists(s)'
                         /\ Exists(s)' => Exists(s) \/ Of(s) = {}
  BY DEF Exists
<1>5. ProvTypes'
  BY <1>2 DEF ProvInv, ProvTypes, OpsKept
<1>6. RowsAreRows'
  BY <1>1 DEF ProvInv, RowsAreRows
<1>7. \A p \in Requests : RequestFits(req[p])'
  <2>1. ASSUME NEW p \in Requests PROVE RequestFits(req[p])'
    <3>1. RequestFits(req'[p])
      BY <1>2 DEF ProvInv
    <3>2. QED BY <1>1, <3>1 DEF RequestFits
  <2>2. QED BY <2>1
<1>8. WorkIsOfOperations'
  BY <1>1, <1>3 DEF ProvInv, WorkIsOfOperations, WorkFits
<1>9. MapInv' /\ LiveInv'
  BY <1>3 DEF ProvInv, MapInv, LiveInv
<1>10. GoneInv'
  <2>1. ASSUME NEW p \in Ops, work[p].at = "success", work[p].prog = "remove" PROVE row'[op'[p].s].status = "none"
    <3>1. ~Exists(op[p].s) /\ p \in Made
      BY <2>1 DEF ProvInv, GoneInv, WorkIsOfOperations, Alive
    <3>2. p \in Of(op[p].s)
      BY <3>1 DEF Of
    <3>3. QED BY <1>1, <1>4, <3>1, <3>2 DEF Exists
  <2>2. QED BY <2>1 DEF GoneInv, Exists
<1>11. OneActor'
  <2> SUFFICES ASSUME ~mix.overlap PROVE OneActor'
    BY DEF OneActor
  <2>1. \A p \in Requests : OnServer(req'[p]) => row'[req'[p].s].status # "none"
    <3>1. ASSUME NEW p \in Requests, OnServer(req'[p]) PROVE row'[req'[p].s].status # "none"
      <4>1. CASE p = q
        BY <1>2, <3>1, <4>1 DEF Exists
      <4>2. CASE p # q
        BY <1>2, <1>4, <3>1, <4>2 DEF ProvInv, OneActor, RequestFits, Exists
      <4>3. QED BY <4>1, <4>2
    <3>2. QED BY <3>1
  <2>2. \A p, u \in Requests : OnServer(req'[p]) /\ OnServer(req'[u]) /\ req'[p].s = req'[u].s => p = u
    BY <1>2 DEF ProvInv, OneActor, Alone
  <2>3. \A p \in Requests, o \in Made : OnServer(req'[p]) /\ AtWork(o) => op[o].s # req'[p].s
    BY <1>2 DEF ProvInv, OneActor, Alone
  <2>4. QED BY <1>1, <1>3, <2>1, <2>2, <2>3 DEF ProvInv, OneActor, Exists
<1>12. EndInv'
  BY <1>3, ProvFacts DEF ProvInv, EndInv, Over, Calmly, Alive
<1>13. NodeInv'
  <2> SUFFICES ASSUME ~mix.overlap
               PROVE  /\ \A p \in Requests : OnServer(req'[p]) /\ req'[p].call = "remove" => row'[req'[p].s].node = req'[p].copy.node
                      /\ \A p \in Ops : Alive(p) /\ work[p].prog = "remove" =>
                            /\ Exists(op[p].s)' => row'[op'[p].s].node = work[p].orig.node
                            /\ work[p].at \in {"do"} => work[p].copy = work[p].orig
                            /\ work[p].at = "delete" => work[p].n > 3
                            /\ NodeGone(work[p]) /\ work[p].orig.node => node[op'[p].s] = "none"
    BY <1>3 DEF NodeInv
  <2>1. ASSUME NEW p \in Requests, OnServer(req'[p]), req'[p].call = "remove" PROVE row'[req'[p].s].node = req'[p].copy.node
    <3>1. CASE p = q
      BY <1>2, <2>1, <3>1
    <3>2. CASE p # q
      <4>1. req[p].s \in Servers /\ req'[p] = req[p] /\ ~Alone(q, req[p].s)
        BY <1>2, <2>1, <3>2 DEF ProvInv, RequestFits, Alone
      <4>2. row'[req[p].s] = row[req[p].s]
        BY <4>1
      <4>3. QED BY <2>1, <4>1, <4>2 DEF ProvInv, NodeInv
    <3>3. QED BY <3>1, <3>2
  <2>2. ASSUME NEW p \in Ops, Alive(p), work[p].prog = "remove"
        PROVE  /\ Exists(op[p].s)' => row'[op'[p].s].node = work[p].orig.node
               /\ work[p].at \in {"do"} => work[p].copy = work[p].orig
               /\ work[p].at = "delete" => work[p].n > 3
               /\ NodeGone(work[p]) /\ work[p].orig.node => node[op'[p].s] = "none"
    <3>1. p \in Made /\ op[p].s \in Servers /\ op'[p].s = op[p].s
      BY <1>1, <2>2 DEF ProvInv, WorkIsOfOperations
    <3>2. ~Alone(q, op[p].s)
      BY <2>2, <3>1 DEF Alone, AtWork
    <3>3. row'[op[p].s] = row[op[p].s]
      BY <3>1, <3>2
    <3>4. QED BY <2>2, <3>1, <3>3 DEF ProvInv, NodeInv, Exists
  <2>3. QED BY <2>1, <2>2
<1>14. NobodyLeftInProgress'
  <2> SUFFICES ASSUME Undisturbed(mix), NEW s \in Servers, row'[s].status \in {"provisioning", "removing"}
               PROVE  \E p \in Of(s)' : Alive(p)'
    BY DEF NobodyLeftInProgress, Undisturbed
  <2>1. \E p \in Of(s) : Alive(p)
    BY DEF ProvInv, NobodyLeftInProgress, Undisturbed
  <2>2. QED BY <1>1, <1>3, <2>1 DEF Of
<1>15. RunningIsRun'
  <2> SUFFICES ASSUME Calmly(mix), NEW p \in Made, op'[p].status \in {"pending", "running"}
               PROVE  Alive(p)' \/ \E u \in Requests : req'[u].o = p /\ req'[u].at = "start"
    BY <1>1 DEF RunningIsRun, Calmly
  <2>1. CASE op'[p] = op[p]
    <3>1. Alive(p) \/ \E u \in Requests : req[u].o = p /\ req[u].at = "start"
      BY <2>1 DEF ProvInv, RunningIsRun, Calmly
    <3>2. \A u \in Requests : req[u].at = "start" => req'[u] = req[u]
      BY <1>2
    <3>3. p \in Ops
      BY DEF Made
    <3>4. QED BY <1>3, <3>1, <3>2, <3>3
  <2>2. CASE op'[p] # op[p]
    BY <1>1, <1>2, <2>2
  <2>3. QED BY <2>1, <2>2
<1>16. QED BY <1>1, <1>5, <1>6, <1>7, <1>8, <1>9, <1>10, <1>11, <1>12, <1>13, <1>14, <1>15 DEF ProvInv

-----------------------------------------------------------------------------
(* The goroutine of an operation, step by step.                            *)

LEMMA AtWorkFacts ==
    ASSUME ProvInv, NEW o \in Ops, Alive(o)
    PROVE  /\ work[o] \in WorkRecords /\ WorkFits(work[o]) /\ work[o].prog \in {"add", "remove", "promote"}
           /\ o \in Made /\ op[o].s \in Servers /\ row[op[o].s] \in Rows /\ op[o] \in OpRows
           /\ Calmly(mix) => work[o].live
           /\ ~mix.overlap /\ work[o].prog = "remove" =>
                  /\ Exists(op[o].s) => row[op[o].s].node = work[o].orig.node
                  /\ work[o].at = "do" => work[o].copy = work[o].orig
                  /\ work[o].at = "delete" => work[o].n > 3
                  /\ NodeGone(work[o]) /\ work[o].orig.node => node[op[o].s] = "none"
<1>1. work[o] \in WorkRecords /\ WorkFits(work[o]) /\ o \in Made
  BY DEF ProvInv, ProvTypes, WorkIsOfOperations
<1>2. op[o].s \in Servers /\ op[o] \in OpRows
  BY <1>1 DEF ProvInv, ProvTypes, RowsAreRows
<1>3. work[o].prog \in {"add", "remove", "promote"}
  BY <1>1 DEF WorkFits, Alive, WorkRecords, Programs
<1>4. Calmly(mix) => work[o].live
  BY DEF ProvInv, LiveInv, Calmly
<1>5. QED BY <1>1, <1>2, <1>3, <1>4 DEF ProvInv, ProvTypes, NodeInv

\* Nothing is written.
LEMMA Unwritten ==
    ASSUME ProvInv, NEW o \in Ops
    PROVE  /\ UNCHANGED op => OnlyOp(o)
           /\ UNCHANGED row => \A s \in Servers : OnlyRow(s)
           /\ UNCHANGED node => \A s \in Servers : OnlyNode(s)
BY DEF ProvInv, ProvTypes, OnlyOp, OnlyRow, OnlyNode

\* The statement that records an operation's status, and the one of a server.
LEMMA Recorded ==
    ASSUME ProvInv, NEW o \in Ops, NEW status \in OpStatuses, SetOperationStatus(o, status)
    PROVE  OnlyOp(o) /\ op'[o].status = status
BY DEF ProvInv, ProvTypes, SetOperationStatus, OnlyOp, OpRows

LEMMA ServerRecorded ==
    ASSUME ProvInv, NEW s \in Servers, NEW status \in Statuses \ {"none"}, SetServerStatus(s, status)
    PROVE  /\ OnlyRow(s) /\ row'[s].node = row[s].node
           /\ row'[s].status \in {"none", status} /\ (Exists(s)' <=> Exists(s))
<1>1. row[s] \in Rows /\ row'[s] = IF row[s].status = "none" THEN row[s] ELSE [row[s] EXCEPT !.status = status]
  BY DEF ProvInv, ProvTypes, SetServerStatus
<1>2. row'[s] \in Rows
  BY <1>1 DEF Rows
<1>3. row' \in [Servers -> Rows] /\ \A t \in Servers : t # s => row'[t] = row[t]
  BY <1>2 DEF ProvInv, ProvTypes, SetServerStatus
<1>4. QED BY <1>1, <1>3 DEF OnlyRow, Exists, Rows

LEMMA BeginKeeps == ASSUME ProvInv, NEW o \in Ops, Begin(o) PROVE ProvInv'
<1> DEFINE w == [work[o] EXCEPT !.at = IF work[o].prog = "promote" THEN "read" ELSE "server"]
<1>1. Alive(o)
  BY DEF Begin, Alive
<1>2. OnlyOp(o)
  BY Recorded, Unwritten DEF Begin, OpStatuses
<1>3. OnlyRow(op[o].s) /\ OnlyNode(op[o].s)
  BY <1>1, AtWorkFacts, Unwritten DEF Begin
<1>4. work' = [work EXCEPT ![o] = w]
  BY DEF Begin, WorkAt
<1>5. w \in WorkRecords /\ w.at \in {"read", "server"} /\ w.prog = work[o].prog /\ w.orig = work[o].orig /\ w.live = work[o].live
      /\ w.skip = work[o].skip
  BY <1>1, AtWorkFacts DEF WorkRecords, WorkPlaces
<1> HIDE DEF w
<1>6. WorkFits(w) /\ ~NodeGone(w)
  BY <1>1, <1>5, AtWorkFacts DEF WorkFits, Alive, Stepping, NodeGone
<1>7. QED BY <1>1, <1>2, <1>3, <1>4, <1>5, <1>6, WorkMoves DEF Begin

LEMMA BeginServerKeeps == ASSUME ProvInv, NEW o \in Ops, BeginServer(o) PROVE ProvInv'
<1> DEFINE w == [work[o] EXCEPT !.at = "read"]
<1>1. Alive(o)
  BY DEF BeginServer, Alive
<1>2. OnlyOp(o) /\ OnlyNode(op[o].s)
  BY <1>1, AtWorkFacts, Unwritten DEF BeginServer
<1>3. OnlyRow(op[o].s) /\ row'[op[o].s].node = row[op[o].s].node
  BY <1>1, AtWorkFacts, ServerRecorded, Unwritten DEF BeginServer, Statuses
<1>4. work' = [work EXCEPT ![o] = w]
  BY DEF BeginServer, WorkAt
<1>5. w \in WorkRecords /\ w.at = "read" /\ w.prog = work[o].prog /\ w.orig = work[o].orig /\ w.live = work[o].live
      /\ w.skip = work[o].skip
  BY <1>1, AtWorkFacts DEF WorkRecords, WorkPlaces
<1> HIDE DEF w
<1>6. WorkFits(w) /\ ~NodeGone(w)
  BY <1>1, <1>5, AtWorkFacts DEF WorkFits, Alive, Stepping, NodeGone
<1>7. QED BY <1>1, <1>2, <1>3, <1>4, <1>5, <1>6, WorkMoves DEF BeginServer

LEMMA ReadDoneKeeps == ASSUME ProvInv, NEW o \in Ops, ReadDone(o) PROVE ProvInv'
<1>1. Alive(o)
  BY DEF ReadDone, Alive
<1>2. OnlyOp(o) /\ OnlyRow(op[o].s) /\ OnlyNode(op[o].s)
  BY <1>1, AtWorkFacts, Unwritten DEF ReadDone
<1>3. PICK w : /\ work' = [work EXCEPT ![o] = w]
               /\ w \in WorkRecords /\ w.prog = work[o].prog /\ w.orig = work[o].orig /\ w.live = work[o].live
               /\ \/ w.at = "failop" /\ w.skip = work[o].skip
                  \/ w.at = "mark" /\ w.n = 1 /\ (w.prog # "add" => w.skip = {})
  <2>1. CASE work[o].prog = "add" /\ ~work[o].live
    <3> DEFINE w == [work[o] EXCEPT !.at = "failop"]
    <3>1. w \in WorkRecords /\ w.prog = work[o].prog /\ w.orig = work[o].orig /\ w.live = work[o].live
          /\ w.at = "failop" /\ w.skip = work[o].skip
      BY <1>1, AtWorkFacts DEF WorkRecords, WorkPlaces
    <3>2. work' = [work EXCEPT ![o] = w]
      BY <2>1 DEF ReadDone, WorkAt
    <3>3. QED BY <3>1, <3>2
  <2>2. CASE ~(work[o].prog = "add" /\ ~work[o].live)
    <3> DEFINE w == [work[o] EXCEPT !.at = "mark", !.n = 1,
                                    !.skip = IF work[o].prog = "add" THEN CompletedSteps(o) ELSE {}]
    <3>1. w \in WorkRecords /\ w.prog = work[o].prog /\ w.orig = work[o].orig /\ w.live = work[o].live
          /\ w.at = "mark" /\ w.n = 1 /\ (w.prog # "add" => w.skip = {})
      BY <1>1, AtWorkFacts DEF WorkRecords, WorkPlaces, CompletedSteps
    <3>2. work' = [work EXCEPT ![o] = w]
      BY <2>2, <1>1, AtWorkFacts DEF ReadDone
    <3>3. QED BY <3>1, <3>2
  <2>3. QED BY <2>1, <2>2
<1>4. WorkFits(w) /\ ~NodeGone(w)
  BY <1>1, <1>3, AtWorkFacts, PlanFacts DEF WorkFits, Alive, Stepping, NodeGone
<1>5. QED BY <1>1, <1>2, <1>3, <1>4, WorkMoves DEF ReadDone

LEMMA FailStepKeeps == ASSUME ProvInv, NEW o \in Ops, FailStep(o) PROVE ProvInv'
<1> DEFINE w == [work[o] EXCEPT !.at = "failop"]
<1>1. Alive(o)
  BY DEF FailStep, Alive
<1>2. OnlyOp(o) /\ OnlyRow(op[o].s) /\ OnlyNode(op[o].s)
  BY <1>1, AtWorkFacts, Unwritten DEF FailStep
<1>3. work' = [work EXCEPT ![o] = w]
  BY DEF FailStep, WorkAt
<1>4. w \in WorkRecords /\ w.at = "failop" /\ w.prog = work[o].prog /\ w.orig = work[o].orig /\ w.live = work[o].live
      /\ w.skip = work[o].skip
  BY <1>1, AtWorkFacts DEF WorkRecords, WorkPlaces
<1> HIDE DEF w
<1>5. WorkFits(w) /\ ~NodeGone(w)
  BY <1>1, <1>4, AtWorkFacts DEF WorkFits, Alive, Stepping, NodeGone
<1>6. QED BY <1>1, <1>2, <1>3, <1>4, <1>5, WorkMoves DEF FailStep

LEMMA FailOperationKeeps == ASSUME ProvInv, NEW o \in Ops, FailOperation(o) PROVE ProvInv'
<1> DEFINE w == [work[o] EXCEPT !.at = "failserver"]
<1>1. Alive(o)
  BY DEF FailOperation, Alive
<1>2. OnlyRow(op[o].s) /\ OnlyNode(op[o].s)
  BY <1>1, AtWorkFacts, Unwritten DEF FailOperation
<1>3. OnlyOp(o) /\ (Calmly(mix) => Over(o)')
  BY <1>1, AtWorkFacts, Recorded, Unwritten DEF FailOperation, OpStatuses, Over
<1>4. work' = [work EXCEPT ![o] = w]
  BY DEF FailOperation, WorkAt
<1>5. w \in WorkRecords /\ w.at = "failserver" /\ w.prog = work[o].prog /\ w.orig = work[o].orig /\ w.live = work[o].live
      /\ w.skip = work[o].skip
  BY <1>1, AtWorkFacts DEF WorkRecords, WorkPlaces
<1> HIDE DEF w
<1>6. WorkFits(w) /\ ~NodeGone(w)
  BY <1>1, <1>5, AtWorkFacts DEF WorkFits, Alive, Stepping, NodeGone
<1>7. QED BY <1>1, <1>2, <1>3, <1>4, <1>5, <1>6, WorkMoves DEF FailOperation

\* The steps by their place in the plans.
LEMMA KeyFacts ==
    ASSUME ProvInv, NEW o \in Ops, work[o].at \in Stepping
    PROVE  /\ Alive(o) /\ work[o].n \in 1..Len(Plan(work[o].prog)) /\ Len(Plan(work[o].prog)) \in Nat
           /\ Key(o) \in AllKeys
           /\ work[o].prog = "remove" =>
                 /\ work[o].n \in {1, 2, 3, 4}
                 /\ Len(Plan(work[o].prog)) = 4 /\ Key(o) \in {"cordon", "drain", "delete-node", "uninstall"}
                 /\ Key(o) = "uninstall" <=> work[o].n = 4
                 /\ Key(o) = "delete-node" <=> work[o].n = 3
           /\ Key(o) = "uninstall" => work[o].prog = "remove"
           /\ Key(o) = "leave" => work[o].prog = "promote"
<1>1. Alive(o)
  BY DEF Alive, Stepping
<1>2. work[o].n \in 1..Len(Plan(work[o].prog)) /\ work[o].prog \in {"add", "remove", "promote"}
  BY <1>1, AtWorkFacts DEF WorkFits, Stepping
<1>3. CASE work[o].prog = "add"
  <2>1. work[o].n \in {1, 2, 3, 4, 5, 6, 7} /\ Plan(work[o].prog) = AddSteps /\ Len(AddSteps) = 7
    BY <1>2, <1>3 DEF Plan, AddSteps
  <2>2. Key(o) \in {"connect", "preflight", "install-key", "firewall", "connectivity", "install-k3s", "wait-ready"}
    BY <2>1 DEF Key, AddSteps
  <2>3. Key(o) \in AllKeys
    BY <2>1 DEF Key, AddSteps, AllKeys, Keys
  <2>4. QED BY <1>1, <1>2, <1>3, <2>1, <2>2, <2>3
<1>4. CASE work[o].prog = "remove"
  <2>1. work[o].n \in {1, 2, 3, 4} /\ Plan(work[o].prog) = RemoveSteps /\ Len(RemoveSteps) = 4
    BY <1>2, <1>4 DEF Plan, RemoveSteps
  <2>2. /\ Key(o) \in {"cordon", "drain", "delete-node", "uninstall"}
        /\ Key(o) = "uninstall" <=> work[o].n = 4
        /\ Key(o) = "delete-node" <=> work[o].n = 3
    BY <2>1 DEF Key, RemoveSteps
  <2>3. Key(o) \in AllKeys
    BY <2>1 DEF Key, RemoveSteps, AllKeys, Keys
  <2>4. QED BY <1>1, <1>2, <1>4, <2>1, <2>2, <2>3
<1>5. CASE work[o].prog = "promote"
  <2>1. work[o].n \in {1, 2, 3, 4, 5} /\ Plan(work[o].prog) = PromoteSteps /\ Len(PromoteSteps) = 5
    BY <1>2, <1>5 DEF Plan, PromoteSteps
  <2>2. Key(o) \in {"preflight", "drain", "leave", "install-k3s", "wait-ready"}
    BY <2>1 DEF Key, PromoteSteps
  <2>3. Key(o) \in AllKeys
    BY <2>1 DEF Key, PromoteSteps, AllKeys, Keys
  <2>4. QED BY <1>1, <1>2, <1>5, <2>1, <2>2, <2>3
<1>6. QED BY <1>2, <1>3, <1>4, <1>5

\* A step is behind it: the next one, or the end.
LEMMA Advances ==
    ASSUME ProvInv, NEW o \in Ops, work[o].at \in {"mark", "do", "did"}, Advance(o, work[o]),
           UNCHANGED <<row, op, running, req, node, mix, dying>>,
           work[o].prog = "remove" => work[o].n = 4 \/ work[o].at = "did"
    PROVE  ProvInv'
<1>1. /\ Alive(o) /\ work[o].n \in 1..Len(Plan(work[o].prog)) /\ Len(Plan(work[o].prog)) \in Nat
      /\ work[o].prog = "remove" => Len(Plan(work[o].prog)) = 4 /\ Key(o) # "leave"
      /\ Key(o) = "leave" => work[o].prog = "promote"
  BY KeyFacts DEF Stepping
<1>2. OnlyOp(o) /\ OnlyRow(op[o].s) /\ OnlyNode(op[o].s)
  BY <1>1, AtWorkFacts, Unwritten
<1>3. PICK w : /\ work' = [work EXCEPT ![o] = w]
               /\ w \in WorkRecords /\ w.prog = work[o].prog /\ w.orig = work[o].orig /\ w.live = work[o].live
               /\ w.skip = work[o].skip
               /\ \/ w.at = "mark" /\ w.n = work[o].n + 1 /\ w.n <= Len(Plan(work[o].prog))
                  \/ /\ w.at = "role" /\ w.n = work[o].n + 1 /\ w.n <= Len(Plan(work[o].prog))
                     /\ w.prog = "promote"
                  \/ w.at = "delete" /\ w.prog = "remove" /\ w.n = 4 /\ work[o].n = 4
                  \/ w.at = "success" /\ w.prog # "remove"
  <2>1. CASE ~Last(o)
    <3> DEFINE w == [work[o] EXCEPT !.copy = NoRow, !.n = work[o].n + 1,
                                    !.at = IF Key(o) = "leave" THEN "role" ELSE "mark"]
    <3>1. /\ w \in WorkRecords /\ w.prog = work[o].prog /\ w.orig = work[o].orig /\ w.live = work[o].live
          /\ w.skip = work[o].skip /\ w.n = work[o].n + 1 /\ w.at = IF Key(o) = "leave" THEN "role" ELSE "mark"
      <4>1. work[o].n + 1 \in Nat /\ NoRow \in Rows /\ work[o] \in WorkRecords
        BY <1>1, AtWorkFacts, ProvFacts
      <4>2. QED BY <4>1 DEF WorkRecords, WorkPlaces
    <3>2. work' = [work EXCEPT ![o] = w]
      <4>1. work[o] \in WorkRecords
        BY <1>1, AtWorkFacts
      <4>2. QED BY <2>1, <4>1 DEF Advance, WorkRecords
    <3>3. work[o].n + 1 <= Len(Plan(work[o].prog))
      BY <1>1, <2>1 DEF Last
    <3>4. QED BY <1>1, <3>1, <3>2, <3>3
  <2>2. CASE Last(o)
    <3> DEFINE w == [work[o] EXCEPT !.at = IF work[o].prog = "remove" THEN "delete" ELSE "success"]
    <3>1. /\ w \in WorkRecords /\ w.prog = work[o].prog /\ w.orig = work[o].orig /\ w.live = work[o].live
          /\ w.skip = work[o].skip /\ w.n = work[o].n
          /\ w.at = IF work[o].prog = "remove" THEN "delete" ELSE "success"
      BY <1>1, AtWorkFacts DEF WorkRecords, WorkPlaces
    <3>2. work' = [work EXCEPT ![o] = w]
      BY <2>2 DEF Advance
    <3>3. QED BY <1>1, <2>2, <3>1, <3>2 DEF Last
  <2>3. QED BY <2>1, <2>2
<1>4. WorkFits(w)
  BY <1>1, <1>3, AtWorkFacts DEF WorkFits, Alive, Stepping
<1>5. w.prog = "remove" /\ NodeGone(w) => NodeGone(work[o])
  BY <1>1, <1>3 DEF NodeGone, Stepping
<1>6. w.prog = "remove" /\ ~mix.overlap /\ NodeGone(w) /\ w.orig.node => node'[op[o].s] = "none"
  BY <1>1, <1>3, <1>5, AtWorkFacts
<1>7. /\ w.at # "off" /\ w.at # "do" /\ w.at \notin {"ready", "failserver"}
      /\ w.at = "delete" => w.n > 3
      /\ ~(w.at = "success" /\ w.prog = "remove")
  BY <1>3
<1>8. QED BY <1>1, <1>2, <1>3, <1>4, <1>6, <1>7, WorkMoves

LEMMA StepSkipKeeps == ASSUME ProvInv, NEW o \in Ops, StepSkip(o) PROVE ProvInv'
<1>1. work[o].at \in Stepping /\ Alive(o) /\ work[o].skip # {}
  BY DEF StepSkip, Skipped, Stepping, Alive
<1>2. work[o].prog # "remove"
  BY <1>1, AtWorkFacts DEF WorkFits
<1>3. QED BY <1>2, Advances DEF StepSkip

LEMMA UninstallKeeps == ASSUME ProvInv, NEW o \in Ops, Uninstall(o) PROVE ProvInv'
<1>1. work[o].prog = "remove" => work[o].n = 4
  BY KeyFacts DEF Uninstall, Stepping
<1>2. QED BY <1>1, Advances DEF Uninstall

LEMMA StepDoneKeeps == ASSUME ProvInv, NEW o \in Ops, StepDone(o) PROVE ProvInv'
BY Advances DEF StepDone

LEMMA StepMarkKeeps == ASSUME ProvInv, NEW o \in Ops, StepMark(o) PROVE ProvInv'
<1> DEFINE c == IF ByRequest(o) THEN work[o].orig ELSE row[op[o].s]
           w == [work[o] EXCEPT !.at = "do", !.copy = c]
<1>1. Alive(o)
  BY DEF StepMark, Alive
<1>2. OnlyOp(o) /\ OnlyRow(op[o].s) /\ OnlyNode(op[o].s)
  BY <1>1, AtWorkFacts, Unwritten DEF StepMark
<1>3. work' = [work EXCEPT ![o] = w]
  BY DEF StepMark
<1>4. c \in Rows /\ (work[o].prog = "remove" => c = work[o].orig)
  BY <1>1, AtWorkFacts DEF ByRequest, WorkRecords
<1>5. w \in WorkRecords /\ w.at = "do" /\ w.prog = work[o].prog /\ w.orig = work[o].orig /\ w.live = work[o].live
      /\ w.skip = work[o].skip /\ w.n = work[o].n /\ w.copy = c
  BY <1>1, <1>4, AtWorkFacts DEF WorkRecords, WorkPlaces
<1> HIDE DEF w, c
<1>6. WorkFits(w)
  BY <1>1, <1>5, AtWorkFacts DEF WorkFits, Alive, Stepping, StepMark
<1>7. w.prog = "remove" /\ ~mix.overlap /\ NodeGone(w) /\ w.orig.node => node'[op[o].s] = "none"
  BY <1>1, <1>5, AtWorkFacts DEF NodeGone, Stepping, StepMark
<1>8. QED BY <1>1, <1>2, <1>3, <1>4, <1>5, <1>6, <1>7, WorkMoves DEF StepMark

\* What the steps do to rows and nodes.  A removal writes no row, and its third step takes the node away.
LEMMA EffectFits ==
    ASSUME ProvInv, NEW o \in Ops, work[o].at = "do", Key(o) # "uninstall", Effect(o)
    PROVE  /\ OnlyRow(op[o].s) /\ OnlyNode(op[o].s)
           /\ work[o].prog = "remove" => UNCHANGED row
           /\ row'[op[o].s] = row[op[o].s] \/ row'[op[o].s].status # "none"
           /\ Key(o) = "delete-node" /\ work[o].copy.node => node'[op[o].s] = "none"
<1> DEFINE s == op[o].s
           c == work[o].copy
<1>1. Alive(o) /\ Key(o) \in AllKeys /\ (work[o].prog = "remove" => Key(o) \in {"cordon", "drain", "delete-node"})
  BY KeyFacts DEF Stepping
<1>2. s \in Servers /\ row \in [Servers -> Rows] /\ node \in [Servers -> {"none", "open", "cordoned"}] /\ c \in Rows
  BY <1>1, AtWorkFacts DEF ProvInv, ProvTypes, WorkRecords
<1>3. UNCHANGED row => OnlyRow(s) /\ row'[s] = row[s]
  BY <1>2, Unwritten
<1>4. UNCHANGED node => OnlyNode(s)
  BY <1>2, Unwritten
<1>5. ASSUME NEW r \in Rows, r.status # "none", WriteBack(o, r) PROVE OnlyRow(s) /\ row'[s].status # "none"
  BY <1>2, <1>5 DEF WriteBack, UpdateServer, OnlyRow
<1>6. ASSUME NEW n \in {"none", "open", "cordoned"}, SetNode(o, n) PROVE OnlyNode(s) /\ node'[s] = n
  BY <1>2, <1>6 DEF SetNode, OnlyNode
<1>7. CASE Key(o) = "connect"
  <2>1. StepConnect(o)
    BY <1>7 DEF Effect
  <2>2. c.status # "none" /\ UNCHANGED node /\ (UNCHANGED row \/ WriteBack(o, [c EXCEPT !.seen = TRUE]))
    BY <2>1 DEF StepConnect
  <2>3. [c EXCEPT !.seen = TRUE] \in Rows /\ [c EXCEPT !.seen = TRUE].status = c.status
    BY <1>2 DEF Rows
  <2>4. QED BY <1>1, <1>3, <1>4, <1>5, <1>7, <2>2, <2>3
<1>8. CASE Key(o) = "preflight"
  <2>1. StepPreflight(o)
    BY <1>8 DEF Effect
  <2>2. UNCHANGED node /\ (UNCHANGED row \/ (c.status # "none" /\ WriteBack(o, [c EXCEPT !.seen = TRUE])))
    BY <2>1 DEF StepPreflight, StepConnect
  <2>3. [c EXCEPT !.seen = TRUE] \in Rows /\ [c EXCEPT !.seen = TRUE].status = c.status
    BY <1>2 DEF Rows
  <2>4. QED BY <1>1, <1>3, <1>4, <1>5, <1>8, <2>2, <2>3
<1>9. CASE Key(o) = "install-key"
  <2>1. StepInstallKey(o)
    BY <1>9 DEF Effect
  <2>2. c.status # "none" /\ UNCHANGED node /\ (UNCHANGED row \/ WriteBack(o, [c EXCEPT !.key = TRUE]))
    BY <2>1 DEF StepInstallKey
  <2>3. [c EXCEPT !.key = TRUE] \in Rows /\ [c EXCEPT !.key = TRUE].status = c.status
    BY <1>2 DEF Rows
  <2>4. QED BY <1>1, <1>3, <1>4, <1>5, <1>9, <2>2, <2>3
<1>10. CASE Key(o) \in {"firewall", "connectivity"}
  BY <1>1, <1>3, <1>4, <1>10 DEF Effect, StepFirewall, StepConnectivity
<1>11. CASE Key(o) = "install-k3s"
  <2>1. UNCHANGED row /\ SetNode(o, IF node[s] = "none" THEN "open" ELSE node[s])
    BY <1>11 DEF Effect, StepInstallK3s
  <2>2. (IF node[s] = "none" THEN "open" ELSE node[s]) \in {"none", "open", "cordoned"}
    BY <1>2
  <2>3. QED BY <1>1, <1>3, <1>6, <1>11, <2>1, <2>2
<1>12. CASE Key(o) = "wait-ready"
  <2>1. UNCHANGED node /\ WriteBack(o, [c EXCEPT !.node = TRUE, !.status = "ready"])
    BY <1>12 DEF Effect, StepWaitReady
  <2>2. /\ [c EXCEPT !.node = TRUE, !.status = "ready"] \in Rows
        /\ [c EXCEPT !.node = TRUE, !.status = "ready"].status = "ready"
    BY <1>2 DEF Rows, Statuses
  <2>3. QED BY <1>1, <1>4, <1>5, <1>12, <2>1, <2>2
<1>13. CASE Key(o) \in {"cordon", "drain"}
  <2>1. UNCHANGED row /\ SetNode(o, IF c.node /\ node[s] = "open" THEN "cordoned" ELSE node[s])
    BY <1>13 DEF Effect, Drain, Cordon
  <2>2. (IF c.node /\ node[s] = "open" THEN "cordoned" ELSE node[s]) \in {"none", "open", "cordoned"}
    BY <1>2
  <2>3. QED BY <1>1, <1>3, <1>6, <1>13, <2>1, <2>2
<1>14. CASE Key(o) \in {"delete-node", "leave"}
  <2>1. UNCHANGED row /\ SetNode(o, IF c.node THEN "none" ELSE node[s])
    BY <1>14 DEF Effect, DeleteNode, Leave
  <2>2. (IF c.node THEN "none" ELSE node[s]) \in {"none", "open", "cordoned"}
    BY <1>2
  <2>3. OnlyNode(s) /\ node'[s] = (IF c.node THEN "none" ELSE node[s])
    BY <1>6, <2>1, <2>2
  <2>4. QED BY <1>1, <1>3, <1>14, <2>1, <2>3
<1>15. Key(o) \in {"connect", "preflight", "install-key", "firewall", "connectivity", "install-k3s", "wait-ready",
                   "cordon", "drain", "delete-node", "leave", "uninstall"}
  BY <1>1 DEF AllKeys, Keys, AddSteps, RemoveSteps, PromoteSteps
<1>16. QED BY <1>7, <1>8, <1>9, <1>10, <1>11, <1>12, <1>13, <1>14, <1>15

LEMMA StepWorksKeeps == ASSUME ProvInv, NEW o \in Ops, StepWorks(o) PROVE ProvInv'
<1> DEFINE w == [work[o] EXCEPT !.at = "did", !.copy = NoRow, !.pass = @ /\ Key(o) # "install-key"]
<1>1. /\ Alive(o) /\ work[o].at = "do" /\ work[o].at \in Stepping /\ Key(o) # "uninstall" /\ Effect(o)
      /\ UNCHANGED <<op, running, req, mix, dying>> /\ work' = [work EXCEPT ![o] = w]
  BY DEF StepWorks, Stepping, Alive
<1>2. /\ OnlyRow(op[o].s) /\ OnlyNode(op[o].s) /\ OnlyOp(o)
      /\ work[o].prog = "remove" => UNCHANGED row
      /\ Key(o) = "delete-node" /\ work[o].copy.node => node'[op[o].s] = "none"
  BY <1>1, EffectFits, Unwritten
<1>3. /\ w \in WorkRecords /\ w.at = "did" /\ w.prog = work[o].prog /\ w.orig = work[o].orig /\ w.live = work[o].live
      /\ w.skip = work[o].skip /\ w.n = work[o].n
  BY <1>1, AtWorkFacts, ProvFacts DEF WorkRecords, WorkPlaces
<1> HIDE DEF w
<1>4. WorkFits(w)
  BY <1>1, <1>3, AtWorkFacts DEF WorkFits, Alive, Stepping
<1>5. w.prog = "remove" /\ NodeGone(w) => Key(o) = "delete-node"
  <2>1. /\ work[o].prog = "remove" => work[o].n \in {1, 2, 3}
        /\ work[o].prog = "remove" /\ work[o].n = 3 => Key(o) = "delete-node"
    BY <1>1, KeyFacts
  <2>2. QED BY <1>1, <1>3, <2>1 DEF NodeGone
<1>6. w.prog = "remove" /\ ~mix.overlap /\ NodeGone(w) /\ w.orig.node => node'[op[o].s] = "none"
  BY <1>1, <1>2, <1>3, <1>5, AtWorkFacts
<1>7. QED BY <1>1, <1>2, <1>3, <1>4, <1>6, WorkMoves

LEMMA StepFailsKeeps == ASSUME ProvInv, NEW o \in Ops, StepFails(o) PROVE ProvInv'
<1> DEFINE w == [work[o] EXCEPT !.at = "failstep", !.copy = NoRow, !.pass = FALSE]
           s == op[o].s
           c == work[o].copy
<1>1. /\ Alive(o) /\ work[o].at = "do" /\ work[o].at \in Stepping /\ Key(o) # "uninstall"
      /\ UNCHANGED <<op, running, req, mix, dying>> /\ work' = [work EXCEPT ![o] = w]
  BY DEF StepFails, Stepping, Alive
<1>2. s \in Servers /\ node \in [Servers -> {"none", "open", "cordoned"}]
  BY <1>1, AtWorkFacts DEF ProvInv, ProvTypes
<1>3. UNCHANGED row /\ \E n \in {"none", "open", "cordoned"} : node' = node \/ SetNode(o, n)
  BY <1>2 DEF StepFails, Cordon, DeleteNode, StepInstallK3s
<1>4. OnlyRow(s) /\ OnlyNode(s) /\ OnlyOp(o)
  BY <1>1, <1>2, <1>3, Unwritten DEF SetNode, OnlyNode
<1>5. /\ w \in WorkRecords /\ w.at = "failstep" /\ w.prog = work[o].prog /\ w.orig = work[o].orig /\ w.live = work[o].live
      /\ w.skip = work[o].skip /\ w.n = work[o].n
  BY <1>1, AtWorkFacts, ProvFacts DEF WorkRecords, WorkPlaces
<1> HIDE DEF w
<1>6. WorkFits(w)
  BY <1>1, <1>5, AtWorkFacts DEF WorkFits, Alive, Stepping
<1>7. ~(w.prog = "remove" /\ NodeGone(w))
  <2>1. work[o].prog = "remove" => work[o].n \in {1, 2, 3}
    BY <1>1, KeyFacts
  <2>2. QED BY <1>1, <1>5, <2>1 DEF NodeGone
<1>8. QED BY <1>1, <1>3, <1>4, <1>5, <1>6, <1>7, WorkMoves

LEMMA PromoteKeeps == ASSUME ProvInv, NEW o \in Ops, Promote(o) PROVE ProvInv'
<1> DEFINE s == op[o].s
           r == [work[o].orig EXCEPT !.role = "control-plane", !.node = FALSE]
<1>1. Alive(o) /\ work[o].prog = "promote" /\ work[o].orig \in Rows /\ work[o].orig.status # "none" /\ s \in Servers
  <2>1. Alive(o) /\ work[o].at = "role"
    BY DEF Promote, Alive
  <2>2. QED BY <2>1, AtWorkFacts DEF WorkFits, WorkRecords
<1>2. OnlyOp(o) /\ OnlyNode(s)
  BY <1>1, Unwritten DEF Promote
<1>3. r \in Rows /\ r.status # "none"
  BY <1>1 DEF Rows
<1>4. OnlyRow(s)
  <2>1. UNCHANGED row \/ (Exists(s) /\ row' = [row EXCEPT ![s] = r])
    BY DEF Promote, UpdateServer
  <2>2. QED BY <1>1, <1>3, <2>1, Unwritten DEF OnlyRow, ProvInv, ProvTypes
<1>5. PICK at \in {"mark", "failop"} : work' = [work EXCEPT ![o].at = at]
  BY DEF Promote, WorkAt
<1> DEFINE w == [work[o] EXCEPT !.at = at]
<1>6. /\ work' = [work EXCEPT ![o] = w]
      /\ w \in WorkRecords /\ w.at = at /\ w.prog = work[o].prog /\ w.orig = work[o].orig /\ w.live = work[o].live
      /\ w.skip = work[o].skip /\ w.n = work[o].n
  BY <1>1, <1>5, AtWorkFacts DEF WorkRecords, WorkPlaces
<1> HIDE DEF w
<1>7. WorkFits(w)
  BY <1>1, <1>6, AtWorkFacts DEF WorkFits, Alive, Stepping, Promote
<1>8. QED BY <1>1, <1>2, <1>4, <1>6, <1>7, WorkMoves DEF Promote

LEMMA DeleteServerKeeps == ASSUME ProvInv, NEW o \in Ops, DeleteServer(o) PROVE ProvInv'
<1> DEFINE s == op[o].s
<1>1. Alive(o) /\ work[o].prog = "remove" /\ s \in Servers
  <2>1. Alive(o) /\ work[o].at = "delete"
    BY DEF DeleteServer, Alive
  <2>2. QED BY <2>1, AtWorkFacts DEF WorkFits
<1>2. OnlyOp(o) /\ OnlyNode(s)
  BY <1>1, Unwritten DEF DeleteServer
<1>3. PICK at \in {"success", "failop"} :
          /\ work' = [work EXCEPT ![o].at = at]
          /\ IF at = "success" THEN row' = [row EXCEPT ![s] = NoRow] ELSE UNCHANGED row
  BY DEF DeleteServer, WorkAt, UpdateServer
<1>4. OnlyRow(s) /\ (UNCHANGED row \/ row'[s] = NoRow) /\ (at = "success" => row'[s] = NoRow)
  BY <1>1, <1>3, Unwritten, ProvFacts DEF OnlyRow, ProvInv, ProvTypes
<1> DEFINE w == [work[o] EXCEPT !.at = at]
<1>5. /\ work' = [work EXCEPT ![o] = w]
      /\ w \in WorkRecords /\ w.at = at /\ w.prog = work[o].prog /\ w.orig = work[o].orig /\ w.live = work[o].live
      /\ w.skip = work[o].skip /\ w.n = work[o].n
  BY <1>1, <1>3, AtWorkFacts DEF WorkRecords, WorkPlaces
<1> HIDE DEF w
<1>6. WorkFits(w) /\ ~NodeGone(w)
  BY <1>1, <1>5, AtWorkFacts DEF WorkFits, Alive, Stepping, NodeGone
<1>7. QED BY <1>1, <1>2, <1>4, <1>5, <1>6, ProvFacts, WorkMoves DEF DeleteServer

LEMMA SucceedKeeps == ASSUME ProvInv, NEW o \in Ops, Succeed(o) PROVE ProvInv'
<1> DEFINE s == op[o].s
<1>1. Alive(o) /\ work[o].at = "success" /\ s \in Servers
  BY AtWorkFacts DEF Succeed, Alive
<1>2. OnlyRow(s) /\ OnlyNode(s)
  BY <1>1, Unwritten DEF Succeed
<1>3. OnlyOp(o) /\ (Calmly(mix) => op'[o].status = "succeeded")
  BY <1>1, AtWorkFacts, Recorded, Unwritten DEF Succeed, OpStatuses
<1>4. CASE work[o].prog = "remove"
  <2>1. row'[s].status = "none"
    BY <1>1, <1>4 DEF ProvInv, GoneInv, Exists, Succeed
  <2>2. UNCHANGED dying /\ dying \in [Ops -> {"no", "live", "dead"}]
    BY DEF ProvInv, ProvTypes, Succeed
  <2>3. QED BY <1>1, <1>2, <1>3, <1>4, <2>1, <2>2, WorkEnds DEF Succeed, Finish
<1>5. CASE work[o].prog # "remove"
  <2> DEFINE w == [work[o] EXCEPT !.at = "ready"]
  <2>1. /\ work' = [work EXCEPT ![o] = w]
        /\ w \in WorkRecords /\ w.at = "ready" /\ w.prog = work[o].prog /\ w.orig = work[o].orig /\ w.live = work[o].live
        /\ w.skip = work[o].skip /\ w.n = work[o].n
    BY <1>1, <1>5, AtWorkFacts DEF WorkRecords, WorkPlaces, Succeed, WorkAt
  <2> HIDE DEF w
  <2>2. WorkFits(w)
    BY <1>1, <1>5, <2>1, AtWorkFacts DEF WorkFits, Alive, Stepping
  <2>3. Calmly(mix) => Over(o)'
    BY <1>3 DEF Over
  <2>4. QED BY <1>1, <1>2, <1>3, <1>5, <2>1, <2>2, <2>3, WorkMoves DEF Succeed
<1>6. QED BY <1>4, <1>5

LEMMA ServerEndsKeeps == ASSUME ProvInv, NEW o \in Ops, SucceedServer(o) \/ FailServer(o) PROVE ProvInv'
<1> DEFINE s == op[o].s
<1>1. Alive(o) /\ work[o].at \in {"ready", "failserver"} /\ s \in Servers
  BY AtWorkFacts DEF SucceedServer, FailServer, Alive
<1>2. OnlyOp(o) /\ OnlyNode(s)
  BY <1>1, Unwritten DEF SucceedServer, FailServer
<1>3. Undisturbed(mix) => work[o].live
  BY <1>1 DEF ProvInv, LiveInv, Undisturbed
<1>4. OnlyRow(s) /\ row'[s].node = row[s].node /\ (work[o].live => row'[s].status \in {"none", "ready", "failed"})
  <2>1. CASE work[o].live
    BY <1>1, <2>1, ServerRecorded DEF SucceedServer, FailServer, Statuses
  <2>2. CASE ~work[o].live
    BY <1>1, <2>2, Unwritten DEF SucceedServer, FailServer
  <2>3. QED BY <2>1, <2>2
<1>5. Calmly(mix) => op'[o].status \notin {"pending", "running"}
  BY <1>1 DEF ProvInv, EndInv, Calmly, Over, SucceedServer, FailServer
<1>6. UNCHANGED <<dying, req, node, mix>> /\ dying \in [Ops -> {"no", "live", "dead"}] /\ Finish(o)
  BY DEF ProvInv, ProvTypes, SucceedServer, FailServer
<1>7. QED BY <1>1, <1>2, <1>3, <1>4, <1>5, <1>6, WorkEnds DEF Finish

LEMMA PanicKeeps == ASSUME ProvInv, NEW o \in Ops, Panic(o) PROVE ProvInv'
<1>1. Alive(o) /\ op[o].s \in Servers /\ "panic" \in mix.faults
  BY AtWorkFacts DEF Panic
<1>2. OnlyOp(o) /\ OnlyRow(op[o].s) /\ UNCHANGED <<row, req, node, mix>> /\ Finish(o)
  BY <1>1, Unwritten DEF Panic
<1>3. dying' \in [Ops -> {"no", "live", "dead"}] /\ \A p \in Ops : p # o => dying'[p] = dying[p]
  BY DEF ProvInv, ProvTypes, Panic
<1>4. ~Calmly(mix) /\ ~Undisturbed(mix)
  BY <1>1 DEF Calmly, Undisturbed
<1>5. QED BY <1>1, <1>2, <1>3, <1>4, WorkEnds DEF Finish

-----------------------------------------------------------------------------
(* What happens to a goroutine from outside.                               *)

\* A context ends, or what a panic left is cleared away: nothing timely is expected after that.
LEMMA Loosens ==
    ASSUME ProvInv, {"timeout", "panic"} \cap mix.faults # {} \/ "cancel" \in mix.calls, OpsKept,
           UNCHANGED <<row, node, mix>>, running' \subseteq running, dying' \in [Ops -> {"no", "live", "dead"}],
           "panic" \notin mix.faults => running' = running /\ dying' = dying,
           work' \in [Ops -> WorkRecords], req' \in [Requests -> AskRecords],
           \A p \in Ops : /\ work'[p].at = work[p].at /\ work'[p].prog = work[p].prog /\ work'[p].n = work[p].n
                          /\ work'[p].orig = work[p].orig /\ work'[p].copy = work[p].copy /\ work'[p].skip = work[p].skip
                          /\ dying'[p] # "no" => dying[p] # "no",
           \A q \in Requests : req'[q] = req[q] \/ (~OnServer(req'[q]) /\ RequestFits(req'[q]))
    PROVE  ProvInv'
<1>1. /\ Made' = Made /\ IdsInOrder' /\ (\A s \in Servers : Of(s)' = Of(s))
      /\ \A p \in Made : p \in Ops /\ op'[p].s = op[p].s /\ op[p].s \in Servers
  BY KeptOps
<1>2. ~Calmly(mix) /\ ~Undisturbed(mix) /\ ({"timeout", "panic"} \cap mix.faults # {} \/ "cancel" \in mix.calls)
  BY DEF Calmly, Undisturbed
<1>3. \A p \in Ops : /\ Alive(p)' <=> Alive(p)
                     /\ AtWork(p)' => AtWork(p)
                     /\ WorkFits(work[p]) => WorkFits(work'[p])
                     /\ NodeGone(work'[p]) => NodeGone(work[p])
  BY DEF Alive, AtWork, WorkFits, NodeGone
<1>4. ProvTypes'
  BY DEF ProvInv, ProvTypes, OpsKept
<1>5. RowsAreRows'
  BY <1>1 DEF ProvInv, RowsAreRows
<1>6. \A q \in Requests : RequestFits(req[q])'
  <2>1. ASSUME NEW q \in Requests PROVE RequestFits(req[q])'
    <3>1. RequestFits(req'[q])
      BY DEF ProvInv
    <3>2. QED BY <1>1, <3>1 DEF RequestFits
  <2>2. QED BY <2>1
<1>7. WorkIsOfOperations'
  <2>1. \A p \in Ops : WorkFits(work'[p])
    BY <1>3 DEF ProvInv, WorkIsOfOperations
  <2>2. \A p \in Ops : AtWork(p)' => p \in Made'
    BY <1>1, <1>3 DEF ProvInv, WorkIsOfOperations, AtWork
  <2>3. QED BY <2>1, <2>2 DEF WorkIsOfOperations, AtWork, WorkFits
<1>8. MapInv'
  BY <1>3 DEF ProvInv, MapInv
<1>9. LiveInv' /\ EndInv'
  BY <1>2 DEF LiveInv, EndInv, Calmly
<1>10. GoneInv'
  <2>1. ASSUME NEW p \in Ops, work[p].at = "success", work[p].prog = "remove" PROVE row[op'[p].s].status = "none"
    <3>1. ~Exists(op[p].s) /\ p \in Made
      BY <2>1 DEF ProvInv, GoneInv, WorkIsOfOperations, Alive
    <3>2. QED BY <1>1, <3>1 DEF Exists
  <2>2. QED BY <2>1 DEF GoneInv, Exists
<1>11. OneActor'
  <2>1. \A q \in Requests : OnServer(req'[q]) => req'[q] = req[q]
    OBVIOUS
  <2>2. QED BY <1>1, <1>3, <2>1 DEF ProvInv, OneActor, Exists
<1>12. NodeInv'
  <2>1. \A q \in Requests : OnServer(req'[q]) => req'[q] = req[q]
    OBVIOUS
  <2>2. ASSUME ~mix.overlap, NEW p \in Ops, Alive(p)', work'[p].prog = "remove"
        PROVE  /\ Exists(op[p].s)' => row'[op'[p].s].node = work'[p].orig.node
               /\ work'[p].at \in {"do"} => work'[p].copy = work'[p].orig
               /\ work'[p].at = "delete" => work'[p].n > 3
               /\ NodeGone(work'[p]) /\ work'[p].orig.node => node'[op'[p].s] = "none"
    <3>1. Alive(p) /\ work[p].prog = "remove" /\ p \in Made /\ op'[p].s = op[p].s
      BY <1>1, <1>3, <2>2 DEF ProvInv, WorkIsOfOperations
    <3>2. QED BY <1>3, <2>2, <3>1 DEF ProvInv, NodeInv, Exists
  <2>3. QED BY <2>1, <2>2 DEF ProvInv, NodeInv
<1>13. NobodyLeftInProgress' /\ RunningIsRun'
  BY <1>2 DEF NobodyLeftInProgress, RunningIsRun, Calmly, Undisturbed
<1>14. QED BY <1>1, <1>4, <1>5, <1>6, <1>7, <1>8, <1>9, <1>10, <1>11, <1>12, <1>13 DEF ProvInv

LEMMA ContextEnds ==
    ASSUME ProvInv, NEW o \in Ops, work' = [work EXCEPT ![o].live = FALSE]
    PROVE  /\ work' \in [Ops -> WorkRecords]
           /\ \A p \in Ops : /\ work'[p].at = work[p].at /\ work'[p].prog = work[p].prog /\ work'[p].n = work[p].n
                             /\ work'[p].orig = work[p].orig /\ work'[p].copy = work[p].copy /\ work'[p].skip = work[p].skip
<1> DEFINE w == [work[o] EXCEPT !.live = FALSE]
<1>1. /\ w \in WorkRecords /\ w.at = work[o].at /\ w.prog = work[o].prog /\ w.n = work[o].n /\ w.orig = work[o].orig
      /\ w.copy = work[o].copy /\ w.skip = work[o].skip
  BY DEF ProvInv, ProvTypes, WorkRecords
<1>2. work' = [work EXCEPT ![o] = w] /\ work \in [Ops -> WorkRecords]
  BY DEF ProvInv, ProvTypes
<1> HIDE DEF w
<1>3. QED BY <1>1, <1>2

LEMMA ExpireKeeps == ASSUME ProvInv, NEW o \in Ops, Expire(o) PROVE ProvInv'
<1>1. "timeout" \in mix.faults /\ OpsKept /\ dying \in [Ops -> {"no", "live", "dead"}] /\ req \in [Requests -> AskRecords]
  BY DEF Expire, ProvInv, ProvTypes, OpsKept
<1>2. QED BY <1>1, ContextEnds, Loosens DEF Expire

LEMMA CancelKeeps == ASSUME ProvInv, NEW q \in Requests, NEW o \in Ops, Cancel(q, o) PROVE ProvInv'
<1> DEFINE r == [NoReq EXCEPT !.call = "cancel", !.at = "record", !.o = o]
<1>1. r \in AskRecords /\ r.at = "record" /\ r.o = o
  BY ProvFacts DEF AskRecords, NoReq, CallKinds, ReqPlaces
<1>2. req' = [req EXCEPT ![q] = r] /\ "cancel" \in mix.calls
  BY DEF Cancel
<1> HIDE DEF r
<1>3. ~OnServer(r) /\ RequestFits(r)
  BY <1>1, <1>2 DEF OnServer, RequestFits
<1>4. OpsKept /\ dying \in [Ops -> {"no", "live", "dead"}] /\ req' \in [Requests -> AskRecords]
      /\ \A p \in Requests : req'[p] = req[p] \/ (~OnServer(req'[p]) /\ RequestFits(req'[p]))
  BY <1>1, <1>2, <1>3 DEF Cancel, ProvInv, ProvTypes, OpsKept
<1>5. QED BY <1>2, <1>4, ContextEnds, Loosens DEF Cancel

LEMMA FailPanickedKeeps == ASSUME ProvInv, NEW o \in Ops, FailPanicked(o) PROVE ProvInv'
<1>1. "panic" \in mix.faults
  BY DEF FailPanicked, ProvInv, MapInv
<1>2. OnlyOp(o)
  BY Recorded, Unwritten DEF FailPanicked, OpStatuses
<1>3. OpsKept
  BY <1>2 DEF OnlyOp, OpsKept
<1>4. dying' \in [Ops -> {"no", "live", "dead"}] /\ \A p \in Ops : dying'[p] # "no" => dying[p] # "no"
  BY DEF FailPanicked, ProvInv, ProvTypes
<1>5. work' \in [Ops -> WorkRecords] /\ req' \in [Requests -> AskRecords] /\ work' = work /\ req' = req
  BY DEF FailPanicked, ProvInv, ProvTypes
<1>6. QED BY <1>1, <1>3, <1>4, <1>5, Loosens DEF FailPanicked

-----------------------------------------------------------------------------
(* The requests.                                                           *)

LEMMA NotBusy ==
    ASSUME ProvInv, NEW q \in Requests, NEW s \in Servers, ~Busy(s)
    PROVE  Alone(q, s)
BY DEF Busy, Alone, AtWork, Of

LEMMA AloneOnIts ==
    ASSUME ProvInv, ~mix.overlap, NEW q \in Requests, OnServer(req[q])
    PROVE  Alone(q, req[q].s) /\ Exists(req[q].s)
BY DEF ProvInv, OneActor, Alone

LEMMA OpsUnchanged == ASSUME ProvInv, UNCHANGED op PROVE OpsKept
BY DEF ProvInv, ProvTypes, OpsKept

LEMMA AskFacts ==
    ASSUME ProvInv, NEW q \in Requests
    PROVE  /\ req[q] \in AskRecords /\ RequestFits(req[q]) /\ row \in [Servers -> Rows]
           /\ Free(q) => req[q].at = "off"
BY ProvFacts DEF ProvInv, ProvTypes, Free

LEMMA AddServerKeeps == ASSUME ProvInv, NEW q \in Requests, NEW s \in Servers, AddServer(q, s) PROVE ProvInv'
<1>1. PICK key \in BOOLEAN, role \in {"worker", "control-plane"} :
          /\ row' = [row EXCEPT ![s] = [status |-> "pending", role |-> role, node |-> FALSE, key |-> key, seen |-> FALSE]]
          /\ req' = [req EXCEPT ![q] = [NoReq EXCEPT !.call = "add", !.at = "create", !.s = s, !.pass = ~key]]
  BY DEF AddServer, UpdateServer
<1> DEFINE r == [NoReq EXCEPT !.call = "add", !.at = "create", !.s = s, !.pass = ~key]
           x == [status |-> "pending", role |-> role, node |-> FALSE, key |-> key, seen |-> FALSE]
<1>2. r \in AskRecords /\ r.at = "create" /\ r.s = s /\ r.call = "add" /\ req' = [req EXCEPT ![q] = r]
  BY <1>1, ProvFacts DEF AskRecords, NoReq, CallKinds, ReqPlaces
<1>3. x \in Rows /\ x.status = "pending" /\ row' = [row EXCEPT ![s] = x]
  BY <1>1 DEF Rows, Statuses
<1> HIDE DEF r, x
<1>4. row' \in [Servers -> Rows] /\ row'[s].status = "pending" /\ \A t \in Servers : t # s => row'[t] = row[t]
  BY <1>3, AskFacts
<1>5. RequestFits(r)
  BY <1>2 DEF RequestFits, OnServer
<1>6. Of(s) = {} /\ ~Exists(s) /\ Free(q) /\ UNCHANGED <<op, running, work, dying, node, mix>>
  BY DEF AddServer
<1>7. ~mix.overlap => Alone(q, s)
  BY <1>6 DEF ProvInv, OneActor, Alone, Of
<1>8. QED BY <1>2, <1>4, <1>5, <1>6, <1>7, OpsUnchanged, AskFacts, RequestMoves

LEMMA KeepRowKeeps ==
    ASSUME ProvInv, NEW q \in Requests, NEW s \in Servers, NEW call \in {"remove", "promote"}, KeepRow(q, s, call)
    PROVE  ProvInv'
<1> DEFINE r == [NoReq EXCEPT !.call = call, !.at = "create", !.s = s, !.copy = row[s]]
<1>1. /\ r \in AskRecords /\ r.at = "create" /\ r.s = s /\ r.call = call /\ r.copy = row[s]
      /\ req' = [req EXCEPT ![q] = r] /\ row[s] \in Rows
  BY ProvFacts, AskFacts DEF KeepRow, AskRecords, NoReq, CallKinds, ReqPlaces
<1> HIDE DEF r
<1>2. RequestFits(r)
  BY <1>1 DEF RequestFits, OnServer, KeepRow, Exists
<1>3. ~mix.overlap => Alone(q, s) /\ row'[s].status # "none"
  BY NotBusy DEF KeepRow, Exists
<1>4. QED BY <1>1, <1>2, <1>3, OpsUnchanged, AskFacts, RequestMoves DEF KeepRow

LEMMA RenameKeeps == ASSUME ProvInv, NEW q \in Requests, NEW s \in Servers, Rename(q, s) PROVE ProvInv'
<1> DEFINE r == [NoReq EXCEPT !.call = "rename", !.at = "write", !.s = s, !.copy = row[s]]
<1>1. /\ r \in AskRecords /\ r.at = "write" /\ r.s = s /\ r.call = "rename" /\ r.copy = row[s]
      /\ req' = [req EXCEPT ![q] = r] /\ row[s] \in Rows
  BY ProvFacts, AskFacts DEF Rename, AskRecords, NoReq, CallKinds, ReqPlaces
<1> HIDE DEF r
<1>2. RequestFits(r)
  BY <1>1 DEF RequestFits, OnServer, Rename, Exists
<1>3. ~mix.overlap => Alone(q, s) /\ row'[s].status # "none"
  BY NotBusy DEF Rename, Exists
<1>4. QED BY <1>1, <1>2, <1>3, OpsUnchanged, AskFacts, RequestMoves DEF Rename

LEMMA RenameWriteKeeps == ASSUME ProvInv, NEW q \in Requests, RenameWrite(q) PROVE ProvInv'
<1> DEFINE s == req[q].s
<1>1. OnServer(req[q]) /\ s \in Servers /\ req[q].copy \in Rows /\ req[q].copy.status # "none" /\ "rename" \in mix.calls
  BY AskFacts DEF RenameWrite, RequestFits, OnServer, AskRecords
<1>2. ~Undisturbed(mix)
  BY <1>1 DEF Undisturbed
<1>3. row' = row \/ (Exists(s) /\ row' = [row EXCEPT ![s] = req[q].copy])
  BY DEF RenameWrite, UpdateServer
<1>4. row' \in [Servers -> Rows] /\ \A t \in Servers : row'[t] = row[t] \/ (t = s /\ Exists(s) /\ row'[s].status # "none")
  BY <1>1, <1>3, AskFacts
<1>5. req' = [req EXCEPT ![q] = NoReq] /\ ~OnServer(NoReq) /\ req[q].at # "start"
  BY ProvFacts DEF RenameWrite, Reply, OnServer
<1>6. UNCHANGED <<op, running, work, dying, node, mix>>
  BY DEF RenameWrite
<1>7. ~mix.overlap => Alone(q, s)
  BY <1>1, AloneOnIts
<1>8. QED BY <1>2, <1>4, <1>5, <1>6, <1>7, ProvFacts, EmptyFits, OpsUnchanged, RequestMoves

LEMMA RequestIsCutKeeps == ASSUME ProvInv, NEW q \in Requests, RequestIsCut(q) PROVE ProvInv'
<1>1. req' = [req EXCEPT ![q] = NoReq] /\ ~OnServer(NoReq) /\ req[q].at # "start"
  BY ProvFacts DEF RequestIsCut, Reply, OnServer
<1>2. QED BY <1>1, AskFacts, ProvFacts, EmptyFits, OpsUnchanged, RequestMoves DEF RequestIsCut

LEMMA CancelRecordKeeps == ASSUME ProvInv, NEW q \in Requests, CancelRecord(q) PROVE ProvInv'
<1>1. req' = [req EXCEPT ![q] = NoReq] /\ ~OnServer(NoReq) /\ req[q].at # "start"
  BY ProvFacts DEF CancelRecord, Reply, OnServer
<1>2. req[q].o \in Ops /\ "cancel" \in mix.calls
  BY AskFacts DEF CancelRecord, RequestFits
<1>3. OnlyOp(req[q].o)
  BY <1>2, Recorded DEF CancelRecord, OpStatuses
<1>4. OpsKept /\ ~Calmly(mix)
  BY <1>2, <1>3 DEF OnlyOp, OpsKept, Calmly
<1>5. QED BY <1>1, <1>4, AskFacts, ProvFacts, EmptyFits, RequestMoves DEF CancelRecord

LEMMA RetryResetKeeps == ASSUME ProvInv, NEW q \in Requests, RetryReset(q) PROVE ProvInv'
<1> DEFINE r == [req[q] EXCEPT !.at = "again"]
<1>1. /\ r \in AskRecords /\ r.at = "again" /\ r.s = req[q].s /\ r.call = req[q].call /\ r.copy = req[q].copy /\ r.o = req[q].o
      /\ req' = [req EXCEPT ![q] = r] /\ req[q].at = "reset"
  BY AskFacts DEF RetryReset, ReqAt, AskRecords, ReqPlaces
<1> HIDE DEF r
<1>2. RequestFits(r) /\ OnServer(req[q]) /\ r.call = "retry"
  BY <1>1, AskFacts DEF RequestFits, OnServer
<1>3. ~mix.overlap => Alone(q, r.s) /\ row'[r.s].status # "none"
  BY <1>1, <1>2, AloneOnIts DEF RetryReset, Exists
<1>4. QED BY <1>1, <1>2, <1>3, OpsUnchanged, AskFacts, RequestMoves DEF RetryReset

LEMMA RetryAgainKeeps == ASSUME ProvInv, NEW q \in Requests, RetryAgain(q) PROVE ProvInv'
<1> DEFINE r == [req[q] EXCEPT !.at = "start"]
<1>1. /\ r \in AskRecords /\ r.at = "start" /\ r.s = req[q].s /\ r.call = req[q].call /\ r.copy = req[q].copy /\ r.o = req[q].o
      /\ req' = [req EXCEPT ![q] = r] /\ req[q].at = "again"
  BY AskFacts DEF RetryAgain, ReqAt, AskRecords, ReqPlaces
<1> HIDE DEF r
<1>2. RequestFits(r) /\ OnServer(req[q]) /\ r.call = "retry" /\ r.o \in Made /\ op[r.o].s = r.s
  BY <1>1, AskFacts DEF RequestFits, OnServer
<1>3. ~mix.overlap => Alone(q, r.s) /\ row'[r.s].status # "none"
  BY <1>1, <1>2, AloneOnIts DEF RetryAgain, Exists
<1>4. r.o \in Ops /\ OnlyOp(r.o)
  BY <1>1, <1>2, Recorded DEF RetryAgain, OpStatuses, Made
<1>5. OpsKept
  BY <1>4 DEF OnlyOp, OpsKept
<1>6. Calmly(mix) => ~Alive(r.o)
  BY <1>2, <1>3 DEF Calmly, Alone, AtWork
<1>7. Calmly(mix) => \A o \in Ops : op'[o] = op[o] \/ (~Alive(o) /\ r.o = o /\ r.at = "start")
  BY <1>1, <1>4, <1>6 DEF OnlyOp
<1>8. QED BY <1>1, <1>2, <1>3, <1>5, <1>7, AskFacts, RequestMoves DEF RetryAgain

\* Among the operations of a server one is the latest.
LEMMA LatestIsOne == ASSUME ProvInv, NEW s, Of(s) # {} PROVE LatestOperation(s) \in Of(s)
<1>1. PICK k \in 0..MaxOps : Made = 1..k
  BY DEF ProvInv, IdsInOrder
<1>2. Of(s) \subseteq 1..k /\ k \in Nat
  BY <1>1, ProvFacts DEF Of
<1> DEFINE T == {k - o : o \in Of(s)}
<1>3. T \subseteq Nat /\ T # {}
  BY <1>2
<1>4. PICK m \in T : \A y \in T : ~(<<y, m>> \in OpToRel(<, Nat))
  BY <1>3, NatLessThanWellFounded, WFMin
<1>5. \A y \in T : ~(y < m)
  BY <1>3, <1>4 DEF OpToRel
<1>6. PICK o \in Of(s) : m = k - o
  BY <1>4
<1>7. \A p \in Of(s) : p <= o
  <2>1. ASSUME NEW p \in Of(s) PROVE p <= o
    <3>1. k - p \in T
      OBVIOUS
    <3>2. ~(k - p < k - o)
      BY <1>5, <1>6, <3>1
    <3>3. QED BY <1>2, <3>2
  <2>2. QED BY <2>1
<1>8. QED BY <1>7 DEF LatestOperation

LEMMA RetryServerKeeps == ASSUME ProvInv, NEW q \in Requests, NEW s \in Servers, RetryServer(q, s) PROVE ProvInv'
<1> DEFINE l == LatestOperation(s)
           r == [NoReq EXCEPT !.call = "retry", !.at = "reset", !.s = s, !.o = l]
<1>1. l \in Made /\ op[l].s = s /\ l \in Ops
  BY LatestIsOne DEF RetryServer, Of, Made
<1>2. /\ r \in AskRecords /\ r.at = "reset" /\ r.s = s /\ r.call = "retry" /\ r.o = l
      /\ req' = [req EXCEPT ![q] = r]
  BY <1>1, ProvFacts DEF RetryServer, AskRecords, NoReq, CallKinds, ReqPlaces
<1> HIDE DEF r, l
<1>3. RequestFits(r)
  BY <1>1, <1>2 DEF RequestFits, OnServer
<1>4. ~mix.overlap => Alone(q, s) /\ row'[s].status # "none"
  BY NotBusy DEF RetryServer, Exists
<1>5. QED BY <1>2, <1>3, <1>4, OpsUnchanged, AskFacts, RequestMoves DEF RetryServer

\* The next operation takes the next id.
LEMMA NextId ==
    ASSUME ProvInv, MayCreate
    PROVE  /\ NewOp \in Ops /\ NewOp \notin Made
           /\ \E k \in 0..MaxOps : k + 1 \in 0..MaxOps /\ NewOp = k + 1 /\ Made = 1..k
<1>1. PICK k \in 0..MaxOps : Made = 1..k
  BY DEF ProvInv, IdsInOrder
<1>2. Cardinality(Made) = k
  BY <1>1, FS_Interval
<1>3. mix.ops \in 0..MaxOps
  BY MixesAssumption DEF ProvInv, ProvTypes
<1>4. QED BY <1>1, <1>2, <1>3, ProvFacts DEF MayCreate, NewOp, Ops

LEMMA CreateTheOperationKeeps == ASSUME ProvInv, NEW q \in Requests, CreateTheOperation(q) PROVE ProvInv'
<1> DEFINE n == NewOp
           r == [req[q] EXCEPT !.at = "start", !.o = n]
           x == [kind |-> req[q].call, status |-> "pending", s |-> req[q].s]
<1>1. /\ n \in Ops /\ n \notin Made
      /\ \E k \in 0..MaxOps : k + 1 \in 0..MaxOps /\ n = k + 1 /\ Made = 1..k
  BY NextId DEF CreateTheOperation
<1>2. /\ OnServer(req[q]) /\ req[q].at = "create" /\ req[q].s \in Servers /\ req[q].call \in {"add", "remove", "promote"}
      /\ req[q] \in AskRecords
  BY AskFacts DEF CreateTheOperation, RequestFits, OnServer
<1>3. /\ r \in AskRecords /\ r.at = "start" /\ r.s = req[q].s /\ r.call = req[q].call /\ r.copy = req[q].copy /\ r.o = n
  BY <1>1, <1>2 DEF AskRecords, ReqPlaces
<1>4. x \in OpRows /\ x.kind # "none" /\ x.s = req[q].s
  BY <1>2 DEF OpRows, Programs, OpStatuses
<1>5. op' = [op EXCEPT ![n] = x] /\ req' = [req EXCEPT ![q] = r] /\ UNCHANGED <<row, running, work, machine, node, dying, mix>>
  BY DEF CreateTheOperation, CreateOperation
<1> HIDE DEF n, r, x
<1>6. op' \in [Ops -> OpRows] /\ op'[n] = x /\ \A p \in Ops : p # n => op'[p] = op[p]
  BY <1>1, <1>4, <1>5 DEF ProvInv, ProvTypes
<1>7. req' \in [Requests -> AskRecords] /\ req'[q] = r /\ \A p \in Requests : p # q => req'[p] = req[p]
  BY <1>3, <1>5 DEF ProvInv, ProvTypes
<1>8. Made' = Made \cup {n}
  BY <1>1, <1>4, <1>6 DEF Made
<1>9. \A p \in Ops : (Alive(p)' <=> Alive(p)) /\ (AtWork(p)' <=> AtWork(p)) /\ (AtWork(p) => p \in Made /\ p # n)
  BY <1>1, <1>5 DEF Alive, AtWork, ProvInv, WorkIsOfOperations
<1>10. \A p \in Made : p \in Ops /\ p # n /\ op'[p] = op[p]
  BY <1>1, <1>6 DEF Made
<1>11. ProvTypes'
  BY <1>5, <1>6, <1>7 DEF ProvInv, ProvTypes
<1>12. IdsInOrder'
  <2>1. PICK k \in 0..MaxOps : k + 1 \in 0..MaxOps /\ n = k + 1 /\ Made = 1..k
    BY <1>1
  <2>2. Made' = 1..(k + 1)
    BY <1>8, <2>1, ProvFacts
  <2>3. QED BY <2>1, <2>2 DEF IdsInOrder
<1>13. RowsAreRows'
  BY <1>2, <1>4, <1>5, <1>6, <1>8, <1>10 DEF ProvInv, RowsAreRows
<1>14. \A p \in Requests : RequestFits(req[p])'
  <2>1. ASSUME NEW p \in Requests PROVE RequestFits(req[p])'
    <3>1. CASE p = q
      <4>1. RequestFits(req[q])
        BY AskFacts
      <4>2. QED BY <1>2, <1>3, <1>4, <1>5, <1>6, <1>7, <1>8, <3>1, <4>1 DEF RequestFits, OnServer
    <3>2. CASE p # q
      <4>1. RequestFits(req[p]) /\ req'[p] = req[p]
        BY <1>7, <3>2 DEF ProvInv
      <4>2. QED BY <1>5, <1>8, <1>10, <4>1 DEF RequestFits
    <3>3. QED BY <3>1, <3>2
  <2>2. QED BY <2>1
<1>15. WorkIsOfOperations' /\ MapInv' /\ LiveInv'
  BY <1>5, <1>8, <1>9 DEF ProvInv, WorkIsOfOperations, WorkFits, AtWork, MapInv, LiveInv
<1>16. GoneInv' /\ EndInv'
  BY <1>5, <1>9, <1>10 DEF ProvInv, GoneInv, EndInv, Exists, Over, AtWork, Alive
<1>17. OneActor'
  <2>1. \A p \in Requests : /\ OnServer(req'[p]) <=> OnServer(req[p])
                            /\ req'[p].s = req[p].s
    BY <1>2, <1>3, <1>7 DEF OnServer
  <2>2. \A p \in Made' : AtWork(p)' => p \in Made /\ AtWork(p) /\ op'[p] = op[p]
    BY <1>1, <1>8, <1>9, <1>10
  <2> SUFFICES ASSUME ~mix.overlap PROVE OneActor'
    BY <1>5 DEF OneActor
  <2>3. \A p \in Requests : OnServer(req'[p]) => row'[req'[p].s].status # "none"
    BY <1>5, <2>1 DEF ProvInv, OneActor, Exists
  <2>4. \A p, u \in Requests : OnServer(req'[p]) /\ OnServer(req'[u]) /\ req'[p].s = req'[u].s => p = u
    BY <2>1 DEF ProvInv, OneActor
  <2>5. \A p \in Requests, o \in Made' : OnServer(req'[p]) /\ AtWork(o)' => op'[o].s # req'[p].s
    BY <2>1, <2>2 DEF ProvInv, OneActor
  <2>6. \A o, p \in Made' : AtWork(o)' /\ AtWork(p)' /\ op'[o].s = op'[p].s => o = p
    BY <2>2 DEF ProvInv, OneActor
  <2>7. QED BY <2>3, <2>4, <2>5, <2>6 DEF OneActor, Exists
<1>18. NodeInv'
  <2>1. \A p \in Requests : /\ OnServer(req'[p]) <=> OnServer(req[p])
                            /\ req'[p].s = req[p].s /\ req'[p].call = req[p].call /\ req'[p].copy = req[p].copy
    BY <1>2, <1>3, <1>7 DEF OnServer
  <2>2. \A p \in Ops : Alive(p) => op'[p] = op[p]
    BY <1>9, <1>10 DEF AtWork
  <2>3. QED BY <1>5, <1>9, <2>1, <2>2 DEF ProvInv, NodeInv, Exists
<1>19. NobodyLeftInProgress'
  <2>1. \A s \in Servers : \A p \in Of(s) : p \in Of(s)'
    BY <1>8, <1>10 DEF Of
  <2>2. QED BY <1>5, <2>1 DEF ProvInv, NobodyLeftInProgress, Alive
<1>20. RunningIsRun'
  <2> SUFFICES ASSUME Calmly(mix), NEW p \in Made', op'[p].status \in {"pending", "running"}
               PROVE  Alive(p)' \/ \E u \in Requests : req'[u].o = p /\ req'[u].at = "start"
    BY <1>5 DEF RunningIsRun, Calmly
  <2>1. CASE p = n
    BY <1>3, <1>7, <2>1
  <2>2. CASE p # n
    <3>1. p \in Made /\ op'[p] = op[p] /\ p \in Ops
      BY <1>8, <1>10, <2>2
    <3>2. Alive(p) \/ \E u \in Requests : req[u].o = p /\ req[u].at = "start"
      BY <3>1 DEF ProvInv, RunningIsRun, Calmly
    <3>3. \A u \in Requests : req[u].at = "start" => req'[u] = req[u]
      BY <1>2, <1>7
    <3>4. QED BY <1>9, <3>1, <3>2, <3>3
  <2>3. QED BY <2>1, <2>2
<1>21. QED BY <1>11, <1>12, <1>13, <1>14, <1>15, <1>16, <1>17, <1>18, <1>19, <1>20 DEF ProvInv

LEMMA StartKeeps == ASSUME ProvInv, NEW q \in Requests, Start(q) PROVE ProvInv'
<1>0. PICK o \in Ops : o = req[q].o
  BY AskFacts DEF Start, RequestFits, Made
<1>1. /\ OnServer(req[q]) /\ req[q].at = "start" /\ req[q].s \in Servers /\ req[q] \in AskRecords
      /\ o \in Made /\ o \in Ops /\ op[o].s = req[q].s /\ req[q].call \in {"add", "remove", "promote", "retry"}
      /\ req[q].call \in {"remove", "promote"} => req[q].copy.status # "none"
  BY <1>0, AskFacts DEF Start, RequestFits, OnServer, Made
<1>2. PICK w : /\ w \in WorkRecords /\ w.at = "begin" /\ w.live = TRUE /\ w.orig = req[q].copy /\ w.skip = {}
               /\ w.prog = (IF req[q].call = "retry" THEN "add" ELSE req[q].call)
               /\ \/ o \in running /\ UNCHANGED <<running, work>>
                  \/ o \notin running /\ running' = running \cup {o} /\ work' = [work EXCEPT ![o] = w]
  <2>1. PICK wipe \in BOOLEAN :
            Register(o, [NoWork EXCEPT
               !.prog = IF req[q].call = "retry" THEN "add" ELSE req[q].call,
               !.at = "begin", !.live = TRUE, !.pass = req[q].pass,
               !.orig = req[q].copy, !.wipe = wipe])
    BY <1>0 DEF Start
  <2> DEFINE w == [NoWork EXCEPT
               !.prog = IF req[q].call = "retry" THEN "add" ELSE req[q].call,
               !.at = "begin", !.live = TRUE, !.pass = req[q].pass,
               !.orig = req[q].copy, !.wipe = wipe]
  <2>2. /\ w \in WorkRecords /\ w.at = "begin" /\ w.live = TRUE /\ w.orig = req[q].copy /\ w.skip = {}
        /\ w.prog = (IF req[q].call = "retry" THEN "add" ELSE req[q].call)
    <3>1. req[q].copy \in Rows /\ req[q].pass \in BOOLEAN /\ NoRow \in Rows
          /\ (IF req[q].call = "retry" THEN "add" ELSE req[q].call) \in Programs
      BY <1>1, ProvFacts DEF AskRecords, Programs
    <3>2. QED BY <3>1 DEF NoWork, WorkRecords, WorkPlaces
  <2>3. Register(o, w)
    BY <2>1
  <2> HIDE DEF w
  <2>4. QED BY <2>2, <2>3 DEF Register
<1>3. req' = [req EXCEPT ![q] = NoReq] /\ UNCHANGED <<row, op, step, machine, node, mix, dying>>
  BY DEF Start, Reply
<1>4. req' \in [Requests -> AskRecords] /\ req'[q] = NoReq /\ \A p \in Requests : p # q => req'[p] = req[p]
  BY <1>3, ProvFacts DEF ProvInv, ProvTypes
<1>5. /\ work' \in [Ops -> WorkRecords]
      /\ \A p \in Ops : \/ work'[p] = work[p]
                        \/ p = o /\ work'[p] = w /\ o \notin running
      /\ o \notin running => work'[o] = w
  BY <1>1, <1>2 DEF ProvInv, ProvTypes
<1>6. \A p \in Ops : /\ Alive(p) => Alive(p)'
                     /\ AtWork(p)' => AtWork(p) \/ p = o
                     /\ Alive(p)' => Alive(p) \/ p = o
  BY <1>2, <1>3, <1>5 DEF Alive, AtWork
<1>7. WorkFits(w) /\ ~NodeGone(w)
  BY <1>1, <1>2 DEF WorkFits, Stepping, NodeGone
<1>8. Made' = Made /\ (\A s \in Servers : Of(s)' = Of(s)) /\ (\A s \in Servers : Exists(s)' <=> Exists(s))
  BY <1>3 DEF Made, Of, Exists
<1>9. ~mix.overlap => Alone(q, req[q].s) /\ Exists(req[q].s)
  BY <1>1, AloneOnIts
<1>10. ProvTypes'
  BY <1>1, <1>2, <1>3, <1>4, <1>5 DEF ProvInv, ProvTypes
<1>11. IdsInOrder' /\ RowsAreRows'
  BY <1>3, <1>8 DEF ProvInv, IdsInOrder, RowsAreRows
<1>12. \A p \in Requests : RequestFits(req[p])'
  <2>1. ASSUME NEW p \in Requests PROVE RequestFits(req[p])'
    <3>1. RequestFits(req'[p])
      BY <1>4, EmptyFits DEF ProvInv
    <3>2. QED BY <1>3, <1>8, <3>1 DEF RequestFits
  <2>2. QED BY <2>1
<1>13. WorkIsOfOperations'
  <2>1. \A p \in Ops : WorkFits(work'[p])
    BY <1>5, <1>7 DEF ProvInv, WorkIsOfOperations
  <2>2. \A p \in Ops : AtWork(p)' => p \in Made'
    BY <1>1, <1>6, <1>8 DEF ProvInv, WorkIsOfOperations, AtWork
  <2>3. QED BY <2>1, <2>2 DEF WorkIsOfOperations, AtWork, WorkFits
<1>14. MapInv'
  <2>1. \A p \in Ops : p # o => (p \in running' <=> p \in running) /\ work'[p] = work[p]
    BY <1>2, <1>5
  <2>2. o \in running' /\ (o \notin running => Alive(o)')
    BY <1>1, <1>2, <1>5 DEF Alive
  <2>3. QED BY <1>1, <1>3, <1>6, <2>1, <2>2 DEF ProvInv, MapInv, Alive
<1>15. LiveInv'
  BY <1>2, <1>3, <1>5, <1>6 DEF ProvInv, LiveInv, Alive
<1>16. GoneInv' /\ EndInv'
  BY <1>2, <1>3, <1>5 DEF ProvInv, GoneInv, EndInv, Exists, Over
<1>17. OneActor'
  <2> SUFFICES ASSUME ~mix.overlap PROVE OneActor'
    BY <1>3 DEF OneActor
  <2>1. \A p \in Requests : OnServer(req'[p]) => p # q /\ req'[p] = req[p] /\ req[p].s # req[q].s
    BY <1>1, <1>4, <1>9, ProvFacts DEF OnServer, Alone
  <2>2. \A p \in Requests : OnServer(req'[p]) => Exists(req'[p].s)
    BY <2>1 DEF ProvInv, OneActor
  <2>3. \A p, u \in Requests : OnServer(req'[p]) /\ OnServer(req'[u]) /\ req'[p].s = req'[u].s => p = u
    BY <2>1 DEF ProvInv, OneActor
  <2>4. \A p \in Requests, u \in Made : OnServer(req'[p]) /\ AtWork(u)' => op[u].s # req'[p].s
    BY <1>1, <1>6, <2>1 DEF ProvInv, OneActor, Made
  <2>5. \A u, p \in Made : AtWork(u)' /\ AtWork(p)' /\ op[u].s = op[p].s => u = p
    <3>1. \A u \in Made : AtWork(u) => op[u].s # op[o].s
      BY <1>1, <1>9 DEF Alone
    <3>2. QED BY <1>1, <1>6, <3>1 DEF ProvInv, OneActor, Made
  <2>6. QED BY <1>3, <1>8, <2>2, <2>3, <2>4, <2>5 DEF OneActor, Exists
<1>18. NodeInv'
  <2> SUFFICES ASSUME ~mix.overlap PROVE NodeInv'
    BY <1>3 DEF NodeInv
  <2>1. \A p \in Requests : OnServer(req'[p]) => req'[p] = req[p]
    BY <1>4, ProvFacts DEF OnServer
  <2>2. ASSUME NEW p \in Ops, Alive(p)', work'[p].prog = "remove"
        PROVE  /\ Exists(op[p].s) => row[op[p].s].node = work'[p].orig.node
               /\ work'[p].at \in {"do"} => work'[p].copy = work'[p].orig
               /\ work'[p].at = "delete" => work'[p].n > 3
               /\ NodeGone(work'[p]) /\ work'[p].orig.node => node[op[p].s] = "none"
    <3>1. CASE work'[p] = work[p]
      BY <2>2, <3>1 DEF ProvInv, NodeInv, Alive
    <3>2. CASE p = o /\ work'[p] = w
      <4>1. req[q].call = "remove"
        BY <1>1, <1>2, <2>2, <3>2
      <4>2. row[op[p].s].node = w.orig.node
        BY <1>1, <1>2, <3>2, <4>1 DEF ProvInv, NodeInv
      <4>3. QED BY <1>2, <1>7, <3>2, <4>2
    <3>3. QED BY <1>5, <3>1, <3>2
  <2>3. QED BY <1>3, <2>1, <2>2 DEF ProvInv, NodeInv, Exists
<1>19. NobodyLeftInProgress'
  <2>1. \A s \in Servers : \A p \in Of(s) : p \in Ops /\ p \in Of(s)' /\ (Alive(p) => Alive(p)')
    BY <1>6, <1>8 DEF Of, Made
  <2>2. QED BY <1>3, <2>1 DEF ProvInv, NobodyLeftInProgress
<1>20. RunningIsRun'
  <2> SUFFICES ASSUME Calmly(mix), NEW p \in Made, op[p].status \in {"pending", "running"}
               PROVE  Alive(p)' \/ \E u \in Requests : req'[u].o = p /\ req'[u].at = "start"
    BY <1>3, <1>8 DEF RunningIsRun, Calmly
  <2>1. CASE p = o
    <3>1. o \in running => Alive(o)
      BY <1>1 DEF ProvInv, MapInv, Calmly
    <3>2. o \notin running => Alive(o)'
      BY <1>2, <1>5 DEF Alive
    <3>3. QED BY <1>1, <1>6, <2>1, <3>1, <3>2
  <2>2. CASE p # o
    <3>1. Alive(p) \/ \E u \in Requests : req[u].o = p /\ req[u].at = "start"
      BY DEF ProvInv, RunningIsRun, Calmly
    <3>2. \A u \in Requests : req[u].o = p => req'[u] = req[u]
      BY <1>0, <1>4, <2>2
    <3>3. p \in Ops
      BY DEF Made
    <3>4. QED BY <1>6, <3>1, <3>2, <3>3
  <2>3. QED BY <2>1, <2>2
<1>21. QED BY <1>10, <1>11, <1>12, <1>13, <1>14, <1>15, <1>16, <1>17, <1>18, <1>19, <1>20 DEF ProvInv

LEMMA RestartKeeps == ASSUME ProvInv, Restart PROVE ProvInv'
<1>1. /\ \A o \in Ops : work'[o] = NoWork /\ dying'[o] = "no" /\ ~Alive(o)' /\ ~AtWork(o)'
      /\ \A q \in Requests : req'[q] = NoReq /\ ~OnServer(req'[q])
      /\ running' = {} /\ UNCHANGED <<machine, node, mix>>
      /\ work' \in [Ops -> WorkRecords] /\ dying' \in [Ops -> {"no", "live", "dead"}] /\ req' \in [Requests -> AskRecords]
  BY ProvFacts DEF Restart, Alive, AtWork, OnServer
<1>2. \A o \in Ops : /\ op'[o] = IF o \in Interrupted THEN [op[o] EXCEPT !.status = "failed"] ELSE op[o]
                     /\ op[o] \in OpRows
  BY DEF Restart, ProvInv, ProvTypes
<1>3. \A o \in Ops : op'[o] \in OpRows /\ op'[o].kind = op[o].kind /\ op'[o].s = op[o].s
  BY <1>2 DEF OpRows, OpStatuses
<1>4. OpsKept
  BY <1>3 DEF OpsKept, Restart
<1>5. \A s \in Servers : /\ \/ row'[s] = row[s]
                            \/ Exists(s) /\ row'[s] = [row[s] EXCEPT !.status = "failed"]
                         /\ row[s] \in Rows
  BY DEF Restart, ProvInv, ProvTypes
<1>6. row' \in [Servers -> Rows] /\ \A s \in Servers : row'[s].node = row[s].node /\ (row'[s].status = "none" <=> row[s].status = "none")
  <2>1. \A s \in Servers : row'[s] \in Rows /\ row'[s].node = row[s].node /\ (row'[s].status = "none" <=> row[s].status = "none")
    BY <1>5 DEF Rows, Statuses, Exists
  <2>2. QED BY <2>1 DEF Restart
<1>7. /\ Made' = Made /\ IdsInOrder' /\ (\A s \in Servers : Of(s)' = Of(s))
      /\ \A p \in Made : p \in Ops /\ op'[p].s = op[p].s /\ op[p].s \in Servers
  BY <1>4, KeptOps
<1>8. ProvTypes'
  BY <1>1, <1>4, <1>6 DEF ProvInv, ProvTypes, OpsKept
<1>9. RowsAreRows'
  BY <1>6, <1>7 DEF ProvInv, RowsAreRows
<1>10. \A q \in Requests : RequestFits(req[q])'
  BY <1>1, ProvFacts DEF RequestFits, OnServer
<1>11. WorkIsOfOperations'
  BY <1>1, EmptyFits, ProvFacts DEF WorkIsOfOperations, AtWork, WorkFits, Stepping
<1>12. MapInv' /\ LiveInv'
  BY <1>1 DEF MapInv, LiveInv
<1>13. GoneInv' /\ EndInv'
  BY <1>1, ProvFacts DEF GoneInv, EndInv
<1>14. OneActor' /\ NodeInv'
  BY <1>1, <1>7 DEF OneActor, NodeInv
<1>15. NobodyLeftInProgress'
  BY <1>1 DEF Restart, NobodyLeftInProgress
<1>16. RunningIsRun'
  <2>1. \A o \in Made : op'[o].status \notin {"pending", "running"}
    BY <1>2, <1>7 DEF Interrupted, OpRows
  <2>2. QED BY <1>7, <2>1 DEF RunningIsRun
<1>17. QED BY <1>7, <1>8, <1>9, <1>10, <1>11, <1>12, <1>13, <1>14, <1>15, <1>16 DEF ProvInv

LEMMA ProvStutter == ASSUME ProvInv, UNCHANGED vars PROVE ProvInv'
BY DEF vars, ProvInv, ProvTypes, IdsInOrder, RowsAreRows, RequestFits, OnServer, WorkIsOfOperations, WorkFits, MapInv,
       LiveInv, GoneInv, OneActor, EndInv, NodeInv, NodeGone, NobodyLeftInProgress, RunningIsRun, Made, Alive, AtWork,
       Exists, Of, Over

LEMMA ProvStep == ProvInv /\ [Next]_vars => ProvInv'
<1> SUFFICES ASSUME ProvInv, [Next]_vars PROVE ProvInv'
  OBVIOUS
<1>1. ASSUME NEW q \in Requests, NEW s \in Servers,
             AddServer(q, s) \/ AskRemove(q, s) \/ AskPromote(q, s) \/ RetryServer(q, s) \/ Rename(q, s)
      PROVE  ProvInv'
  BY <1>1, AddServerKeeps, KeepRowKeeps, RetryServerKeeps, RenameKeeps DEF AskRemove, AskPromote
<1>2. ASSUME NEW q \in Requests, Serve(q) \/ RequestIsCut(q) PROVE ProvInv'
  BY <1>2, CreateTheOperationKeeps, StartKeeps, RetryResetKeeps, RetryAgainKeeps, CancelRecordKeeps, RenameWriteKeeps,
     RequestIsCutKeeps DEF Serve
<1>3. ASSUME NEW o \in Ops, Run(o) PROVE ProvInv'
  BY <1>3, BeginKeeps, BeginServerKeeps, ReadDoneKeeps, StepSkipKeeps, StepMarkKeeps, StepWorksKeeps, StepFailsKeeps,
     UninstallKeeps, StepDoneKeeps, PromoteKeeps, DeleteServerKeeps, SucceedKeeps, ServerEndsKeeps, FailStepKeeps,
     FailOperationKeeps, FailPanickedKeeps DEF Run
<1>4. ASSUME NEW o \in Ops, Expire(o) \/ Panic(o) PROVE ProvInv'
  BY <1>4, ExpireKeeps, PanicKeeps
<1>5. QED BY <1>1, <1>2, <1>3, <1>4, CancelKeeps, RestartKeeps, ProvStutter DEF Next, Ask

\* Nobody waits for work that nobody does, within what each part of the property excepts: the map, the rows and
\* the operations agree with the goroutines there are (start, finish, failServer and ResumeInterrupted).
THEOREM ServersAreLookedAfterAlways == Spec => []ServersAreLookedAfter
<1>1. ProvInv => ServersAreLookedAfter
  BY DEF ProvInv, MapInv, MapIsExact, ServersAreLookedAfter
<1>2. QED BY ProvStart, ProvStep, <1>1, PTL DEF Spec

\* Only DeleteServer takes a row away.
LEMMA OnlyARemovalDeletes ==
    ASSUME ProvInv, Next, NEW s \in Servers, Exists(s), row'[s].status = "none"
    PROVE  \E o \in Ops : DeleteServer(o) /\ op[o].s = s
<1>1. \/ UNCHANGED row
      \/ \E q \in Requests, t \in Servers : AddServer(q, t)
      \/ \E q \in Requests : RenameWrite(q)
      \/ \E o \in Ops : \/ BeginServer(o) \/ StepWorks(o) \/ Promote(o) \/ DeleteServer(o)
                        \/ SucceedServer(o) \/ FailServer(o)
      \/ Restart
  BY DEF Next, Ask, AskRemove, AskPromote, KeepRow, RetryServer, Rename, Cancel, Serve, CreateTheOperation, Start,
         RetryReset, RetryAgain, CancelRecord, RequestIsCut, Run, Begin, ReadDone, StepSkip, StepMark, StepFails, Uninstall,
         StepDone, Succeed, FailStep, FailOperation, FailPanicked, Expire, Panic, Cordon, DeleteNode, StepInstallK3s
<1>2. ~UNCHANGED row
  BY DEF Exists
<1>3. ASSUME NEW q \in Requests, NEW t \in Servers, AddServer(q, t) PROVE FALSE
  BY <1>3 DEF AddServer, UpdateServer, Exists, ProvInv, ProvTypes
<1>4. ASSUME NEW q \in Requests, RenameWrite(q) PROVE FALSE
  <2>1. req[q].s \in Servers /\ req[q].copy.status # "none"
    BY <1>4, AskFacts DEF RenameWrite, RequestFits, OnServer
  <2>2. QED BY <1>4, <2>1 DEF RenameWrite, UpdateServer, Exists, ProvInv, ProvTypes
<1>5. ASSUME NEW o \in Ops, BeginServer(o) \/ SucceedServer(o) \/ FailServer(o) PROVE FALSE
  <2>1. op[o].s \in Servers
    BY <1>5, AtWorkFacts DEF BeginServer, SucceedServer, FailServer, Alive
  <2>2. Exists(op[o].s)' <=> Exists(op[o].s)
    BY <1>5, <2>1, ServerRecorded DEF BeginServer, SucceedServer, FailServer, Statuses, Exists
  <2>3. \A t \in Servers : t # op[o].s => row'[t] = row[t]
    BY <1>5, <2>1, ServerRecorded DEF BeginServer, SucceedServer, FailServer, Statuses, OnlyRow
  <2>4. UNCHANGED op
    BY <1>5 DEF BeginServer, SucceedServer, FailServer
  <2>5. QED BY <2>2, <2>3, <2>4 DEF Exists
<1>6. Restart => FALSE
  BY DEF Restart, Exists
<1>7. ASSUME NEW o \in Ops, Promote(o) PROVE FALSE
  <2>1. Alive(o) /\ work[o].at = "role"
    BY <1>7 DEF Promote, Alive
  <2>2. op[o].s \in Servers /\ work[o].orig \in Rows /\ work[o].orig.status # "none"
    BY <2>1, AtWorkFacts DEF WorkFits, WorkRecords
  <2>3. [work[o].orig EXCEPT !.role = "control-plane", !.node = FALSE].status # "none"
    BY <2>2 DEF Rows
  <2>4. QED BY <1>7, <2>2, <2>3 DEF Promote, UpdateServer, Exists, ProvInv, ProvTypes
<1>8. ASSUME NEW o \in Ops, StepWorks(o) PROVE FALSE
  <2>1. work[o].at = "do" /\ Key(o) # "uninstall" /\ Effect(o) /\ Alive(o)
    BY <1>8 DEF StepWorks, Alive
  <2>2. /\ \A t \in Servers : t # op[o].s => row'[t] = row[t]
        /\ row'[op[o].s] = row[op[o].s] \/ row'[op[o].s].status # "none"
    BY <2>1, EffectFits DEF OnlyRow
  <2>3. QED BY <2>2 DEF Exists
<1>9. PICK o \in Ops : DeleteServer(o)
  BY <1>1, <1>2, <1>3, <1>4, <1>5, <1>6, <1>7, <1>8
<1>10. op[o].s = s
  BY <1>9 DEF DeleteServer, UpdateServer, Exists, ProvInv, ProvTypes
<1>11. QED BY <1>9, <1>10

\* A node the panel has on record has left the cluster when its row is deleted (removeSteps in remove.go work on
\* the row as RemoveServer read it), unless several work on one server.
THEOREM RecordedNodeLeavesAlways == Spec => RecordedNodeLeaves
<1>1. ProvInv /\ [Next]_vars =>
          [~mix.overlap => \A s \in Servers :
              row[s].node /\ row'[s].status = "none" => node'[s] = "none"]_vars
  <2> SUFFICES ASSUME ProvInv, Next, ~mix.overlap, NEW s \in Servers, row[s].node, row'[s].status = "none"
               PROVE  node'[s] = "none"
    OBVIOUS
  <2>1. Exists(s)
    BY DEF ProvInv, RowsAreRows, Exists
  <2>2. PICK o \in Ops : DeleteServer(o) /\ op[o].s = s
    BY <2>1, OnlyARemovalDeletes
  <2>3. Alive(o) /\ work[o].at = "delete"
    BY <2>2 DEF DeleteServer, Alive
  <2>4. work[o].prog = "remove"
    BY <2>3, AtWorkFacts DEF WorkFits
  <2>5. work[o].orig.node /\ NodeGone(work[o])
    BY <2>1, <2>2, <2>3, <2>4, AtWorkFacts DEF NodeGone
  <2>6. QED BY <2>2, <2>3, <2>4, <2>5, AtWorkFacts DEF DeleteServer
<1>2. QED BY ProvStart, ProvStep, <1>1, PTL DEF Spec, RecordedNodeLeaves
=============================================================================
