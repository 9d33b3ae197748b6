------------------------------- MODULE Watch --------------------------------
(***************************************************************************)
(* The health watcher (watch/watch.go): a pass a minute compares the rows  *)
(* of the servers with the nodes of the cluster, writes what changed and   *)
(* tells the team.  A pass goes by the nodes and then the rows it read at  *)
(* its start; the provisioner removes servers meanwhile and writes their   *)
(* rows too.  Of the apps it looks at none, because their list is refused. *)
(***************************************************************************)
EXTENDS Naturals, FiniteSets

CONSTANTS
    WServers,      \* servers, each with the node it became
    WApps,         \* apps
    WatchMixes     \* what a behaviour meets

WatchFaults == {"cluster", "rows", "store", "timeout"}
ASSUME WatchAssumption ==
    WatchMixes \subseteq [faults : SUBSET WatchFaults, struck : Nat, moves : Nat,
                          kinds : SUBSET {"node", "remove", "app"}]

VARIABLES
    row,       \* row[s]: the status in the server's row
    node,      \* node[s]: its node in the cluster
    removal,   \* removal[s]: how far the provisioner's goroutine that removes it is
    app,       \* app[a]: the status in the app's row
    rollout,   \* rollout[a]: the instances its Deployment counts, and those that are ready
    wpass,     \* the watcher's pass
    told,      \* history: the last thing the team heard of a server
    wmoves, vmix

watchVars == <<row, node, removal, app, rollout, wpass, told, wmoves, vmix>>

NoPass == [at |-> "off", nodes |-> [s \in WServers |-> "none"], rows |-> [s \in WServers |-> "none"],
           servers |-> {}]

WatchInit ==
    /\ row = [s \in WServers |-> "ready"] /\ node = [s \in WServers |-> "ready"]
    /\ removal = [s \in WServers |-> "none"]
    /\ app = [a \in WApps |-> "running"]
    /\ rollout = [a \in WApps |-> [replicas |-> 1, ready |-> 1]]
    /\ wpass = NoPass
    /\ told = [s \in WServers |-> "nothing"]
    /\ wmoves = 0 /\ vmix \in WatchMixes

-----------------------------------------------------------------------------
(* What happens meanwhile.                                                 *)

Move(kind) == kind \in vmix.kinds /\ wmoves < vmix.moves /\ wmoves' = wmoves + 1

NodeChanges(s, state) ==
    /\ Move("node") /\ node[s] # "gone" /\ node[s] # state
    /\ node' = [node EXCEPT ![s] = state]
    /\ UNCHANGED <<row, removal, app, rollout, wpass, told, vmix>>

SetServerStatus(s, status) == row' = IF row[s] = "gone" THEN row ELSE [row EXCEPT ![s] = status]

\* The provisioner's goroutine writes its row once, takes the node away and deletes the
\* row; it goes on whatever is written into the row meanwhile.
RemoveBegins(s) ==
    /\ Move("remove") /\ row[s] # "gone" /\ removal[s] = "none"
    /\ removal' = [removal EXCEPT ![s] = "begun"]
    /\ SetServerStatus(s, "removing")
    /\ UNCHANGED <<node, app, rollout, wpass, told, vmix>>
RemoveGoesOn(s) ==
    /\ \/ /\ removal[s] = "begun" /\ removal' = [removal EXCEPT ![s] = "left"]
          /\ node' = [node EXCEPT ![s] = "gone"] /\ UNCHANGED row
       \/ /\ removal[s] = "left" /\ removal' = [removal EXCEPT ![s] = "none"]
          /\ row' = [row EXCEPT ![s] = "gone"] /\ UNCHANGED node
    /\ UNCHANGED <<app, rollout, wpass, told, wmoves, vmix>>
RemoveFails(s) ==
    /\ Move("remove") /\ removal[s] # "none"
    /\ removal' = [removal EXCEPT ![s] = "none"]
    /\ SetServerStatus(s, "failed")
    /\ UNCHANGED <<node, app, rollout, wpass, told, vmix>>

RolloutChanges(a, ready) ==
    /\ Move("app") /\ rollout[a].ready # ready
    /\ rollout' = [rollout EXCEPT ![a].ready = ready]
    /\ UNCHANGED <<row, node, removal, app, wpass, told, vmix>>

-----------------------------------------------------------------------------
(* A pass.                                                                 *)

Strikes(fault) == fault \in vmix.faults /\ vmix.struck > 0 /\ vmix' = [vmix EXCEPT !.struck = @ - 1]

\* When the nodes cannot be read, the servers are left for the next pass.
Summary ==
    /\ wpass.at = "off"
    /\ \/ wpass' = [wpass EXCEPT !.at = "rows", !.nodes = node] /\ UNCHANGED vmix
       \/ wpass' = [wpass EXCEPT !.at = "servers"] /\ Strikes("cluster")
    /\ UNCHANGED <<row, node, removal, app, rollout, told, wmoves>>

ListAllServers ==
    /\ wpass.at = "rows"
    /\ \/ /\ wpass' = [wpass EXCEPT !.at = "servers", !.rows = row,
                                    !.servers = {s \in WServers : row[s] # "gone"}]
          /\ UNCHANGED vmix
       \/ wpass' = [wpass EXCEPT !.at = "servers"] /\ Strikes("rows")
    /\ UNCHANGED <<row, node, removal, app, rollout, told, wmoves>>

\* A node that is there and not ready is no loss.
CheckServers_OnlyGone(s) ==
    /\ wpass.at = "servers" /\ s \in wpass.servers
    /\ wpass' = [wpass EXCEPT !.servers = @ \ {s}]
    /\ \/ /\ wpass.rows[s] = "ready" /\ wpass.nodes[s] = "gone"
          /\ SetServerStatus(s, "notReady") /\ told' = [told EXCEPT ![s] = "lost"]
       \/ wpass.nodes[s] # "gone" /\ UNCHANGED <<row, told>>
    /\ UNCHANGED <<node, removal, app, rollout, wmoves, vmix>>
\* A server is written and told of, and the team hears of it even when the write failed.
Marked(s, status, news) ==
    /\ \/ SetServerStatus(s, status) /\ UNCHANGED vmix
       \/ Strikes("store") /\ UNCHANGED row
    /\ told' = [told EXCEPT ![s] = news]
\* Only a row that was ready or notReady when it was read, whatever it says by now.
CheckServers(s) ==
    /\ wpass.at = "servers" /\ s \in wpass.servers
    /\ wpass' = [wpass EXCEPT !.servers = @ \ {s}]
    /\ \/ wpass.rows[s] = "notReady" /\ wpass.nodes[s] = "ready" /\ Marked(s, "ready", "back")
       \/ wpass.rows[s] = "ready" /\ wpass.nodes[s] # "ready" /\ Marked(s, "notReady", "lost")
       \/ /\ wpass.rows[s] \notin {"ready", "notReady"} \/ (wpass.rows[s] = "ready") = (wpass.nodes[s] = "ready")
          /\ UNCHANGED <<row, told, vmix>>
    /\ UNCHANGED <<node, removal, app, rollout, wmoves>>

\* The statement's columns are cut at every comma, one of them inside COALESCE(.., ''):
\* it is no SQL, and the database refuses it each time.
ListDeployedApps == [refused |-> TRUE, apps |-> {}]

\* A list that is refused is logged and no app is looked at, nor its certificate.  The
\* previews that follow are Environments' part of the pass.
CheckApps ==
    /\ wpass.at = "servers" /\ wpass.servers = {}
    /\ ListDeployedApps.refused
    /\ wpass' = NoPass
    /\ UNCHANGED <<row, node, removal, app, rollout, told, wmoves, vmix>>

\* Three quarters of the interval are over and every further call fails, or the pass panics.
PassTimesOut ==
    /\ wpass.at # "off" /\ Strikes("timeout")
    /\ wpass' = NoPass
    /\ UNCHANGED <<row, node, removal, app, rollout, told, wmoves>>

WatchStep == Summary \/ ListAllServers \/ CheckApps \/ \E s \in WServers : CheckServers(s)
WatchNext ==
    \/ WatchStep \/ PassTimesOut
    \/ \E s \in WServers : \/ RemoveBegins(s) \/ RemoveGoesOn(s) \/ RemoveFails(s)
                           \/ \E state \in {"ready", "notReady", "gone"} : NodeChanges(s, state)
    \/ \E a \in WApps, ready \in {0, 1} : RolloutChanges(a, ready)

-----------------------------------------------------------------------------
\* The row goes by the node; where every write was accepted the team last heard the same.
ServersAreKnown ==
    \A s \in WServers :
        /\ row[s] = "ready" => node[s] = "ready" /\ ("store" \notin vmix.faults => told[s] # "lost")
        /\ row[s] = "notReady" => node[s] # "ready" /\ ("store" \notin vmix.faults => told[s] = "lost")

\* "A node that stopped answering at three in the morning": whatever calls failed on the
\* way, and whatever the watcher wrote over a removal that began or failed under its pass,
\* a server the panel counts as ready or as lost is so in the end, and the team knows
\* (Watcher.Run, checkServers).
LossIsNoticed == []<>ServersAreKnown

\* "One still being added, or being removed, is somebody's deliberate act and its status
\* belongs to them": does not hold for a removal that begins after the list was read.
StatusIsTheirs ==
    [][\A s \in WServers : row[s] = "removing" => row'[s] \in {"removing", "failed", "gone"}]_watchVars

\* The team last heard what the row says: does not hold after a write that was refused,
\* because it is told all the same and what is already in the row is no news.
NewsMatchesRow ==
    []<>(\A s \in WServers : (row[s] = "ready" => told[s] # "lost") /\ (row[s] = "notReady" => told[s] = "lost"))

\* "checkApps notices an app whose instances have all gone, and an app whose
\* certificate will not issue."
Down(a) == rollout[a].replicas > 0 /\ rollout[a].ready = 0
LostAppIsNoticed ==
    \A a \in WApps : app[a] = "running" /\ Down(a) ~> app[a] # "running" \/ ~Down(a)
=============================================================================
