-------------------------------- MODULE Edge --------------------------------
(***************************************************************************)
(* The add-ons the panel puts into the cluster and keeps in step with its  *)
(* rows: how one is installed (cluster.InstallComponent), the firewall's   *)
(* rules on their way from a form to the guards that enforce them          *)
(* (cluster/edgeguard.go, api/firewall_handlers.go, guard.Reload), and the *)
(* tunnel's token on its way to the connectors (cluster/tunnel.go).        *)
(*                                                                         *)
(* Every request is taken apart where another one can come between: the    *)
(* row, the component's status, the rows read for the file, the file, the  *)
(* middlewares, the app.  "plain" stands for the add-ons that are a list   *)
(* of objects and a wait (registry, buildkit, KEDA, the operators).        *)
(***************************************************************************)
EXTENDS Integers, FiniteSets

CONSTANTS
    FApps,       \* the apps, each deployed
    EnvOf,       \* the namespace of each
    Hosts,       \* hostnames
    Owned,       \* the ones each app has to begin with
    FRules,      \* rule sets that passed validation
    Tokens,      \* tunnel tokens
    Guards,      \* the guard's instances
    FRequests,   \* requests under way at once
    SetLimit,    \* how many rule sets fit into one ConfigMap
    EdgeMixes    \* what happens: [kinds, moves, faults]

VARIABLES
    frow,        \* app_firewalls: a set of at most one row per app
    hosts,       \* domains: the hostnames of each app
    comp,        \* cluster_components: the status of each
    token,       \* the tunnel token in Settings, "" when cleared
    freq,        \* the requests, with what each has read for the file (config) and for the connectors
    installing,  \* who holds installMu: a set of at most one request
    cmap,        \* the guard's ConfigMap: a set of at most one configuration
    middle,      \* the namespaces with the guard's middleware
    missed,      \* the namespaces whose middleware the cluster refused, history
    ingress,     \* what each app's Ingress serves: [hosts, protected]
    connectors,  \* the token the connectors run with: a set of at most one
    plain,       \* the objects of the plain add-on are there
    guards,      \* [file, loaded], sets of at most one configuration
    inStep,      \* of "firewall", "tunnel" and the apps, those last changed by a request that ran alone to its end
    emix

rowVars == <<frow, hosts, comp, token>>
clusterVars == <<cmap, middle, missed, ingress, connectors, plain>>
edgeVars == <<rowVars, freq, installing, clusterVars, guards, inStep, emix>>

Comps == {"firewall", "tunnel", "plain"}

\* inStep names apps and add-ons.
ASSUME EdgeAssumption == Owned \in [FApps -> SUBSET Hosts] /\ FApps \cap Comps = {}

FReq(kind, at, name, app) ==
    [at |-> at, kind |-> kind, name |-> name, app |-> app, gone |-> FALSE, alone |-> FALSE, config |-> {}, token |-> ""]
NoFReq == FReq("none", "off", "none", "none")
Busy == {r \in FRequests : freq[r].at # "off"}
EMay(kind) == kind \in emix.kinds /\ emix.moves > 0 /\ emix' = [emix EXCEPT !.moves = @ - 1]
Fault == emix.faults > 0 /\ emix' = [emix EXCEPT !.faults = @ - 1]

\* A request begins; it and the ones under way are no longer alone.
FBegins(r, req) ==
    /\ freq[r].at = "off"
    /\ freq' = [q \in FRequests |-> IF q = r THEN [req EXCEPT !.alone = Busy = {}]
                                    ELSE IF q \in Busy THEN [freq[q] EXCEPT !.alone = FALSE] ELSE freq[q]]
FGoes(r, at) == freq' = [freq EXCEPT ![r].at = at]
FEnds(r) == freq' = [freq EXCEPT ![r] = NoFReq]

EdgeInit ==
    /\ frow = [a \in FApps |-> {}] /\ hosts = Owned
    /\ comp = [c \in Comps |-> "absent"] /\ token = ""
    /\ freq = [r \in FRequests |-> NoFReq] /\ installing = {}
    /\ cmap = {} /\ middle = {} /\ missed = {} /\ connectors = {} /\ plain = FALSE
    /\ ingress = [a \in FApps |-> [hosts |-> hosts[a], protected |-> FALSE]]
    /\ guards = [g \in Guards |-> [file |-> {}, loaded |-> {}]]
    /\ inStep = {} /\ emix \in EdgeMixes

-----------------------------------------------------------------------------
(* What the cluster should hold.                                           *)

Enabled(a) == \E row \in frow[a] : row.enabled
ProtectedHostnames ==
    UNION {{[host |-> h, app |-> a, rules |-> row.rules] :
               h \in hosts[a], row \in {x \in frow[a] : x.enabled}} : a \in FApps}
\* The file the guards read.
GuardConfig == [sets |-> ProtectedHostnames, cloudflare |-> comp["tunnel"] = "installed"]
ProtectedNamespaces == {EnvOf[a] : a \in {a \in FApps : Enabled(a)}}
\* The file, and with it the guard's Deployment, Service and account.
GuardObjects(config) == config
\* The Deployment carries the token's fingerprint, so connectors are replaced when it changes.
TunnelObjects(t) == {t}
\* Too large for one object is refused before anything is written.
RenderGuardRules(config) == Cardinality(config.sets) <= SetLimit

-----------------------------------------------------------------------------
(* Installing an add-on.                                                   *)

InstallBegins(r, c) ==
    /\ EMay("install")
    /\ FBegins(r, FReq("install", "lock", c, "none"))
    /\ inStep' = inStep \ {c}
    /\ UNCHANGED <<rowVars, installing, clusterVars, guards>>

\* One at a time; whoever waited finds it installed.
InstallComponent(r) ==
    /\ freq[r].at = "lock" /\ installing = {}
    /\ IF comp[freq[r].name] = "installed"
         THEN FEnds(r) /\ UNCHANGED <<comp, installing>>
         ELSE /\ comp' = [comp EXCEPT ![freq[r].name] = "installing"]
              /\ installing' = {r} /\ FGoes(r, "read")
    /\ UNCHANGED <<frow, hosts, token, clusterVars, guards, inStep, emix>>

\* What is to be applied is made from the rows as they are now; nothing to apply is a failure.
InstallReads(r) ==
    /\ freq[r].at = "read"
    /\ \/ /\ freq[r].name = "firewall" /\ RenderGuardRules(GuardConfig)
          /\ freq' = [freq EXCEPT ![r].at = "objects", ![r].config = {GuardConfig}]
       \/ /\ freq[r].name = "firewall" /\ ~RenderGuardRules(GuardConfig) /\ FGoes(r, "failed")
       \/ /\ freq[r].name = "tunnel" /\ token # ""
          /\ freq' = [freq EXCEPT ![r].at = "objects", ![r].token = token]
       \/ /\ freq[r].name = "tunnel" /\ token = "" /\ FGoes(r, "failed")
       \/ freq[r].name = "plain" /\ FGoes(r, "objects")
    /\ UNCHANGED <<rowVars, installing, clusterVars, guards, inStep, emix>>

InstallApplies(r) ==
    /\ freq[r].at = "objects"
    /\ \/ /\ FGoes(r, "wait") /\ UNCHANGED emix
          /\ cmap' = IF freq[r].name = "firewall" THEN GuardObjects(freq[r].config) ELSE cmap
          /\ connectors' = IF freq[r].name = "tunnel" THEN TunnelObjects(freq[r].token) ELSE connectors
          /\ plain' = (plain \/ freq[r].name = "plain")
       \/ Fault /\ FGoes(r, "failed") /\ UNCHANGED <<cmap, connectors, plain>>
    /\ UNCHANGED <<rowVars, installing, middle, missed, ingress, guards, inStep>>

\* Until it is ready, or not: an instance of the guard that has no rules is not.
WaitForAddOn(r) ==
    /\ freq[r].at = "wait"
    /\ \/ /\ freq[r].name = "firewall" => \E g \in Guards : guards[g].loaded # {}
          /\ FGoes(r, IF freq[r].name = "firewall" THEN "middlewares" ELSE "record") /\ UNCHANGED emix
       \/ Fault /\ FGoes(r, "failed")
    /\ UNCHANGED <<rowVars, installing, clusterVars, guards, inStep>>

\* The status is written before it is known how it went.
RecordInstall_Always(r) ==
    /\ freq[r].at \in {"record", "failed"}
    /\ comp' = IF freq[r].gone THEN comp ELSE [comp EXCEPT ![freq[r].name] = "installed"]
    /\ inStep' = IF freq[r].at = "record" /\ freq[r].alone THEN inStep \cup ({freq[r].name} \ {"plain"}) ELSE inStep
    /\ installing' = {} /\ FEnds(r)
    /\ UNCHANGED <<frow, hosts, token, clusterVars, guards, emix>>
\* The status is written with the request's context: once the browser is gone it stays as it was.
RecordInstall(r) ==
    /\ freq[r].at \in {"record", "failed"}
    /\ comp' = IF freq[r].gone THEN comp
               ELSE [comp EXCEPT ![freq[r].name] = IF freq[r].at = "record" THEN "installed" ELSE "failed"]
    /\ inStep' = IF freq[r].at = "record" /\ freq[r].alone THEN inStep \cup ({freq[r].name} \ {"plain"}) ELSE inStep
    /\ installing' = {} /\ FEnds(r)
    /\ UNCHANGED <<frow, hosts, token, clusterVars, guards, emix>>

BrowserGoes(r) ==
    /\ EMay("gone") /\ freq[r].at # "off" /\ freq[r].kind = "install" /\ ~freq[r].gone
    /\ freq' = [freq EXCEPT ![r].gone = TRUE]
    /\ UNCHANGED <<rowVars, installing, clusterVars, guards, inStep>>

-----------------------------------------------------------------------------
(* Saving an app's rules.                                                  *)

\* The row first.
SetAppFirewall(r, a, enabled, rules) ==
    /\ EMay("rules")
    /\ FBegins(r, FReq("rules", "status", "none", a))
    /\ frow' = [frow EXCEPT ![a] = {[enabled |-> enabled, rules |-> rules]}]
    /\ inStep' = inStep \ {"firewall", a}
    /\ UNCHANGED <<hosts, comp, token, installing, clusterVars, guards>>

\* Nothing is written to the cluster unless the component is installed.
RefreshFirewall(r) ==
    /\ freq[r].at = "status"
    /\ IF comp["firewall"] # "installed" THEN FGoes(r, "sync")
       ELSE IF RenderGuardRules(GuardConfig)
       THEN freq' = [freq EXCEPT ![r].at = "file", ![r].config = {GuardConfig}]
       ELSE FEnds(r)                                 \* refused, and the row stays
    /\ UNCHANGED <<rowVars, installing, clusterVars, guards, inStep, emix>>

\* A file that cannot be written ends the request before the app is touched.
ApplyGuardConfigMap(r) ==
    /\ freq[r].at = "file"
    /\ \/ cmap' = freq[r].config /\ FGoes(r, "middlewares") /\ UNCHANGED emix
       \/ Fault /\ FEnds(r) /\ UNCHANGED cmap
    /\ UNCHANGED <<rowVars, installing, middle, missed, ingress, connectors, plain, guards, inStep>>

\* One per namespace with a protected app.  What the cluster refuses is logged and the request
\* goes on; only a list of namespaces that cannot be read ends it.
EnsureGuardMiddlewares(r) ==
    /\ freq[r].at = "middlewares"
    /\ \/ /\ \E refused \in SUBSET ProtectedNamespaces :
               /\ middle' = middle \cup (ProtectedNamespaces \ refused)
               /\ missed' = missed \cup refused
               /\ IF refused = {} THEN UNCHANGED emix ELSE Fault
          /\ FGoes(r, IF freq[r].kind = "install" THEN "record" ELSE "sync")
       \/ /\ Fault /\ UNCHANGED <<middle, missed>>
          /\ IF freq[r].kind = "install" THEN FGoes(r, "failed") ELSE FEnds(r)
    /\ UNCHANGED <<rowVars, installing, cmap, ingress, connectors, plain, guards, inStep>>

\* The app as its rows are now, with the middleware if its firewall is on; a failure is logged.
Sync_KeepsMiddleware(r) ==
    /\ freq[r].at = "sync"
    /\ ingress' = [ingress EXCEPT ![freq[r].app].hosts = hosts[freq[r].app]]
    /\ inStep' = IF ~freq[r].alone THEN inStep
                      ELSE inStep \cup {freq[r].app} \cup {x \in {"firewall"} : freq[r].kind = "rules"}
    /\ UNCHANGED emix /\ FEnds(r)
    /\ UNCHANGED <<rowVars, installing, cmap, middle, missed, connectors, plain, guards>>
Sync(r) ==
    /\ freq[r].at = "sync"
    /\ \/ /\ ingress' = [ingress EXCEPT ![freq[r].app] =
                            [hosts |-> hosts[freq[r].app], protected |-> Enabled(freq[r].app)]]
          /\ inStep' = IF ~freq[r].alone THEN inStep
                      ELSE inStep \cup {freq[r].app} \cup {x \in {"firewall"} : freq[r].kind = "rules"}
          /\ UNCHANGED emix
       \/ Fault /\ UNCHANGED <<ingress, inStep>>
    /\ FEnds(r)
    /\ UNCHANGED <<rowVars, installing, cmap, middle, missed, connectors, plain, guards>>

\* A domain comes or goes: its row, then the app.
SetDomain(r, a, h) ==
    /\ EMay("domain") /\ \A b \in FApps \ {a} : h \notin hosts[b]
    /\ FBegins(r, FReq("domain", "sync", "none", a))
    /\ hosts' = [hosts EXCEPT ![a] = IF h \in @ THEN @ \ {h} ELSE @ \cup {h}]
    /\ inStep' = inStep \ {"firewall", a}
    /\ UNCHANGED <<frow, comp, token, installing, clusterVars, guards>>

-----------------------------------------------------------------------------
(* The tunnel's token.                                                     *)

SaveToken(r, t) ==
    /\ EMay("token") /\ t # token
    /\ FBegins(r, FReq("token", "tunnel", "none", "none"))
    /\ token' = t
    /\ inStep' = inStep \ {"tunnel"}
    /\ UNCHANGED <<frow, hosts, comp, installing, clusterVars, guards>>

\* The tunnel's status, then the token as it is now.
RefreshCloudflareTunnel(r) ==
    /\ freq[r].at = "tunnel"
    /\ IF comp["tunnel"] # "installed" THEN FEnds(r)
       ELSE freq' = [freq EXCEPT ![r].at = "connectors", ![r].token = token]
    /\ UNCHANGED <<rowVars, installing, clusterVars, guards, inStep, emix>>

\* The connectors stay when the token goes.
ApplyTunnel_Stays(r) ==
    /\ freq[r].at = "connectors"
    /\ \/ /\ freq[r].token # "" /\ connectors' = TunnelObjects(freq[r].token) /\ FEnds(r)
          /\ inStep' = IF freq[r].alone THEN inStep \cup {"tunnel"} ELSE inStep
          /\ UNCHANGED emix
       \/ /\ freq[r].token = "" /\ FGoes(r, "removed") /\ UNCHANGED <<connectors, inStep, emix>>
    /\ UNCHANGED <<rowVars, installing, cmap, middle, missed, ingress, plain, guards>>
\* A token is applied; without one the connectors and their secret are removed, then it is recorded.
ApplyTunnel(r) ==
    /\ freq[r].at = "connectors"
    /\ \/ /\ freq[r].token # "" /\ connectors' = TunnelObjects(freq[r].token) /\ FEnds(r)
          /\ inStep' = IF freq[r].alone THEN inStep \cup {"tunnel"} ELSE inStep
          /\ UNCHANGED emix
       \/ /\ freq[r].token = "" /\ connectors' = {} /\ FGoes(r, "removed") /\ UNCHANGED <<inStep, emix>>
       \/ Fault /\ FEnds(r) /\ UNCHANGED <<connectors, inStep>>
    /\ UNCHANGED <<rowVars, installing, cmap, middle, missed, ingress, plain, guards>>
RecordRemoved(r) ==
    /\ freq[r].at = "removed"
    /\ comp' = [comp EXCEPT !["tunnel"] = "removed"] /\ FEnds(r)
    /\ inStep' = (IF freq[r].alone THEN inStep \cup {"tunnel"} ELSE inStep)
    /\ UNCHANGED <<frow, hosts, token, installing, clusterVars, guards, emix>>

-----------------------------------------------------------------------------
(* The guards, and the panel's end.                                        *)

\* The kubelet brings the file up to the ConfigMap; a guard started anew has what is there.
FileArrives(g) ==
    /\ guards[g].file # cmap
    /\ guards' = [guards EXCEPT ![g].file = cmap]
    /\ UNCHANGED <<rowVars, freq, installing, clusterVars, inStep, emix>>
\* Every five seconds, if the file is a newer one.
Reload_Once(g) ==
    /\ guards[g].file # {} /\ guards[g].loaded = {}
    /\ guards' = [guards EXCEPT ![g].loaded = guards[g].file]
    /\ UNCHANGED <<rowVars, freq, installing, clusterVars, inStep, emix>>
Reload(g) ==
    /\ guards[g].file # {} /\ guards[g].loaded # guards[g].file
    /\ guards' = [guards EXCEPT ![g].loaded = guards[g].file]
    /\ UNCHANGED <<rowVars, freq, installing, clusterVars, inStep, emix>>
GuardRestarts(g) ==
    /\ EMay("guard") /\ guards[g].loaded # {}
    /\ guards' = [guards EXCEPT ![g].loaded = {}]
    /\ UNCHANGED <<rowVars, freq, installing, clusterVars, inStep>>

PanelRestarts ==
    /\ EMay("crash") /\ Busy # {}
    /\ freq' = [r \in FRequests |-> NoFReq] /\ installing' = {}
    /\ UNCHANGED <<rowVars, clusterVars, guards, inStep>>

RequestStep(r) ==
    \/ InstallComponent(r) \/ InstallReads(r) \/ InstallApplies(r) \/ WaitForAddOn(r) \/ RecordInstall(r)
    \/ RefreshFirewall(r) \/ ApplyGuardConfigMap(r) \/ EnsureGuardMiddlewares(r) \/ Sync(r)
    \/ RefreshCloudflareTunnel(r) \/ ApplyTunnel(r) \/ RecordRemoved(r)
GuardStep == \E g \in Guards : FileArrives(g) \/ Reload(g)
EdgeNext ==
    \/ \E r \in FRequests : \/ RequestStep(r) \/ BrowserGoes(r)
                            \/ \E c \in Comps : InstallBegins(r, c)
                            \/ \E a \in FApps : \/ \E on \in BOOLEAN, x \in FRules : SetAppFirewall(r, a, on, x)
                                                \/ \E h \in Hosts : SetDomain(r, a, h)
                            \/ \E t \in Tokens \cup {""} : SaveToken(r, t)
    \/ GuardStep \/ \E g \in Guards : GuardRestarts(g)
    \/ PanelRestarts

EdgeSpec == EdgeInit /\ [][EdgeNext]_edgeVars

-----------------------------------------------------------------------------
(* Properties.                                                             *)

\* When a request that ran alone was the last to touch it, the cluster holds what the rows say:
\* with the firewall installed, the rule sets in the file are the ones the rows give (RefreshFirewall)
\* and every protected app's namespace has the middleware, unless the cluster refused that one, which
\* ends no request (ensureGuardMiddlewares); an app's Ingress serves its hosts and names the middleware when
\* its firewall is on (Sync); with the tunnel installed the connectors run on the token of
\* Settings, and once it is removed there are none.
InStepWithTheRows ==
    /\ "firewall" \in inStep /\ Busy = {} /\ comp["firewall"] = "installed" =>
         /\ \A c \in cmap : c.sets = GuardConfig.sets
         /\ ProtectedNamespaces \subseteq middle \cup missed
    /\ \A a \in FApps \cap inStep : Busy = {} => ingress[a] = [hosts |-> hosts[a], protected |-> Enabled(a)]
    /\ "tunnel" \in inStep /\ Busy = {} =>
         /\ comp["tunnel"] = "installed" => connectors = {token} /\ token # ""
         /\ comp["tunnel"] = "removed" => connectors = {}

\* What is recorded as installed is there, however installs, removals, abandoned requests and
\* restarts come together (InstallComponent, removeCloudflareTunnel); only a tunnel whose token was
\* cleared may be recorded after its connectors are gone.
InstalledIsThere ==
    Busy = {} => /\ comp["firewall"] = "installed" => cmap # {}
                 /\ comp["tunnel"] = "installed" => connectors # {} \/ token = ""
                 /\ comp["plain"] = "installed" => plain

\* Every instance of the guard ends up judging by the file that was written last, restarts of its
\* own included (guard.Reload, the kubelet's sync).
GuardsCatchUp == <>[](\A g \in Guards : guards[g].loaded = cmap)

\* "puts a forwardAuth middleware in every namespace that holds a protected app": after a request that
\* ran alone to its end, and said so (ensureGuardMiddlewares).
EveryNamespaceIsGuarded ==
    "firewall" \in inStep /\ Busy = {} /\ comp["firewall"] = "installed" => ProtectedNamespaces \subseteq middle

\* "may only be believed when the tunnel is actually in front": what the file says of the tunnel
\* is what is recorded of it (guardConfig), after requests that ran alone.
FileFollowsTheTunnel ==
    {"firewall", "tunnel"} \subseteq inStep /\ Busy = {} /\ comp["firewall"] = "installed" =>
        \A c \in cmap : c.cloudflare = (comp["tunnel"] = "installed")

\* "Called whenever a rule set changes or a domain moves": once everything has come to rest, each
\* hostname of a protected app has its rules in the guards' file.
DomainsAreGuarded ==
    Busy = {} /\ comp["firewall"] = "installed" =>
        \A a \in FApps : \A row \in {x \in frow[a] : x.enabled}, h \in hosts[a] :
            \E c \in cmap : [host |-> h, app |-> a, rules |-> row.rules] \in c.sets
=============================================================================
