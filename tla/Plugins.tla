------------------------------ MODULE Plugins -------------------------------
(***************************************************************************)
(* Plugins: the manifest an owner agrees to (plugins/manifest.go), the     *)
(* install, update and removal of a plugin (api/plugin_handlers.go,        *)
(* cluster/pluginruntime.go, kube/pluginpod.go, store/plugins.go), and the *)
(* events it is sent and asked about (plugins/dispatch.go).  Requests of   *)
(* different kinds overlap; the cluster may refuse, and a plugin may       *)
(* answer late, badly or not at all.                                       *)
(***************************************************************************)
EXTENDS Naturals, Sequences, FiniteSets, SequencesExt

CONSTANTS
    PluginIds,   \* reverse-DNS names: the words and what stands between them
    LabelWords,  \* words that fit into a DNS label
    Manifests,   \* manifests that may be served for a plugin
    KeyOf,       \* names that may be written as a setting's key
    PTeams,      \* teams whose events plugins may hear of
    PluginMixes  \* what a behaviour meets

ASSUME PluginAssumption ==
    /\ \A m \in Manifests : m.id \in PluginIds /\ m.permissions \in Seq(STRING)
    /\ \A x \in PluginMixes : x.moves \in Nat /\ x.faults \in Nat /\ x.kinds \subseteq
           {"install", "remove", "settings", "switch", "ask", "tell", "manifest", "member", "overlap"}

VARIABLES
    served,   \* served[p]: the manifest at the plugin's address
    agreed,   \* agreed[p]: the permissions the owner saw: {} or one sequence
    plugin,   \* plugin[p]: its row: {} or one record
    kept,     \* kept[p]: the settings in its rows
    ptokens,  \* live API tokens of plugins
    stray,    \* history: tokens whose deletion the store refused
    space,    \* space[n]: a namespace of the cluster: {} or one record
    install, removal, update, \* requests on their way
    belongs,  \* teams the owner who installs is a member of
    asking,   \* an event on its way to the plugins
    pserial, pmix

pluginVars == <<served, agreed, plugin, kept, ptokens, stray, space, install, removal, update, belongs,
                asking, pserial, pmix>>

-----------------------------------------------------------------------------
(* The manifest.                                                           *)

PluginEvents == {"deploy.before", "deploy.succeeded", "app.created"}
BlockingEvents == {"deploy.before"}
Scopes == {"apps:read", "apps:write"}

\* A resource has to be named: "read" and "write" alone are refused.
ValidatePermissions(m) == \A x \in ToSet(m.permissions) : x \in Scopes
ValidateEvents(m) ==
    /\ \A e \in ToSet(m.events) : e.event \in PluginEvents /\ (e.blocking => e.event \in BlockingEvents)
    /\ Cardinality({e.event : e \in ToSet(m.events)}) = Len(m.events)
ValidateSettingList(list) ==
    \A s \in ToSet(list) : s.key \in KeyOf /\ Cardinality({i \in DOMAIN list : list[i].key = s.key}) = 1
ValidateProviders(m) ==
    /\ \A x \in ToSet(m.provides) : x.kind = "notify.channel" /\ ValidateSettingList(x.settings)
    /\ Cardinality({<<x.kind, x.id>> : x \in ToSet(m.provides)}) = Len(m.provides)

\* Complete: the version of the standard, the names, the licence and an image pinned by digest.
Validate(m) ==
    m.complete /\ ValidatePermissions(m) /\ ValidateEvents(m) /\ ValidateSettingList(m.settings) /\ ValidateProviders(m)

SamePermissions_CountOnly(seen, asked) == Len(seen) = Len(asked)
\* The same names as often, in any order.
SamePermissions(seen, asked) ==
    /\ Len(seen) = Len(asked)
    /\ \A x \in ToSet(seen) \cup ToSet(asked) :
        Cardinality({i \in DOMAIN seen : seen[i] = x}) = Cardinality({i \in DOMAIN asked : asked[i] = x})

\* Dots become hyphens; a name too long for a label is cut and given a hash of the id.
PluginNamespace(p) == [words |-> p.words, hash |-> IF Len(p.words) > LabelWords THEN p.marks ELSE <<>>]
Namespaces == {PluginNamespace(p) : p \in PluginIds}

-----------------------------------------------------------------------------
NoRequest == [at |-> "off"]
Quiet == install.at = "off" /\ removal.at = "off" /\ update.at = "off"
May(kind) == kind \in pmix.kinds /\ pmix.moves > 0 /\ pmix' = [pmix EXCEPT !.moves = @ - 1]
Begins(kind) == May(kind) /\ (Quiet \/ "overlap" \in pmix.kinds)
Refused == pmix.faults > 0 /\ pmix' = [pmix EXCEPT !.faults = @ - 1]

PluginInit ==
    /\ served \in [PluginIds -> Manifests] /\ \A p \in PluginIds : served[p].id = p
    /\ agreed = [p \in PluginIds |-> {}] /\ plugin = [p \in PluginIds |-> {}]
    /\ kept = [p \in PluginIds |-> <<>>]
    /\ ptokens = {} /\ stray = {} /\ space = [n \in Namespaces |-> {}]
    /\ install = NoRequest /\ removal = NoRequest /\ update = NoRequest /\ asking = NoRequest
    /\ belongs = PTeams /\ pserial = 0
    /\ pmix \in PluginMixes

\* Whoever publishes the plugin changes what its address serves.
ManifestChanges(p, m) ==
    /\ May("manifest") /\ m.id = p /\ served[p] # m
    /\ served' = [served EXCEPT ![p] = m]
    /\ UNCHANGED <<agreed, plugin, kept, ptokens, stray, space, install, removal, update, belongs, asking, pserial>>

\* The manifest is fetched and shown; what it asks for is what the owner agrees to.
InspectPlugin(p) ==
    /\ "install" \in pmix.kinds /\ Validate(served[p]) /\ agreed[p] # {served[p].permissions}
    /\ agreed' = [agreed EXCEPT ![p] = {served[p].permissions}]
    /\ UNCHANGED <<served, plugin, kept, ptokens, stray, space, install, removal, update, belongs, asking, pserial, pmix>>

-----------------------------------------------------------------------------
(* Install.                                                                *)

\* The manifest is fetched again and compared with what was agreed to; the token is made first.
CreateToken(p) ==
    /\ install.at = "off" /\ agreed[p] # {} /\ Begins("install")
    /\ Validate(served[p]) /\ \A seen \in agreed[p] : SamePermissions(seen, served[p].permissions)
    /\ plugin[p] = {}
    /\ LET token == [n |-> pserial + 1, scopes |-> served[p].permissions] IN
       /\ ptokens' = ptokens \cup {token} /\ pserial' = pserial + 1
       /\ install' = [at |-> "row", p |-> p, manifest |-> served[p], token |-> token, seen |-> agreed[p]]
    /\ UNCHANGED <<served, agreed, plugin, kept, stray, space, removal, update, belongs, asking>>

\* The refused install leaves its token behind.
CreatePlugin_KeepsToken ==
    /\ install.at = "row"
    /\ \/ /\ plugin[install.p] = {}
          /\ plugin' = [plugin EXCEPT ![install.p] =
                 {[manifest |-> install.manifest, status |-> "installing", enabled |-> TRUE, token |-> install.token]}]
          /\ install' = [install EXCEPT !.at = "objects"]
          /\ UNCHANGED <<ptokens, stray, pmix>>
       \/ /\ Refused
          /\ UNCHANGED <<ptokens, stray>>
          /\ install' = NoRequest /\ UNCHANGED plugin
    /\ UNCHANGED <<served, agreed, kept, space, removal, update, belongs, asking, pserial>>
\* A row the store refuses (one of the same id has been written, the disk is full) ends the
\* request, and its token with it, unless the store refuses that too: nobody looks.
CreatePlugin ==
    /\ install.at = "row"
    /\ \/ /\ plugin[install.p] = {}
          /\ plugin' = [plugin EXCEPT ![install.p] =
                 {[manifest |-> install.manifest, status |-> "installing", enabled |-> TRUE, token |-> install.token]}]
          /\ install' = [install EXCEPT !.at = "objects"]
          /\ UNCHANGED <<ptokens, stray, pmix>>
       \/ /\ Refused
          /\ \/ ptokens' = ptokens \ {install.token} /\ UNCHANGED stray
             \/ stray' = stray \cup {install.token} /\ UNCHANGED ptokens
          /\ install' = NoRequest /\ UNCHANGED plugin
    /\ UNCHANGED <<served, agreed, kept, space, removal, update, belongs, asking, pserial>>

PluginSecret(token, values) == [token |-> token, settings |-> values]

\* The namespace, one instance, its service and policies, and last the secret it starts from:
\* a pod of the same image that is there already keeps the environment it has.
BuildPluginObjects(p, image, secret, old) ==
    [owner |-> p, image |-> image, replicas |-> 1, secret |-> {secret},
     pod |-> UNION {s.pod : s \in {s \in old : s.image = image}}]

InstallObjects ==
    /\ install.at = "objects"
    /\ LET n == PluginNamespace(install.p)
           built == BuildPluginObjects(install.p, install.manifest.image,
                                       PluginSecret(install.token, kept[install.p]), space[n])
       IN  \/ /\ space' = [space EXCEPT ![n] = {built}]
              /\ install' = [install EXCEPT !.at = "wait"] /\ UNCHANGED pmix
           \/ \* refused half-way: everything but the secret may be there
              /\ Refused /\ install' = [install EXCEPT !.at = "failed"]
              /\ space' \in {space, [space EXCEPT ![n] = {[built EXCEPT !.secret = UNION {s.secret : s \in space[n]}]}]}
    /\ UNCHANGED <<served, agreed, plugin, kept, ptokens, stray, removal, update, belongs, asking, pserial>>

SetPluginStatus(p, status) ==
    plugin' = [plugin EXCEPT ![p] = {[r EXCEPT !.status = status] : r \in plugin[p]}]

\* Three minutes for the instance to be ready: a failure keeps the row and the token.  A status
\* the store refuses leaves the row as it was.
WaitForDeployment ==
    /\ \/ /\ install.at = "wait" /\ \E s \in space[PluginNamespace(install.p)] : s.pod # {}
          /\ \/ SetPluginStatus(install.p, "running") /\ UNCHANGED pmix
             \/ Refused /\ UNCHANGED plugin
       \/ /\ install.at = "wait" /\ Refused
          /\ SetPluginStatus(install.p, "failed")
       \/ /\ install.at = "failed"
          /\ \/ SetPluginStatus(install.p, "failed") /\ UNCHANGED pmix
             \/ Refused /\ UNCHANGED plugin
    /\ install' = NoRequest
    /\ UNCHANGED <<served, agreed, kept, ptokens, stray, space, removal, update, belongs, asking, pserial>>

\* An instance is started with the environment its secret has at that time, and stopped.
PodStarts(n) ==
    /\ \E s \in space[n] : /\ s.replicas = 1 /\ s.pod = {} /\ s.secret # {}
                           /\ space' = [space EXCEPT ![n] = {[s EXCEPT !.pod = s.secret]}]
    /\ UNCHANGED <<served, agreed, plugin, kept, ptokens, stray, install, removal, update, belongs, asking, pserial, pmix>>
PodStops(n) ==
    /\ \E s \in space[n] : /\ s.replicas = 0 /\ s.pod # {}
                           /\ space' = [space EXCEPT ![n] = {[s EXCEPT !.pod = {}]}]
    /\ UNCHANGED <<served, agreed, plugin, kept, ptokens, stray, install, removal, update, belongs, asking, pserial, pmix>>

-----------------------------------------------------------------------------
(* Removal: the token, the namespace, the row.                             *)

\* The row is read; it says which token is the plugin's.
UninstallPlugin(p) ==
    /\ removal.at = "off" /\ Begins("remove")
    /\ \E r \in plugin[p] : removal' = [at |-> "token", p |-> p, token |-> r.token]
    /\ UNCHANGED <<served, agreed, plugin, kept, ptokens, stray, space, install, update, belongs, asking, pserial>>

\* A token the store does not delete is logged, and the removal goes on.
RevokeToken ==
    /\ removal.at = "token"
    /\ removal' = [removal EXCEPT !.at = "namespace"]
    /\ \/ ptokens' = ptokens \ {removal.token} /\ UNCHANGED <<stray, pmix>>
       \/ Refused /\ stray' = stray \cup {removal.token} /\ UNCHANGED ptokens
    /\ UNCHANGED <<served, agreed, plugin, kept, space, install, update, belongs, asking, pserial>>

\* A namespace that cannot be removed is logged.
RemovePlugin ==
    /\ removal.at = "namespace"
    /\ removal' = [removal EXCEPT !.at = "row"]
    /\ \/ space' = [space EXCEPT ![PluginNamespace(removal.p)] = {}] /\ UNCHANGED pmix
       \/ Refused /\ UNCHANGED space
    /\ UNCHANGED <<served, agreed, plugin, kept, ptokens, stray, install, update, belongs, asking, pserial>>

\* The settings go with the row; a refused deletion ends the request, and the row stays.
DeletePlugin ==
    /\ removal.at = "row"
    /\ \/ /\ plugin' = [plugin EXCEPT ![removal.p] = {}] /\ kept' = [kept EXCEPT ![removal.p] = <<>>]
          /\ UNCHANGED pmix
       \/ Refused /\ UNCHANGED <<plugin, kept>>
    /\ removal' = NoRequest
    /\ UNCHANGED <<served, agreed, ptokens, stray, space, install, update, belongs, asking, pserial>>

-----------------------------------------------------------------------------
(* Update: the settings one by one, then the switch, then a restart.       *)

SaveSettings(p, values) ==
    /\ update.at = "off" /\ plugin[p] # {} /\ Begins("settings")
    /\ \E r \in plugin[p] :
        /\ DOMAIN values \subseteq {s.key : s \in ToSet(r.manifest.settings)}
        /\ update' = [at |-> "restart", p |-> p, enabled |-> r.enabled]
    /\ kept' = [kept EXCEPT ![p] = [k \in {k \in DOMAIN values \cup DOMAIN kept[p] :
                                           k \in DOMAIN values => values[k] # ""} |->
                                       IF k \in DOMAIN values THEN values[k] ELSE kept[p][k]]]
    /\ UNCHANGED <<served, agreed, plugin, ptokens, stray, space, install, removal, belongs, asking, pserial>>

\* The pod is replaced by one that reads the secret anew; a failure is logged.
RestartPlugin ==
    /\ update.at = "restart"
    /\ update' = NoRequest
    /\ LET n == PluginNamespace(update.p) IN
       \/ /\ update.enabled
          /\ space' = [space EXCEPT ![n] = {[s EXCEPT !.pod = {}] : s \in space[n]}] /\ UNCHANGED pmix
       \/ ~update.enabled /\ UNCHANGED <<space, pmix>>
       \/ Refused /\ UNCHANGED space
    /\ UNCHANGED <<served, agreed, plugin, kept, ptokens, stray, install, removal, belongs, asking, pserial>>

SetPluginEnabled(p) ==
    /\ update.at = "off" /\ plugin[p] # {} /\ Begins("switch")
    /\ \E r \in plugin[p] : /\ plugin' = [plugin EXCEPT ![p] = {[r EXCEPT !.enabled = ~@]}]
                            /\ update' = [at |-> "scale", p |-> p, enabled |-> ~r.enabled]
    /\ UNCHANGED <<served, agreed, kept, ptokens, stray, space, install, removal, belongs, asking, pserial>>

\* A Deployment that is not there is no error.
ScalePlugin ==
    /\ update.at = "scale"
    /\ update' = NoRequest
    /\ LET n == PluginNamespace(update.p) IN
       \/ /\ space' = [space EXCEPT ![n] = {[s EXCEPT !.replicas = IF update.enabled THEN 1 ELSE 0] : s \in space[n]}]
          /\ UNCHANGED pmix
       \/ Refused /\ UNCHANGED space
    /\ UNCHANGED <<served, agreed, plugin, kept, ptokens, stray, install, removal, belongs, asking, pserial>>

-----------------------------------------------------------------------------
(* Events.                                                                 *)

MembershipChanges(t) ==
    /\ May("member")
    /\ belongs' = IF t \in belongs THEN belongs \ {t} ELSE belongs \cup {t}
    /\ UNCHANGED <<served, agreed, plugin, kept, ptokens, stray, space, install, removal, update, asking, pserial>>

PluginMaySee(team) == team \in belongs

SubscriptionFor(m, event) == {e \in ToSet(m.events) : e.event = event}

\* The plugins switched on that subscribed and whose installer belongs to the team.  One whose
\* membership, manifest or signing secret cannot be read is left out.
PluginTargets(event, team, unread) ==
    {p \in PluginIds \ unread :
        \E r \in plugin[p] : r.enabled /\ PluginMaySee(team) /\ SubscriptionFor(r.manifest, event) # {}}
Blocks(p, event) == \E r \in plugin[p] : \E e \in SubscriptionFor(r.manifest, event) : e.blocking

\* An event is sent to those that can be read; no list at all is a list of nobody.
Sends(kind, unread) ==
    /\ kind \in pmix.kinds /\ pmix.moves > 0 /\ (unread = {} \/ pmix.faults > 0)
    /\ pmix' = [pmix EXCEPT !.moves = @ - 1, !.faults = IF unread = {} THEN @ ELSE @ - 1]
Blockers(team, unread) == {p \in PluginTargets("deploy.before", team, unread) : Blocks(p, "deploy.before")}

\* A deployment asks before anything reaches the cluster: whoever should be asked, without
\* those the panel could not read.
AskBegins(team) ==
    /\ asking.at = "off"
    /\ \E unread \in SUBSET PluginIds :
        /\ Sends("ask", unread)
        /\ asking' = [at |-> "ask", team |-> team, wanted |-> Blockers(team, {}), unread |-> unread,
                      left |-> Blockers(team, unread), said |-> <<>>, allow |-> TRUE]
    /\ UNCHANGED <<served, agreed, plugin, kept, ptokens, stray, space, install, removal, update, belongs, pserial>>

\* A body that says neither is a no; what cannot be read, comes late or does not come is not counted.
Answers == {"yes", "no", "silent object", "unreadable", "late", "down"}
CountedAsNo == {"no", "silent object"}

\* The last answer counts, and one that could not be read is a yes.
Ask_LastWins(p, answer) ==
    /\ asking.at = "ask" /\ p \in asking.left
    /\ asking' = [asking EXCEPT !.left = @ \ {p}, !.said = Append(@, [p |-> p, answer |-> answer]),
                                !.allow = answer \notin CountedAsNo]
    /\ UNCHANGED <<served, agreed, plugin, kept, ptokens, stray, space, install, removal, update, belongs, pserial, pmix>>
\* Each in turn, and the first refusal ends it.
Ask(p, answer) ==
    /\ asking.at = "ask" /\ asking.allow /\ p \in asking.left
    /\ asking' = [asking EXCEPT !.left = @ \ {p}, !.said = Append(@, [p |-> p, answer |-> answer]),
                                !.allow = answer \notin CountedAsNo]
    /\ UNCHANGED <<served, agreed, plugin, kept, ptokens, stray, space, install, removal, update, belongs, pserial, pmix>>

AskEnds ==
    /\ asking.at = "ask" /\ (asking.left = {} \/ ~asking.allow)
    /\ asking' = [asking EXCEPT !.at = "answered"]
    /\ UNCHANGED <<served, agreed, plugin, kept, ptokens, stray, space, install, removal, update, belongs, pserial, pmix>>

\* All at once, each with ten seconds, and the caller waits for them; blocking ones were asked.
Tell(event, team) ==
    /\ asking.at = "off"
    /\ \E unread \in SUBSET PluginIds :
        /\ Sends("tell", unread)
        /\ asking' = [at |-> "told", team |-> team, unread |-> unread, left |-> {}, allow |-> TRUE, said |-> <<>>,
                      wanted |-> {p \in PluginTargets(event, team, {}) : ~Blocks(p, event)}]
    /\ UNCHANGED <<served, agreed, plugin, kept, ptokens, stray, space, install, removal, update, belongs, pserial>>
EventEnds ==
    /\ asking.at \in {"answered", "told"} /\ asking' = NoRequest
    /\ UNCHANGED <<served, agreed, plugin, kept, ptokens, stray, space, install, removal, update, belongs, pserial, pmix>>

PluginNext ==
    \/ \E p \in PluginIds : \/ InspectPlugin(p) \/ CreateToken(p) \/ UninstallPlugin(p) \/ SetPluginEnabled(p)
                            \/ \E m \in Manifests : ManifestChanges(p, m)
                            \/ \E k \in KeyOf, v \in {"", "new"} : SaveSettings(p, [x \in {k} |-> v])
                            \/ \E answer \in Answers : Ask(p, answer)
    \/ CreatePlugin \/ InstallObjects \/ WaitForDeployment \/ RevokeToken \/ RemovePlugin \/ DeletePlugin \/ RestartPlugin \/ ScalePlugin
    \/ \E n \in Namespaces : PodStarts(n) \/ PodStops(n)
    \/ \E t \in PTeams : MembershipChanges(t) \/ AskBegins(t) \/ \E e \in PluginEvents : Tell(e, t)
    \/ AskEnds \/ EventEnds

PluginSpec == PluginInit /\ [][PluginNext]_pluginVars

-----------------------------------------------------------------------------
\* A plugin's token belongs to a plugin that is installed or being installed, and grants
\* what the owner saw and agreed to, whatever the manifest became since: except a token
\* whose deletion the store refused (handleInstallPlugin, handleUninstallPlugin).
TokensAreAccountedFor ==
    \A t \in ptokens \ stray :
        \/ install.at # "off" /\ install.token = t /\ \A seen \in install.seen : ToSet(seen) = ToSet(t.scopes)
        \/ \E p \in PluginIds : \E r \in plugin[p] : r.token = t /\ t.scopes = r.manifest.permissions

\* "A credential nobody can trace to anything is worse than a namespace left behind":
\* no live token without a plugin, which a refused deletion leaves.
NoStrayToken == \A t \in ptokens : install.at = "off" => \E p \in PluginIds : \E r \in plugin[p] : r.token = t

\* "All of them have to agree": a deployment that was let through was refused by no
\* plugin that answered, and every plugin of its team that blocks was asked unless the
\* panel could not read it; one that was stopped was stopped by one of those (Ask,
\* PluginTargets).
NoRefusalOverruled ==
    asking.at = "answered" =>
        IF asking.allow
          THEN /\ asking.wanted \subseteq {x.p : x \in ToSet(asking.said)} \cup asking.unread
               /\ \A x \in ToSet(asking.said) : x.answer \notin CountedAsNo
          ELSE \E x \in ToSet(asking.said) : x.p \in asking.wanted \ asking.unread /\ x.answer \in CountedAsNo

\* "Every plugin is asked": one the panel cannot read is not, and the deployment goes on.
EveryBlockerIsAsked ==
    asking.at = "answered" /\ asking.allow => asking.wanted \subseteq {x.p : x \in ToSet(asking.said)}

\* "New settings that do not restart the pod change nothing at all": once a plugin is
\* quiet again its process runs with the settings that were saved.
SettingsReachThePlugin ==
    \A p \in PluginIds : \A r \in plugin[p] :
        Quiet /\ r.enabled /\ r.status = "running" =>
            \A s \in space[PluginNamespace(p)] : \A e \in s.pod : e.settings = kept[p]

\* "Two ids that slugify the same must not land in one namespace."
NamespaceIsItsOwn ==
    \A p \in PluginIds : \A r \in plugin[p] : r.status = "running" /\ Quiet =>
        \A s \in space[PluginNamespace(p)] : s.owner = p
=============================================================================
