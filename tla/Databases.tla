----------------------------- MODULE Databases ------------------------------
(***************************************************************************)
(* Managed databases of one environment (dbsvc/manager.go,                 *)
(* api/data_handlers.go, store/data.go): a row, a goroutine that creates   *)
(* it in the cluster, and links that put its connection string into an     *)
(* app's variables.  Apps and databases share a namespace: each has a      *)
(* Service under its slug, and what was applied last has the name.         *)
(***************************************************************************)
EXTENDS Naturals, Sequences, FiniteSets

CONSTANTS
    DbIds,     \* databases; an id is used once
    DbApps,    \* apps of the environment
    Slugs,     \* names
    VarNames,  \* variables a connection string may be put in
    DbCallers, \* requests that may be in progress at once
    DbMixes    \* what a behaviour meets

DbKinds == {"createDb", "createApp", "template", "deploy", "link", "unlink", "get",
            "deleteDb", "deleteApp"}

ASSUME DbMixesAssumption ==
    DbMixes \subseteq [kinds : SUBSET DbKinds, faults : SUBSET {"cluster", "cut", "limit", "restart", "rows"},
                       overlap : BOOLEAN, early : BOOLEAN, asks : Nat, engine : {"postgres", "redis", "mysql"}]
ASSUME DbNamesAssumption == "nobody" \notin DbIds \cup DbApps \cup Slugs /\ DbIds \cap DbApps = {}

VARIABLES
    appRow,   \* appRow[a]: its slug, and whether it has been deployed
    dbRow,    \* dbRow[d]: the databases row
    links,    \* the database_links rows: one per database and app
    urlIn,    \* urlIn[a][v]: whose connection string the variable holds
    injected, \* injected[a][v]: the same, in the cluster
    service,  \* service[s]: who has the Service of that name
    object,   \* object[s]: the StatefulSet or the CloudNativePG cluster of that name
    worker,   \* worker[d]: where provision is
    dbCall,   \* dbCall[q]: a request in progress
    leftover, \* history: the variables nobody cleared: a link got another name, or a statement was refused
    dbAsked, dbmix

dbVars == <<appRow, dbRow, links, urlIn, injected, service, object, worker, dbCall, leftover, dbAsked, dbmix>>

Nobody == "nobody"
NoAppRow == [slug |-> Nobody, deployed |-> FALSE]
NoDatabase == [slug |-> Nobody, status |-> "never", sealed |-> FALSE]
DbCallOf(kind, at, d, a, s, v) == [kind |-> kind, at |-> at, d |-> d, a |-> a, s |-> s, v |-> v, left |-> {}]
NoDbCall == DbCallOf(Nobody, "off", Nobody, Nobody, Nobody, Nobody)
NoUrls == [v \in VarNames |-> Nobody]

HasRow(d) == dbRow[d].status \notin {"never", "gone"}
HasApp(a) == appRow[a].slug # Nobody
DbQuiet == \A q \in DbCallers : dbCall[q].at = "off"

\* SlugOwnerInEnvironment asks both tables.
SlugOwner_SameKind(s) ==  \* mutant: only the apps are asked
    {a \in DbApps : appRow[a].slug = s}
SlugOwner(s) == {a \in DbApps : appRow[a].slug = s} \cup {d \in DbIds : HasRow(d) /\ dbRow[d].slug = s}

DbEnds(q) == dbCall' = [dbCall EXCEPT ![q] = NoDbCall]
DbGo(q, where) == dbCall' = [dbCall EXCEPT ![q].at = where]
DbAt(q, kinds, where) == dbCall[q].kind \in kinds /\ dbCall[q].at = where

DbInit ==
    /\ dbmix \in DbMixes
    /\ appRow = [a \in DbApps |-> NoAppRow] /\ dbRow = [d \in DbIds |-> NoDatabase]
    /\ links = {} /\ urlIn = [a \in DbApps |-> NoUrls] /\ injected = [a \in DbApps |-> NoUrls]
    /\ service = [s \in Slugs |-> Nobody] /\ object = [s \in Slugs |-> Nobody]
    /\ worker = [d \in DbIds |-> "off"]
    /\ dbCall = [q \in DbCallers |-> NoDbCall] /\ leftover = {} /\ dbAsked = 0

\* What a request is about exists when it is authorized.
DbAuthorized(c) ==
    CASE c.kind = "createDb" -> dbRow[c.d].status = "never"
      [] c.kind \in {"createApp", "template"} -> ~HasApp(c.a)
      [] c.kind \in {"deploy", "deleteApp"} -> HasApp(c.a)
      [] c.kind \in {"link", "unlink"} -> HasApp(c.a) /\ HasRow(c.d)
      [] c.kind = "get" -> HasRow(c.d)
      [] c.kind = "deleteDb" -> HasRow(c.d) /\ (dbmix.early \/ worker[c.d] = "off")
DbBegin(q, c) ==
    /\ dbCall[q].at = "off" /\ c.kind \in dbmix.kinds /\ dbAsked < dbmix.asks
    /\ ~dbmix.overlap => DbQuiet
    /\ DbAuthorized(c)
    /\ dbCall' = [dbCall EXCEPT ![q] = c] /\ dbAsked' = dbAsked + 1
    /\ UNCHANGED <<appRow, dbRow, links, urlIn, injected, service, object, worker, leftover, dbmix>>

\* The requests people make, as they are after decoding: each handler's first step and arguments.
HandleCreateDatabase == {DbCallOf("createDb", "check", d, Nobody, s, Nobody) : d \in DbIds, s \in Slugs}
HandleLinkDatabase == {DbCallOf("link", "variable", d, a, Nobody, v) : d \in DbIds, a \in DbApps, v \in VarNames}
HandleUnlinkDatabase == {DbCallOf("unlink", "variable", d, a, Nobody, Nobody) : d \in DbIds, a \in DbApps}
HandleGetDatabase == {DbCallOf("get", "read", d, Nobody, Nobody, Nobody) : d \in DbIds}
HandleDeleteDatabase == {DbCallOf("deleteDb", "links", d, Nobody, Nobody, Nobody) : d \in DbIds}
OfAnApp == {DbCallOf(k, "objects", Nobody, a, Nobody, Nobody) : k \in {"deploy", "deleteApp"}, a \in DbApps}
NewApps == {DbCallOf(k, IF k = "template" THEN "row" ELSE "check", Nobody, a, s, Nobody) :
               k \in {"createApp", "template"}, a \in DbApps, s \in Slugs}
DbCalls == HandleCreateDatabase \cup HandleLinkDatabase \cup HandleUnlinkDatabase \cup HandleGetDatabase
           \cup HandleDeleteDatabase \cup OfAnApp \cup NewApps

-----------------------------------------------------------------------------
(* Names.  Asked first, taken later; each table is unique by itself.       *)

CheckSlug(q) ==
    /\ DbAt(q, {"createDb", "createApp"}, "check")
    /\ IF SlugOwner(dbCall[q].s) = {} THEN DbGo(q, "row") ELSE DbEnds(q)
    /\ UNCHANGED <<appRow, dbRow, links, urlIn, injected, service, object, worker, leftover, dbAsked, dbmix>>

\* CreateApp, from handleCreateApp and, without asking, from installTemplate.
CreateAppRow(q) ==
    LET s == dbCall[q].s
    IN  /\ DbAt(q, {"createApp", "template"}, "row")
        /\ appRow' = IF \E b \in DbApps : appRow[b].slug = s THEN appRow
                     ELSE [appRow EXCEPT ![dbCall[q].a].slug = s]
        /\ DbEnds(q)
        /\ UNCHANGED <<dbRow, links, urlIn, injected, service, object, worker, leftover, dbAsked, dbmix>>

CreateDatabase(q) ==
    LET s == dbCall[q].s
    IN  /\ DbAt(q, {"createDb"}, "row")
        /\ IF \E d \in DbIds : HasRow(d) /\ dbRow[d].slug = s THEN DbEnds(q) /\ UNCHANGED dbRow
           ELSE /\ dbRow' = [dbRow EXCEPT ![dbCall[q].d] =
                                [slug |-> s, status |-> "creating", sealed |-> FALSE]]
                /\ DbGo(q, "seal")
        /\ UNCHANGED <<appRow, links, urlIn, injected, service, object, worker, leftover, dbAsked, dbmix>>

\* The credentials, sealed for the row's id, and the goroutine.
SealAndProvision(q) ==
    /\ DbAt(q, {"createDb"}, "seal")
    /\ dbRow' = [dbRow EXCEPT ![dbCall[q].d].sealed = TRUE]
    /\ worker' = [worker EXCEPT ![dbCall[q].d] = IF dbmix.engine = "postgres" THEN "component" ELSE "apply"]
    /\ DbEnds(q)
    /\ UNCHANGED <<appRow, links, urlIn, injected, service, object, leftover, dbAsked, dbmix>>

\* The browser goes away: the request's context ends between two statements.
RequestCut(q) ==
    /\ "cut" \in dbmix.faults /\ dbCall[q].at # "off"
    /\ DbEnds(q)
    /\ UNCHANGED <<appRow, dbRow, links, urlIn, injected, service, object, worker, leftover, dbAsked, dbmix>>

-----------------------------------------------------------------------------
(* provision.  A status is written to whatever row there still is.         *)
SetDatabaseStatus(d, status) == dbRow' = IF HasRow(d) THEN [dbRow EXCEPT ![d].status = status] ELSE dbRow
WorkerTo(d, where) == worker' = [worker EXCEPT ![d] = where]

\* fail writes through the goroutine's own context: past the limit nothing is written.
Fail(d) == \/ SetDatabaseStatus(d, "failed")
           \/ "limit" \in dbmix.faults /\ UNCHANGED dbRow

EnsureComponent(d) ==
    /\ worker[d] = "component"
    /\ \/ WorkerTo(d, "apply") /\ UNCHANGED dbRow
       \/ "cluster" \in dbmix.faults /\ WorkerTo(d, "off") /\ Fail(d)
    /\ UNCHANGED <<appRow, links, urlIn, injected, service, object, dbCall, leftover, dbAsked, dbmix>>

\* What an engine has in the cluster, in the order it is applied; the operator makes the rest.
BuildPostgres == <<"secret", "cluster">>
BuildRedis == <<"secret", "statefulset", "service">>
BuildMySQL == <<"secret", "statefulset", "service">>
Objects == CASE dbmix.engine = "postgres" -> BuildPostgres
             [] dbmix.engine = "redis" -> BuildRedis
             [] dbmix.engine = "mysql" -> BuildMySQL
HasService == "service" \in {Objects[i] : i \in 1..Len(Objects)}

\* ApplyAll: the first n of them, by name.
ApplyDatabase(d, n) ==
    LET s == dbRow[d].slug
        done == {Objects[i] : i \in 1..n}
    IN  /\ worker[d] = "apply"
        /\ object' = IF done \cap {"cluster", "statefulset"} # {} THEN [object EXCEPT ![s] = d] ELSE object
        /\ service' = IF "service" \in done THEN [service EXCEPT ![s] = d] ELSE service
        /\ \/ n = Len(Objects) /\ WorkerTo(d, "starting") /\ UNCHANGED dbRow
           \/ n < Len(Objects) /\ "cluster" \in dbmix.faults /\ WorkerTo(d, "off") /\ Fail(d)
        /\ UNCHANGED <<appRow, links, urlIn, injected, dbCall, leftover, dbAsked, dbmix>>

MarkStarting(d) ==
    /\ worker[d] = "starting"
    /\ SetDatabaseStatus(d, "starting") /\ WorkerTo(d, "wait")
    /\ UNCHANGED <<appRow, links, urlIn, injected, service, object, dbCall, leftover, dbAsked, dbmix>>

\* waitReady: ready, failed, or not ready in time.
WaitReady(d) ==
    /\ worker[d] = "wait"
    /\ \/ SetDatabaseStatus(d, "running")
       \/ "cluster" \in dbmix.faults /\ Fail(d)
    /\ WorkerTo(d, "off")
    /\ UNCHANGED <<appRow, links, urlIn, injected, service, object, dbCall, leftover, dbAsked, dbmix>>

\* What the cluster reports: instances wanted and ready, and CloudNativePG's phase.
Observed == [wanted : {1, 3}, ready : {0, 1, 3}, failing : BOOLEAN]
InterpretCNPGStatus(o) ==
    CASE o.ready > 0 /\ o.ready < o.wanted -> "degraded"
      [] o.ready > 0 /\ o.ready >= o.wanted -> "running"
      [] o.ready = 0 /\ o.failing -> "failed"
      [] OTHER -> "starting"
StatefulSetStatus(o) ==
    IF o.ready >= o.wanted THEN "running" ELSE IF o.ready > 0 THEN "degraded" ELSE "starting"
PostgresStatus(d) ==
    IF object[dbRow[d].slug] = Nobody THEN {"missing"}
    ELSE {InterpretCNPGStatus(o) : o \in {x \in Observed : x.failing => "cluster" \in dbmix.faults}}
ReadStatus(d) ==
    (IF "cluster" \in dbmix.faults THEN {"unknown"} ELSE {}) \cup
    CASE dbmix.engine = "postgres" -> PostgresStatus(d)
      [] OTHER -> IF object[dbRow[d].slug] = Nobody THEN {"missing"}
                  ELSE {StatefulSetStatus(o) : o \in {x \in Observed : x.wanted = 1}}

\* handleGetDatabase writes down what it sees.
GetDatabase(q) ==
    LET d == dbCall[q].d
    IN  /\ DbAt(q, {"get"}, "read")
        /\ IF HasRow(d) THEN \E status \in ReadStatus(d) : SetDatabaseStatus(d, status)
           ELSE UNCHANGED dbRow
        /\ DbEnds(q)
        /\ UNCHANGED <<appRow, links, urlIn, injected, service, object, worker, leftover, dbAsked, dbmix>>

\* A restart ends every goroutine and request; markInterruptedWork says what they left.
MarkInterrupted_Starting(d) ==  \* mutant: one that had not been applied yet is forgotten
    dbRow[d].status = "starting"
MarkInterrupted(d) == dbRow[d].status \in {"creating", "starting"}
Restart ==
    /\ "restart" \in dbmix.faults
    /\ \E d \in DbIds : worker[d] # "off"
    /\ worker' = [d \in DbIds |-> "off"]
    /\ dbCall' = [q \in DbCallers |-> NoDbCall]
    /\ dbRow' = [d \in DbIds |-> IF MarkInterrupted(d) THEN [dbRow[d] EXCEPT !.status = "failed"] ELSE dbRow[d]]
    /\ UNCHANGED <<appRow, links, urlIn, injected, service, object, leftover, dbAsked, dbmix>>

-----------------------------------------------------------------------------
(* An app's Sync, as far as it concerns databases (module Apps): its       *)
(* Service is applied by name and its variables are put into its Secret,   *)
(* where a name it no longer has stays (Manifests!PatchSecret).            *)
Patched(a, urls) == [v \in VarNames |-> IF urls[v] # Nobody THEN urls[v] ELSE injected[a][v]]
SyncApp(a, urls) ==
    \/ /\ HasApp(a) /\ appRow[a].deployed
       /\ service' = [service EXCEPT ![appRow[a].slug] = a]
       /\ injected' = [injected EXCEPT ![a] = Patched(a, urls)]
    \/ ~(HasApp(a) /\ appRow[a].deployed) /\ UNCHANGED <<service, injected>>
    \/ "cluster" \in dbmix.faults /\ UNCHANGED <<service, injected>>

DeployApp(q) ==
    LET a == dbCall[q].a
    IN  /\ DbAt(q, {"deploy"}, "objects")
        /\ IF HasApp(a)
           THEN /\ appRow' = [appRow EXCEPT ![a].deployed = TRUE]
                /\ service' = [service EXCEPT ![appRow[a].slug] = a]
                /\ injected' = [injected EXCEPT ![a] = Patched(a, urlIn[a])]
           ELSE UNCHANGED <<appRow, service, injected>>
        /\ DbEnds(q)
        /\ UNCHANGED <<dbRow, links, urlIn, object, worker, leftover, dbAsked, dbmix>>

\* handleDeleteApp: its objects, then its row with its variables and links.
DeleteAppHere(q) ==
    LET a == dbCall[q].a
    IN  /\ DbAt(q, {"deleteApp"}, "objects")
        /\ service' = [service EXCEPT ![appRow[a].slug] = Nobody]
        /\ injected' = [injected EXCEPT ![a] = NoUrls]
        /\ appRow' = [appRow EXCEPT ![a] = NoAppRow]
        /\ urlIn' = [urlIn EXCEPT ![a] = NoUrls]
        /\ links' = {l \in links : l.a # a}
        /\ leftover' = {x \in leftover : x[1] # a}
        /\ DbEnds(q)
        /\ UNCHANGED <<dbRow, object, worker, dbAsked, dbmix>>

\* What these links' variables still hold of d, once they are not taken away.
LeftBehind(these, d) == {<<l.a, l.v>> : l \in {k \in these : urlIn[k.a][k.v] = d}}

\* Link: the variable, then the row, then the app.  Without credentials there is no link.
Credentials(d) == HasRow(d) /\ dbRow[d].sealed
LinkVariable(q) ==
    LET c == dbCall[q]
    IN  /\ DbAt(q, {"link"}, "variable")
        /\ IF Credentials(c.d) /\ HasApp(c.a)
           THEN /\ urlIn' = [urlIn EXCEPT ![c.a][c.v] = c.d]
                /\ leftover' = leftover \ {<<c.a, c.v>>}
                /\ DbGo(q, "link")
           ELSE DbEnds(q) /\ UNCHANGED <<urlIn, leftover>>
        /\ UNCHANGED <<appRow, dbRow, links, injected, service, object, worker, dbAsked, dbmix>>

\* The row of a link that exists gets the new name; nobody clears what the old one named.
LinkDatabase(q) ==
    LET c == dbCall[q]
        old == {l \in links : l.d = c.d /\ l.a = c.a}
    IN  /\ DbAt(q, {"link"}, "link")
        /\ IF HasRow(c.d) /\ HasApp(c.a)
           THEN /\ links' = (links \ old) \cup {[d |-> c.d, a |-> c.a, v |-> c.v]}
                /\ leftover' = leftover \cup LeftBehind({k \in old : k.v # c.v}, c.d)
                /\ DbGo(q, "sync")
           ELSE DbEnds(q) /\ UNCHANGED <<links, leftover>>
        /\ UNCHANGED <<appRow, dbRow, urlIn, injected, service, object, worker, dbAsked, dbmix>>

\* Unlink: the variable by its name, whatever it holds by now; then the row.
UnlinkVariable(q) ==
    LET c == dbCall[q]
        names == {l.v : l \in {k \in links : k.a = c.a /\ k.d = c.d}}
    IN  /\ DbAt(q, {"unlink"}, "variable")
        /\ urlIn' = [urlIn EXCEPT ![c.a] = [v \in VarNames |-> IF v \in names THEN Nobody ELSE @[v]]]
        /\ DbGo(q, "link")
        /\ UNCHANGED <<appRow, dbRow, links, injected, service, object, worker, leftover, dbAsked, dbmix>>

UnlinkDatabase(q) ==
    LET c == dbCall[q]
        mine == {l \in links : l.d = c.d /\ l.a = c.a}
    IN  /\ DbAt(q, {"unlink"}, "link")
        /\ links' = links \ mine
        /\ IF mine = {} THEN DbEnds(q) ELSE DbGo(q, "sync")
        /\ UNCHANGED <<appRow, dbRow, urlIn, injected, service, object, worker, leftover, dbAsked, dbmix>>

SyncAfterLink(q) ==
    /\ DbAt(q, {"link", "unlink"}, "sync")
    /\ SyncApp(dbCall[q].a, urlIn[dbCall[q].a])
    /\ DbEnds(q)
    /\ UNCHANGED <<appRow, dbRow, links, urlIn, object, worker, leftover, dbAsked, dbmix>>

-----------------------------------------------------------------------------
(* Delete: the cluster's objects by name, each in its turn and ending at   *)
(* the first that fails; then each linked app's variable and its Sync; the *)
(* row last.  The list of the links and a variable may be refused: that is *)
(* logged, and the deletion goes on.                                       *)
MayRefuse == "rows" \in dbmix.faults

\* handleDeleteDatabase refuses one that is linked unless it is told to go on.
CheckLinks(q, force) ==
    LET linked == \E l \in links : l.d = dbCall[q].d
    IN  /\ DbAt(q, {"deleteDb"}, "links")
        /\ IF HasRow(dbCall[q].d) /\ (force \/ ~linked) THEN DbGo(q, "objects") ELSE DbEnds(q)
        /\ UNCHANGED <<appRow, dbRow, links, urlIn, injected, service, object, worker, leftover, dbAsked, dbmix>>

\* A secret or a claim that stays is logged.
DeleteObjects(q, ended) ==
    LET d == dbCall[q].d
        s == dbRow[d].slug
        linked == {l \in links : l.d = d}
    IN  /\ DbAt(q, {"deleteDb"}, "objects")
        /\ ended = "no" \/ "cluster" \in dbmix.faults
        /\ object' = IF ended = "first" \/ ~HasRow(d) THEN object ELSE [object EXCEPT ![s] = Nobody]
        /\ service' = IF ended = "no" /\ HasRow(d) /\ HasService THEN [service EXCEPT ![s] = Nobody] ELSE service
        /\ IF ended = "no" /\ HasRow(d)
           THEN \E listed \in {linked} \cup (IF MayRefuse THEN {{}} ELSE {}) :
                  /\ dbCall' = [dbCall EXCEPT ![q].at = "apps", ![q].left = listed]
                  /\ leftover' = leftover \cup LeftBehind(linked \ listed, d)
           ELSE DbEnds(q) /\ UNCHANGED leftover
        /\ UNCHANGED <<appRow, dbRow, links, urlIn, injected, worker, dbAsked, dbmix>>

\* One linked app after another, as they were listed; the links themselves go with the row.
DeleteLinkedVariable_Kept(q) ==  \* mutant: the app is synced and its variable kept
    /\ DbAt(q, {"deleteDb"}, "apps")
    /\ DbGo(q, "row")
    /\ UNCHANGED <<appRow, dbRow, links, urlIn, injected, service, object, worker, leftover, dbAsked, dbmix>>
DeleteLinkedVariable(q) ==
    /\ DbAt(q, {"deleteDb"}, "apps")
    /\ IF dbCall[q].left = {} THEN DbGo(q, "row") /\ UNCHANGED <<urlIn, leftover, service, injected>>
       ELSE \E l \in dbCall[q].left :
              /\ \/ urlIn' = [urlIn EXCEPT ![l.a][l.v] = Nobody] /\ UNCHANGED leftover
                 \/ MayRefuse /\ UNCHANGED urlIn /\ leftover' = leftover \cup LeftBehind({l}, dbCall[q].d)
              /\ SyncApp(l.a, urlIn'[l.a])
              /\ dbCall' = [dbCall EXCEPT ![q].left = @ \ {l}]
    /\ UNCHANGED <<appRow, dbRow, links, object, worker, dbAsked, dbmix>>

DeleteDatabaseRow(q) ==
    LET d == dbCall[q].d
    IN  /\ DbAt(q, {"deleteDb"}, "row")
        /\ \/ /\ dbRow' = IF HasRow(d) THEN [dbRow EXCEPT ![d].status = "gone"] ELSE dbRow
              /\ links' = {l \in links : l.d # d}
           \/ MayRefuse /\ UNCHANGED <<dbRow, links>>
        /\ DbEnds(q)
        /\ UNCHANGED <<appRow, urlIn, injected, service, object, worker, leftover, dbAsked, dbmix>>

-----------------------------------------------------------------------------
Provision(d) == EnsureComponent(d) \/ (\E n \in 0..Len(Objects) : ApplyDatabase(d, n)) \/ MarkStarting(d) \/ WaitReady(d)
Handle(q) ==
    \/ CheckSlug(q) \/ CreateAppRow(q) \/ CreateDatabase(q) \/ SealAndProvision(q)
    \/ GetDatabase(q) \/ DeployApp(q) \/ DeleteAppHere(q) \/ LinkVariable(q) \/ LinkDatabase(q)
    \/ UnlinkVariable(q) \/ UnlinkDatabase(q) \/ SyncAfterLink(q)
    \/ (\E force \in BOOLEAN : CheckLinks(q, force))
    \/ (\E ended \in {"no", "first", "second"} : DeleteObjects(q, ended)) \/ DeleteLinkedVariable(q) \/ DeleteDatabaseRow(q)

DbNext == \/ \E q \in DbCallers : (\E c \in DbCalls : DbBegin(q, c)) \/ Handle(q) \/ RequestCut(q)
          \/ \E d \in DbIds : Provision(d)
          \/ Restart

DbSpec == DbInit /\ [][DbNext]_dbVars

\* What goes on by itself: goroutines and requests.
DbWork == (\E d \in DbIds : Provision(d)) \/ (\E q \in DbCallers : Handle(q))

-----------------------------------------------------------------------------
(* Properties.                                                             *)

(* A name means one thing: whenever no request is in progress, the Service *)
(* under a name is that of the one who owns the name, a deployed app has   *)
(* the one under its slug, and so has a running database as long as        *)
(* nothing fails (SlugOwnerInEnvironment).  What is called running is the  *)
(* StatefulSet: its Service may have been refused after it, or taken away  *)
(* by a deletion that ended there.  It needs that requests come one after  *)
(* another, that names are asked for (a template's are not) and that no    *)
(* database is deleted while it is being created.                          *)
NameMeansOneThing ==
    DbQuiet /\ ~dbmix.overlap /\ ~dbmix.early /\ "template" \notin dbmix.kinds =>
        /\ \A s \in Slugs : service[s] # Nobody => SlugOwner(s) = {service[s]}
        /\ \A a \in DbApps : appRow[a].deployed => service[appRow[a].slug] = a
        /\ \A d \in DbIds : dbRow[d].status = "running" /\ HasService /\ dbmix.faults = {} => service[dbRow[d].slug] = d

(* The same without the conditions: what the comment of                    *)
(* SlugOwnerInEnvironment says the question is there to prevent.           *)
NameMeansOneThingAlways ==
    DbQuiet => \A a \in DbApps : appRow[a].deployed => service[appRow[a].slug] = a

(* The variables the panel shows are connection strings to databases there *)
(* are, and where no Sync fails a deployed app runs with those (Link,      *)
(* Unlink, Delete).  It needs that requests come one after another and are *)
(* not cut between a variable and its link, and it is not so of a variable *)
(* nobody cleared, because its link got another name or the database       *)
(* refused the statement.  A name the panel no longer shows stays in the   *)
(* cluster: AppsLoseTheirVariable.                                         *)
NoUrlToNothing ==
    DbQuiet /\ ~dbmix.overlap /\ dbmix.faults \cap {"cut", "restart"} = {} =>
        \A a \in DbApps, v \in VarNames : urlIn[a][v] # Nobody /\ <<a, v>> \notin leftover =>
            /\ HasRow(urlIn[a][v])
            /\ "cluster" \notin dbmix.faults /\ appRow[a].deployed => injected[a][v] = urlIn[a][v]

(* "The apps that used it lose their variable, so they stop referring to   *)
(* something that no longer exists" (Manager.Delete), of the Secret the    *)
(* app's instances take their variables from, when no step failed.         *)
AppsLoseTheirVariable ==
    DbQuiet /\ ~dbmix.overlap /\ dbmix.faults \cap {"cluster", "cut", "restart"} = {} /\ leftover = {} =>
        \A a \in DbApps, v \in VarNames : injected[a][v] # Nobody => HasRow(injected[a][v])

(* The same of every variable.                                             *)
NoUrlToNothingEver ==
    DbQuiet => \A a \in DbApps, v \in VarNames : urlIn[a][v] # Nobody => HasRow(urlIn[a][v])

(* A database does not stay "creating": again and again there is a time    *)
(* when none is, because its goroutine ends it, ready or failed, or a      *)
(* restart does (markInterruptedWork).  It may stay when the request is    *)
(* cut before the goroutine starts, and when the goroutine's own limit has *)
(* passed.                                                                 *)
CreationEnds ==
    dbmix.faults \cap {"cut", "limit"} = {} ~> \A d \in DbIds : dbRow[d].status # "creating"
=============================================================================
