-------------------------- MODULE WorkloadsProofs --------------------------
(***************************************************************************)
(* What is proved of apps and what the cluster holds of them, of databases,*)
(* their names and their connection strings, and of the previews of pull   *)
(* requests, for every set of apps, databases, callers, names, pull        *)
(* requests and environments and every mix of requests and faults.         *)
(***************************************************************************)
EXTENDS Apps, Databases, Environments, TLAPS

(***************************************************************************)
(* An app in the cluster.                                                  *)
(***************************************************************************)
InShape(c) ==
    /\ c = [objects |-> c.objects, claims |-> c.claims, crons |-> c.crons, runs |-> c.runs]
    /\ c.objects = [k \in Kinds |-> c.objects[k]]

CronsOf(s, jobs) == {[name |-> j.name, cron |-> BuildCronJob(s, j)] : j \in {i \in jobs : i.enabled}}

\* Everything the builders make of a specification is there, and every variable has its value.
Holds(c, s, values) ==
    /\ \A k \in Kinds \ {"secret"} : Built(s, values)[k] # NoObject => c.objects[k] = Built(s, values)[k]
    /\ SecretGives(c, values)
    /\ BuildPVCs(s) \subseteq c.claims

\* And nothing else, but for the Service and the Ingress of an app without a port.
ShowsIt(c, s, jobs, values) ==
    /\ \A k \in Kinds \ {"secret"} :
          c.objects[k] = Built(s, values)[k] \/ (s.port = 0 /\ k \in {"service", "ingress"})
    /\ SecretGives(c, values)
    /\ BuildPVCs(s) \subseteq c.claims
    /\ c.crons = CronsOf(s, jobs)

Shows(a) == ShowsIt(cluster[a], SpecFor(a, stored[a].row, stored[a].last), stored[a].jobs, RuntimeVariables(a))
Fine(a) == Exists(a) /\ stored[a].last # None /\ a \notin lagging => Shows(a)
OthersShow(S) == \A a \in AppIds \ S : Fine(a)

Columns == {"on", "row", "vars", "domains", "volumes", "jobs", "last"}
Fields == {"kind", "at", "a", "row", "change", "image", "spec", "values", "left"}
IsApp(x) == x = [n \in Columns |-> x[n]]
IsReq(x) == x = [n \in Fields |-> x[n]]
Storage(f) == f = [a \in AppIds |-> f[a]] /\ \A a \in AppIds : IsApp(f[a])
Clusters(f) == f = [a \in AppIds |-> f[a]] /\ \A a \in AppIds : InShape(f[a])
Requests(f) == f = [q \in AppCallers |-> f[q]] /\ \A q \in AppCallers : IsReq(f[q])
AppShape == Storage(stored) /\ Clusters(cluster) /\ Requests(request)

OneRequest == \A q, r \in AppCallers : ~At(q, "off") /\ ~At(r, "off") => q = r

\* What a request has read is what is stored, and how far it has brought the app.
Meant(q) == SpecFor(request[q].a, stored[request[q].a].row, request[q].image)
Phase(q) ==
    LET r == request[q]
        a == r.a
    IN  /\ r.at \notin {"domain", "read"} => r.spec = Meant(q) /\ r.values = RuntimeVariables(a)
        /\ r.at \in {"jobs", "remove"} => Holds(cluster[a], Meant(q), RuntimeVariables(a))
        /\ r.at = "remove" => a \in lagging \/ cluster[a].crons = CronsOf(Meant(q), stored[a].jobs)
        /\ r.at = "rollout" => a \in lagging \/ ShowsIt(cluster[a], Meant(q), stored[a].jobs, RuntimeVariables(a))
Bringing(q) ==
    LET r == request[q]
    IN  /\ r.a \in AppIds /\ Exists(r.a) /\ r.row = stored[r.a].row
        /\ r.image = IF r.kind = "deploy" THEN "v2" ELSE stored[r.a].last
        /\ OthersShow(r.left \cup {r.a})
        /\ r.kind = "deploy" => r.left = {}
        /\ Phase(q)

Stands(q) ==
    LET r == request[q]
    IN  /\ r.left \subseteq AppIds
        /\ r.at = "write" => /\ OthersShow({}) /\ r.a \in AppIds /\ r.row = stored[r.a].row /\ r.left = {}
                             /\ Exists(r.a) <=> r.kind # "create"
        /\ r.at = "variables" => OthersShow({}) /\ r.a \in AppIds /\ stored[r.a].last = None
        /\ r.at = "sync" => OthersShow(r.left) /\ r.kind # "deploy"
        /\ r.at = "row" => OthersShow({r.a}) /\ r.a \in AppIds
        /\ r.at \in {"domain", "read", "apply", "jobs", "remove", "rollout"} => Bringing(q)
        /\ r.at \in {"off", "write", "variables", "sync", "row", "domain", "read", "apply", "jobs", "remove", "rollout"}

AppInv ==
    ~wmix.overlap =>
        /\ AppShape /\ OneRequest
        /\ Idle => OthersShow({})
        /\ \A q \in AppCallers : Stands(q)

-----------------------------------------------------------------------------
(* What the builders and the steps of an apply leave.                      *)

LEMMA NothingElse == \A s, values : Built(s, values)["deployment"] # NoObject
BY DEF Built, BuildDeployment, NoObject

\* The keys an apply names have its values afterwards, whatever the Secret held.
LEMMA SecretIsPatched ==
    ASSUME NEW c, NEW d, NEW values, d.objects["secret"] = PatchSecret(c, values)
    PROVE  SecretGives(d, values)
<1>1. HeldValues(d) = values \cup {h \in HeldValues(c) : \A v \in values : v[1] # h[1]}
  BY DEF PatchSecret, HeldValues
<1> HIDE DEF HeldValues
<1>2. QED BY <1>1 DEF SecretGives

\* What a Secret gives is a matter of the objects alone.
LEMMA SecretStays ==
    ASSUME NEW c, NEW d, NEW values, d.objects["secret"] = c.objects["secret"], SecretGives(c, values)
    PROVE  SecretGives(d, values)
BY DEF SecretGives, HeldValues

LEMMA OrderCovers == /\ Len(ApplyOrder) = 9
                     /\ \A k \in Kinds : \E i \in 1..9 : ApplyOrder[i] = k
                     /\ \E i \in 1..9 : ApplyOrder[i] = "claims"
BY DEF ApplyOrder, Kinds

\* However many objects were applied, the cluster keeps its shape; with all of them, whatever the
\* builders make is there.
LEMMA ApplyBrings ==
    ASSUME NEW c, InShape(c), NEW s, NEW values, NEW n
    PROVE  /\ InShape(ApplyAll(c, s, values, n))
           /\ n = Len(ApplyOrder) => Holds(ApplyAll(c, s, values, n), s, values)
<1> DEFINE done == {ApplyOrder[i] : i \in 1..n}
           want == [k \in Kinds |-> IF k = "secret" THEN PatchSecret(c, values) ELSE Built(s, values)[k]]
           kept == {x \in c.claims : \A v \in BuildPVCs(s) : v.name # x.name}
           objects == [k \in Kinds |-> IF k \in done /\ want[k] # NoObject THEN want[k] ELSE c.objects[k]]
           claims == IF "claims" \in done THEN kept \cup BuildPVCs(s) ELSE c.claims
<1>1. ApplyAll(c, s, values, n) = [c EXCEPT !.objects = objects, !.claims = claims]
  BY DEF ApplyAll
<1>2. n = Len(ApplyOrder) => (\A k \in Kinds : k \in done) /\ "claims" \in done
  BY OrderCovers
<1>3. n = Len(ApplyOrder) =>
        /\ BuildPVCs(s) \subseteq claims
        /\ \A k \in Kinds \ {"secret"} : Built(s, values)[k] # NoObject => objects[k] = Built(s, values)[k]
        /\ objects["secret"] = PatchSecret(c, values)
  <2>1. "secret" \in Kinds /\ PatchSecret(c, values) # NoObject
    BY DEF Kinds, PatchSecret, NoObject
  <2>2. QED BY <1>2, <2>1
<1>4. objects = [k \in Kinds |-> objects[k]]
  OBVIOUS
<1> HIDE DEF objects, claims
<1>5. [c EXCEPT !.objects = objects, !.claims = claims] = [objects |-> objects, claims |-> claims, crons |-> c.crons, runs |-> c.runs]
  <2>1. PICK d : d = [c EXCEPT !.objects = objects]
    OBVIOUS
  <2>2. d = [objects |-> objects, claims |-> c.claims, crons |-> c.crons, runs |-> c.runs]
    BY <2>1 DEF InShape
  <2>3. [d EXCEPT !.claims = claims] = [objects |-> objects, claims |-> claims, crons |-> c.crons, runs |-> c.runs]
    BY <2>2
  <2>4. QED BY <2>1, <2>3
<1>6. PICK d : d = ApplyAll(c, s, values, n)
  OBVIOUS
<1>7. d = [objects |-> objects, claims |-> claims, crons |-> c.crons, runs |-> c.runs]
  BY <1>1, <1>5, <1>6
<1>8. InShape(d)
  BY <1>4, <1>7 DEF InShape
<1>9. n = Len(ApplyOrder) => SecretGives(d, values)
  BY <1>3, <1>7, SecretIsPatched
<1>10. n = Len(ApplyOrder) => Holds(d, s, values)
  BY <1>3, <1>7, <1>9 DEF Holds
<1>11. QED BY <1>6, <1>8, <1>10

\* With nothing refused the scheduled commands are the enabled ones, the older ones gone.
LEMMA JobsAreThose ==
    ASSUME NEW c, InShape(c), NEW s, NEW jobs
    PROVE  /\ ApplyScheduledJobs(c, s, jobs, {}).crons = CronsOf(s, jobs)
           /\ InShape(ApplyScheduledJobs(c, s, jobs, {}))
           /\ ApplyScheduledJobs(c, s, jobs, {}).objects = c.objects /\ ApplyScheduledJobs(c, s, jobs, {}).claims = c.claims
<1> DEFINE crons == {x \in ApplyScheduledCommands(c, s, jobs, {}) : \E j \in jobs : j.enabled /\ j.name = x.name /\ j.name \notin {}}
<1>1. ApplyScheduledJobs(c, s, jobs, {}) = [c EXCEPT !.crons = crons]
  BY DEF ApplyScheduledJobs
<1>2. crons = CronsOf(s, jobs)
  BY DEF ApplyScheduledCommands, CronsOf
<1> HIDE DEF crons
<1>3. [c EXCEPT !.crons = crons] = [objects |-> c.objects, claims |-> c.claims, crons |-> crons, runs |-> c.runs]
  BY DEF InShape
<1>4. QED BY <1>1, <1>2, <1>3 DEF InShape

\* Refused or unlisted, they touch nothing but the commands.
LEMMA JobsKeep ==
    ASSUME NEW c, InShape(c), NEW s, NEW jobs, NEW refused
    PROVE  \A d \in {ApplyScheduledJobs(c, s, jobs, refused), [c EXCEPT !.crons = ApplyScheduledCommands(c, s, jobs, refused)]} :
              InShape(d) /\ d.objects = c.objects /\ d.claims = c.claims
<1>1. ASSUME NEW crons
      PROVE  [c EXCEPT !.crons = crons] = [objects |-> c.objects, claims |-> c.claims, crons |-> crons, runs |-> c.runs]
  BY DEF InShape
<1>2. QED BY <1>1 DEF InShape, ApplyScheduledJobs

\* What removeUnwanted takes away is what the builders do not make, and the rest of it is not there.
LEMMA RemovedIsUnwanted ==
    ASSUME NEW c, InShape(c), NEW s, NEW values, NEW failed
    PROVE  /\ InShape(RemoveUnwanted(c, s, failed))
           /\ Holds(c, s, values) /\ failed = {} =>
                \A jobs : c.crons = CronsOf(s, jobs) => ShowsIt(RemoveUnwanted(c, s, {}), s, jobs, values)
<1> DEFINE gone == (IF s.domains = {} THEN {"ingress"} ELSE {})
                   \cup (IF BuildHPA(s) = NoObject THEN {"hpa"} ELSE {})
                   \cup (IF BuildPDB(s) = NoObject THEN {"pdb"} ELSE {})
                   \cup (IF ~ScaleToZeroEnabled(s) THEN {"wake", "scaled"} ELSE {})
           objects(f) == [k \in Kinds |-> IF k \in gone \ f THEN NoObject ELSE c.objects[k]]
<1>1. \A f : RemoveUnwanted(c, s, f) = [c EXCEPT !.objects = objects(f)]
  BY DEF RemoveUnwanted
<1>2. ASSUME NEW o PROVE [c EXCEPT !.objects = o] = [objects |-> o, claims |-> c.claims, crons |-> c.crons, runs |-> c.runs]
  BY DEF InShape
<1>3. InShape(RemoveUnwanted(c, s, failed))
  BY <1>1, <1>2 DEF InShape
<1>4. ASSUME Holds(c, s, values), NEW k \in Kinds \ {"secret"}
      PROVE  objects({})[k] = Built(s, values)[k] \/ (s.port = 0 /\ k \in {"service", "ingress"})
  <2>1. CASE k = "deployment"
    BY <1>4, <2>1, NothingElse DEF Holds
  <2>2. CASE k = "service"
    BY <1>4, <2>2 DEF Holds, Built, BuildService, NoObject
  <2>3. CASE k = "ingress"
    BY <1>4, <2>3 DEF Holds, Built, BuildIngress, NoObject
  <2>4. CASE k = "hpa"
    BY <1>4, <2>4 DEF Holds, Built
  <2>5. CASE k = "pdb"
    BY <1>4, <2>5 DEF Holds, Built
  <2>6. CASE k = "wake"
    BY <1>4, <2>6 DEF Holds, Built, BuildInterceptorService, NoObject
  <2>7. CASE k = "scaled"
    BY <1>4, <2>7 DEF Holds, Built, BuildHTTPScaledObject, NoObject
  <2>8. QED BY <2>1, <2>2, <2>3, <2>4, <2>5, <2>6, <2>7 DEF Kinds
<1>a. objects({})["secret"] = c.objects["secret"]
  BY DEF Kinds
<1> HIDE DEF objects
<1>5. ASSUME Holds(c, s, values), NEW jobs, c.crons = CronsOf(s, jobs)
      PROVE  ShowsIt(RemoveUnwanted(c, s, {}), s, jobs, values)
  <2> DEFINE d == RemoveUnwanted(c, s, {})
  <2>1. d = [objects |-> objects({}), claims |-> c.claims, crons |-> c.crons, runs |-> c.runs]
    BY <1>1, <1>2
  <2>2. \A k \in Kinds \ {"secret"} : d.objects[k] = Built(s, values)[k] \/ (s.port = 0 /\ k \in {"service", "ingress"})
    BY <1>4, <1>5, <2>1
  <2>3. BuildPVCs(s) \subseteq d.claims /\ d.crons = CronsOf(s, jobs)
    BY <1>5, <2>1 DEF Holds
  <2> HIDE DEF d
  <2>a. SecretGives(d, values)
    <3>1. SecretGives(c, values)
      BY <1>5 DEF Holds
    <3>2. d.objects["secret"] = c.objects["secret"]
      BY <1>a, <2>1
    <3>3. QED BY <3>1, <3>2, SecretStays
  <2>4. ShowsIt(d, s, jobs, values)
    BY <2>2, <2>3, <2>a DEF ShowsIt
  <2>5. QED BY <2>4 DEF d
<1>6. QED BY <1>3, <1>5

-----------------------------------------------------------------------------
(* How a step changes a request, an app's rows and what the cluster holds. *)

\* A change of one field of a request.
Sets(f, g, q, n, v) ==
    /\ Requests(g) /\ g[q][n] = v
    /\ \A p \in AppCallers : p # q => g[p] = f[p]
    /\ \A m \in Fields : m # n => g[q][m] = f[q][m]

LEMMA SetField ==
    ASSUME NEW f, Requests(f), NEW q \in AppCallers, NEW n \in Fields, NEW v, NEW g,
           g = [p \in AppCallers |-> g[p]], \A p \in AppCallers : p # q => g[p] = f[p],
           g[q] = [m \in Fields |-> IF m = n THEN v ELSE f[q][m]]
    PROVE  Sets(f, g, q, n, v)
BY DEF Sets, Requests, IsReq

LEMMA Set_at ==
    ASSUME NEW f, Requests(f), NEW q \in AppCallers, NEW v, NEW g, g = [f EXCEPT ![q].at = v]
    PROVE  Sets(f, g, q, "at", v)
<1>1. f = [p \in AppCallers |-> f[p]] /\ f[q] = [m \in Fields |-> f[q][m]] /\ "at" \in Fields
  BY DEF Requests, IsReq, Fields
<1>2. g = [p \in AppCallers |-> g[p]] /\ (\A p \in AppCallers : p # q => g[p] = f[p]) /\ g[q] = [f[q] EXCEPT !.at = v]
  BY <1>1
<1>3. g[q] = [m \in Fields |-> IF m = "at" THEN v ELSE f[q][m]]
  BY <1>1, <1>2
<1>4. QED BY <1>1, <1>2, <1>3, SetField

LEMMA Set_left ==
    ASSUME NEW f, Requests(f), NEW q \in AppCallers, NEW v, NEW g, g = [f EXCEPT ![q].left = v]
    PROVE  Sets(f, g, q, "left", v)
<1>1. f = [p \in AppCallers |-> f[p]] /\ f[q] = [m \in Fields |-> f[q][m]] /\ "left" \in Fields
  BY DEF Requests, IsReq, Fields
<1>2. g = [p \in AppCallers |-> g[p]] /\ (\A p \in AppCallers : p # q => g[p] = f[p]) /\ g[q] = [f[q] EXCEPT !.left = v]
  BY <1>1
<1>3. g[q] = [m \in Fields |-> IF m = "left" THEN v ELSE f[q][m]]
  BY <1>1, <1>2
<1>4. QED BY <1>1, <1>2, <1>3, SetField

LEMMA Set_a ==
    ASSUME NEW f, Requests(f), NEW q \in AppCallers, NEW v, NEW g, g = [f EXCEPT ![q].a = v]
    PROVE  Sets(f, g, q, "a", v)
<1>1. f = [p \in AppCallers |-> f[p]] /\ f[q] = [m \in Fields |-> f[q][m]] /\ "a" \in Fields
  BY DEF Requests, IsReq, Fields
<1>2. g = [p \in AppCallers |-> g[p]] /\ (\A p \in AppCallers : p # q => g[p] = f[p]) /\ g[q] = [f[q] EXCEPT !.a = v]
  BY <1>1
<1>3. g[q] = [m \in Fields |-> IF m = "a" THEN v ELSE f[q][m]]
  BY <1>1, <1>2
<1>4. QED BY <1>1, <1>2, <1>3, SetField

LEMMA Set_row ==
    ASSUME NEW f, Requests(f), NEW q \in AppCallers, NEW v, NEW g, g = [f EXCEPT ![q].row = v]
    PROVE  Sets(f, g, q, "row", v)
<1>1. f = [p \in AppCallers |-> f[p]] /\ f[q] = [m \in Fields |-> f[q][m]] /\ "row" \in Fields
  BY DEF Requests, IsReq, Fields
<1>2. g = [p \in AppCallers |-> g[p]] /\ (\A p \in AppCallers : p # q => g[p] = f[p]) /\ g[q] = [f[q] EXCEPT !.row = v]
  BY <1>1
<1>3. g[q] = [m \in Fields |-> IF m = "row" THEN v ELSE f[q][m]]
  BY <1>1, <1>2
<1>4. QED BY <1>1, <1>2, <1>3, SetField

LEMMA Set_image ==
    ASSUME NEW f, Requests(f), NEW q \in AppCallers, NEW v, NEW g, g = [f EXCEPT ![q].image = v]
    PROVE  Sets(f, g, q, "image", v)
<1>1. f = [p \in AppCallers |-> f[p]] /\ f[q] = [m \in Fields |-> f[q][m]] /\ "image" \in Fields
  BY DEF Requests, IsReq, Fields
<1>2. g = [p \in AppCallers |-> g[p]] /\ (\A p \in AppCallers : p # q => g[p] = f[p]) /\ g[q] = [f[q] EXCEPT !.image = v]
  BY <1>1
<1>3. g[q] = [m \in Fields |-> IF m = "image" THEN v ELSE f[q][m]]
  BY <1>1, <1>2
<1>4. QED BY <1>1, <1>2, <1>3, SetField

LEMMA Set_spec ==
    ASSUME NEW f, Requests(f), NEW q \in AppCallers, NEW v, NEW g, g = [f EXCEPT ![q].spec = v]
    PROVE  Sets(f, g, q, "spec", v)
<1>1. f = [p \in AppCallers |-> f[p]] /\ f[q] = [m \in Fields |-> f[q][m]] /\ "spec" \in Fields
  BY DEF Requests, IsReq, Fields
<1>2. g = [p \in AppCallers |-> g[p]] /\ (\A p \in AppCallers : p # q => g[p] = f[p]) /\ g[q] = [f[q] EXCEPT !.spec = v]
  BY <1>1
<1>3. g[q] = [m \in Fields |-> IF m = "spec" THEN v ELSE f[q][m]]
  BY <1>1, <1>2
<1>4. QED BY <1>1, <1>2, <1>3, SetField

LEMMA Set_values ==
    ASSUME NEW f, Requests(f), NEW q \in AppCallers, NEW v, NEW g, g = [f EXCEPT ![q].values = v]
    PROVE  Sets(f, g, q, "values", v)
<1>1. f = [p \in AppCallers |-> f[p]] /\ f[q] = [m \in Fields |-> f[q][m]] /\ "values" \in Fields
  BY DEF Requests, IsReq, Fields
<1>2. g = [p \in AppCallers |-> g[p]] /\ (\A p \in AppCallers : p # q => g[p] = f[p]) /\ g[q] = [f[q] EXCEPT !.values = v]
  BY <1>1
<1>3. g[q] = [m \in Fields |-> IF m = "values" THEN v ELSE f[q][m]]
  BY <1>1, <1>2
<1>4. QED BY <1>1, <1>2, <1>3, SetField

Alone(q) == Requests(request') /\ \A p \in AppCallers : p # q => request'[p] = request[p]
Keeps(q, S) == \A m \in Fields \ S : request'[q][m] = request[q][m]

LEMMA ToIs ==
    ASSUME AppShape, NEW q \in AppCallers, NEW v, To(q, v)
    PROVE  Alone(q) /\ request'[q].at = v /\ Keeps(q, {"at"})
<1>1. PICK g : g = [request EXCEPT ![q].at = v] /\ request' = g
  BY DEF To
<1>2. Requests(request)
  BY DEF AppShape
<1>3. Sets(request, g, q, "at", v)
  BY <1>1, <1>2, Set_at
<1>4. QED BY <1>1, <1>3 DEF Alone, Keeps, Sets

LEMMA EndedIs ==
    ASSUME AppShape, NEW q \in AppCallers, Ended(q)
    PROVE  Alone(q) /\ request'[q].at = "off" /\ request'[q].left = {}
<1>1. IsReq(NoRequest) /\ NoRequest.at = "off" /\ NoRequest.left = {}
  BY DEF IsReq, NoRequest, Fields
<1>2. Requests(request) /\ request' = [request EXCEPT ![q] = NoRequest]
  BY DEF AppShape, Ended
<1>3. QED BY <1>1, <1>2 DEF Requests, Alone

LEMMA SyncTheseIs ==
    ASSUME AppShape, NEW q \in AppCallers, NEW apps, SyncThese(q, apps)
    PROVE  Alone(q) /\ request'[q].at = "sync" /\ request'[q].left = apps /\ request'[q].kind = request[q].kind
<1>1. PICK f, g : f = [request EXCEPT ![q].at = "sync"] /\ g = [f EXCEPT ![q].left = apps] /\ request' = g
  BY DEF SyncThese
<1>2. Requests(request)
  BY DEF AppShape
<1>3. Sets(request, f, q, "at", "sync")
  BY <1>1, <1>2, Set_at
<1>4. Requests(f)
  BY <1>3 DEF Sets
<1>5. Sets(f, g, q, "left", apps)
  BY <1>1, <1>4, Set_left
<1>6. "at" \in Fields /\ "kind" \in Fields
  BY DEF Fields
<1>7. g[q]["left"] = apps /\ g[q]["at"] = f[q]["at"] /\ g[q]["kind"] = f[q]["kind"]
  BY <1>5, <1>6 DEF Sets
<1>8. f[q]["at"] = "sync" /\ f[q]["kind"] = request[q]["kind"]
  BY <1>3, <1>6 DEF Sets
<1>9. Alone(q)
  BY <1>1, <1>3, <1>5 DEF Alone, Sets
<1>10. QED BY <1>1, <1>7, <1>8, <1>9

\* A change of one column of an app's row and what hangs on it.
Changed(a, n, v) ==
    /\ Storage(stored') /\ \A b \in AppIds : b # a => stored'[b] = stored[b]
    /\ \A m \in Columns : m # n => stored'[a][m] = stored[a][m]
    /\ stored'[a][n] = v

LEMMA StoredIs ==
    ASSUME NEW a \in AppIds, NEW n \in Columns, NEW v, AppShape,
           stored' = [b \in AppIds |-> stored'[b]], \A b \in AppIds : b # a => stored'[b] = stored[b],
           stored'[a] = [m \in Columns |-> IF m = n THEN v ELSE stored[a][m]]
    PROVE  Changed(a, n, v)
BY DEF Changed, AppShape, Storage, IsApp

LEMMA Stored_row ==
    ASSUME AppShape, NEW a \in AppIds, NEW v, stored' = [stored EXCEPT ![a].row = v] PROVE Changed(a, "row", v)
<1>1. stored = [b \in AppIds |-> stored[b]] /\ stored[a] = [m \in Columns |-> stored[a][m]] /\ "row" \in Columns
  BY DEF AppShape, Storage, IsApp, Columns
<1>2. /\ stored' = [b \in AppIds |-> stored'[b]] /\ \A b \in AppIds : b # a => stored'[b] = stored[b]
      /\ stored'[a] = [stored[a] EXCEPT !.row = v]
  BY <1>1
<1>3. stored'[a] = [m \in Columns |-> IF m = "row" THEN v ELSE stored[a][m]]
  BY <1>1, <1>2
<1>4. QED BY <1>1, <1>2, <1>3, StoredIs

LEMMA Stored_vars ==
    ASSUME AppShape, NEW a \in AppIds, NEW v, stored' = [stored EXCEPT ![a].vars = v] PROVE Changed(a, "vars", v)
<1>1. stored = [b \in AppIds |-> stored[b]] /\ stored[a] = [m \in Columns |-> stored[a][m]] /\ "vars" \in Columns
  BY DEF AppShape, Storage, IsApp, Columns
<1>2. /\ stored' = [b \in AppIds |-> stored'[b]] /\ \A b \in AppIds : b # a => stored'[b] = stored[b]
      /\ stored'[a] = [stored[a] EXCEPT !.vars = v]
  BY <1>1
<1>3. stored'[a] = [m \in Columns |-> IF m = "vars" THEN v ELSE stored[a][m]]
  BY <1>1, <1>2
<1>4. QED BY <1>1, <1>2, <1>3, StoredIs

LEMMA Stored_domains ==
    ASSUME AppShape, NEW a \in AppIds, NEW v, stored' = [stored EXCEPT ![a].domains = v] PROVE Changed(a, "domains", v)
<1>1. stored = [b \in AppIds |-> stored[b]] /\ stored[a] = [m \in Columns |-> stored[a][m]] /\ "domains" \in Columns
  BY DEF AppShape, Storage, IsApp, Columns
<1>2. /\ stored' = [b \in AppIds |-> stored'[b]] /\ \A b \in AppIds : b # a => stored'[b] = stored[b]
      /\ stored'[a] = [stored[a] EXCEPT !.domains = v]
  BY <1>1
<1>3. stored'[a] = [m \in Columns |-> IF m = "domains" THEN v ELSE stored[a][m]]
  BY <1>1, <1>2
<1>4. QED BY <1>1, <1>2, <1>3, StoredIs

LEMMA Stored_volumes ==
    ASSUME AppShape, NEW a \in AppIds, NEW v, stored' = [stored EXCEPT ![a].volumes = v] PROVE Changed(a, "volumes", v)
<1>1. stored = [b \in AppIds |-> stored[b]] /\ stored[a] = [m \in Columns |-> stored[a][m]] /\ "volumes" \in Columns
  BY DEF AppShape, Storage, IsApp, Columns
<1>2. /\ stored' = [b \in AppIds |-> stored'[b]] /\ \A b \in AppIds : b # a => stored'[b] = stored[b]
      /\ stored'[a] = [stored[a] EXCEPT !.volumes = v]
  BY <1>1
<1>3. stored'[a] = [m \in Columns |-> IF m = "volumes" THEN v ELSE stored[a][m]]
  BY <1>1, <1>2
<1>4. QED BY <1>1, <1>2, <1>3, StoredIs

LEMMA Stored_jobs ==
    ASSUME AppShape, NEW a \in AppIds, NEW v, stored' = [stored EXCEPT ![a].jobs = v] PROVE Changed(a, "jobs", v)
<1>1. stored = [b \in AppIds |-> stored[b]] /\ stored[a] = [m \in Columns |-> stored[a][m]] /\ "jobs" \in Columns
  BY DEF AppShape, Storage, IsApp, Columns
<1>2. /\ stored' = [b \in AppIds |-> stored'[b]] /\ \A b \in AppIds : b # a => stored'[b] = stored[b]
      /\ stored'[a] = [stored[a] EXCEPT !.jobs = v]
  BY <1>1
<1>3. stored'[a] = [m \in Columns |-> IF m = "jobs" THEN v ELSE stored[a][m]]
  BY <1>1, <1>2
<1>4. QED BY <1>1, <1>2, <1>3, StoredIs

LEMMA Stored_last ==
    ASSUME AppShape, NEW a \in AppIds, NEW v, stored' = [stored EXCEPT ![a].last = v] PROVE Changed(a, "last", v)
<1>1. stored = [b \in AppIds |-> stored[b]] /\ stored[a] = [m \in Columns |-> stored[a][m]] /\ "last" \in Columns
  BY DEF AppShape, Storage, IsApp, Columns
<1>2. /\ stored' = [b \in AppIds |-> stored'[b]] /\ \A b \in AppIds : b # a => stored'[b] = stored[b]
      /\ stored'[a] = [stored[a] EXCEPT !.last = v]
  BY <1>1
<1>3. stored'[a] = [m \in Columns |-> IF m = "last" THEN v ELSE stored[a][m]]
  BY <1>1, <1>2
<1>4. QED BY <1>1, <1>2, <1>3, StoredIs

\* An app nothing happens to stays as it is.
LEMMA FineStays ==
    ASSUME NEW a \in AppIds, Fine(a), UNCHANGED shared, stored'[a] = stored[a],
           cluster'[a].objects = cluster[a].objects, cluster'[a].claims = cluster[a].claims,
           cluster'[a].crons = cluster[a].crons, a \notin lagging' => a \notin lagging
    PROVE  Fine(a)'
<1>1. SpecFor(a, stored[a].row, stored[a].last)' = SpecFor(a, stored[a].row, stored[a].last)
  BY DEF SpecFor
<1>2. RuntimeVariables(a)' = RuntimeVariables(a)
  BY DEF RuntimeVariables
<1>3. Shows(a)' <=> Shows(a)
  BY <1>1, <1>2 DEF Shows, ShowsIt, SecretGives, HeldValues
<1>4. QED BY <1>3 DEF Fine, Exists

\* A step of the only request.
LEMMA SerialStep ==
    ASSUME AppInv, ~wmix.overlap, UNCHANGED wmix, NEW q \in AppCallers, ~At(q, "off") \/ Idle, Alone(q),
           Storage(stored'), Clusters(cluster'), Stands(q)', request'[q].at = "off" => OthersShow({})'
    PROVE  AppInv'
<1>1. AppShape' 
  BY DEF AppShape, Alone
<1>2. \A p \in AppCallers : p # q => request'[p] = request[p] /\ request[p].at = "off"
  BY DEF AppInv, OneRequest, Alone, At, Idle
<1>3. OneRequest'
  <2>1. ASSUME NEW p \in AppCallers, NEW r \in AppCallers, request'[p].at # "off", request'[r].at # "off" PROVE p = r
    BY <1>2, <2>1
  <2>2. QED BY <2>1 DEF OneRequest, At
<1>4. Idle' => OthersShow({})'
  BY DEF Idle, At
<1>5. \A p \in AppCallers : Stands(p)'
  <2>1. ASSUME NEW p \in AppCallers, p # q PROVE Stands(p)'
    <3>1. request[p].left \subseteq AppIds
      BY DEF AppInv, Stands
    <3>2. request'[p].left \subseteq AppIds /\ request'[p].at = "off"
      BY <1>2, <2>1, <3>1
    <3>3. QED BY <3>2 DEF Stands
  <2>2. QED BY <2>1
<1>6. QED BY <1>1, <1>3, <1>4, <1>5 DEF AppInv

-----------------------------------------------------------------------------
(* The writes.                                                             *)

LEMMA WriteFacts ==
    ASSUME AppInv, ~wmix.overlap, NEW q \in AppCallers, At(q, "write")
    PROVE  /\ AppShape /\ OthersShow({}) /\ request[q].a \in AppIds /\ request[q].row = stored[request[q].a].row
           /\ request[q].left = {} /\ (Exists(request[q].a) <=> request[q].kind # "create")
BY DEF AppInv, Stands, At

\* A handler that writes its app's rows and then asks for a Sync, or owns up to not asking.
LEMMA WriteKeeps ==
    ASSUME AppInv, ~wmix.overlap, NEW q \in AppCallers, At(q, "write"), request[q].kind # "deploy",
           UNCHANGED <<shared, cluster, wmix>>, lagging \subseteq lagging', NEW a, a = request[q].a,
           Storage(stored'), \A b \in AppIds : b # a => stored'[b] = stored[b],
           SyncThese(q, {a}) \/ (Ended(q) /\ (stored'[a] = stored[a] \/ a \in lagging'))
    PROVE  AppInv'
<1>1. AppShape /\ OthersShow({}) /\ a \in AppIds
  BY WriteFacts
<1>2. ASSUME NEW b \in AppIds, b # a PROVE Fine(b)'
  <2>1. Fine(b)
    BY <1>1 DEF OthersShow
  <2>2. QED BY <1>2, <2>1, FineStays
<1>3. Clusters(cluster') /\ ~At(q, "off")
  BY <1>1 DEF AppShape, At
<1>4. CASE SyncThese(q, {a})
  <2>1. Alone(q) /\ request'[q].at = "sync" /\ request'[q].left = {a} /\ request'[q].kind = request[q].kind
    BY <1>1, <1>4, SyncTheseIs
  <2>2. \A b \in AppIds \ request'[q].left : Fine(b)'
    BY <1>2, <2>1
  <2>3. OthersShow(request[q].left)'
    BY <2>2 DEF OthersShow
  <2>4. Stands(q)'
    BY <1>1, <2>1, <2>3 DEF Stands
  <2>5. QED BY <1>3, <2>1, <2>4, SerialStep
<1>5. CASE Ended(q) /\ (stored'[a] = stored[a] \/ a \in lagging')
  <2>1. Alone(q) /\ request'[q].at = "off" /\ request'[q].left = {}
    BY <1>1, <1>5, EndedIs
  <2>2. Fine(a)'
    <3>1. CASE a \in lagging'
      BY <3>1 DEF Fine
    <3>2. CASE stored'[a] = stored[a]
      <4>1. Fine(a)
        BY <1>1 DEF OthersShow
      <4>2. QED BY <1>1, <3>2, <4>1, FineStays
    <3>3. QED BY <1>5, <3>1, <3>2
  <2>3. OthersShow({})'
    BY <1>2, <2>2 DEF OthersShow
  <2>4. Stands(q)'
    BY <2>1 DEF Stands
  <2>5. QED BY <1>3, <2>1, <2>3, <2>4, SerialStep
<1>6. QED BY <1>4, <1>5

LEMMA SavedRow ==
    ASSUME AppShape, NEW a \in AppIds, NEW row, SaveRow(a, row)
    PROVE  Storage(stored') /\ \A b \in AppIds : b # a => stored'[b] = stored[b]
<1>1. CASE stored' = [stored EXCEPT ![a].row = row]
  BY <1>1, Stored_row DEF Changed
<1>2. CASE stored' = stored
  BY <1>2 DEF AppShape
<1>3. QED BY <1>1, <1>2 DEF SaveRow

LEMMA UpdateKeeps == ASSUME AppInv, ~wmix.overlap, NEW q \in AppCallers, UpdateApp(q) PROVE AppInv'
<1>1. PICK a : a = request[q].a
  OBVIOUS
<1>2. At(q, "write") /\ request[q].kind = "update" /\ UNCHANGED <<shared, cluster, wmix, lagging>>
  BY DEF UpdateApp, AtOne
<1>3. AppShape /\ a \in AppIds
  BY <1>1, <1>2, WriteFacts
<1>4. (UNCHANGED stored /\ Ended(q)) \/ (SyncThese(q, {a}) /\ \E row : SaveRow(a, row))
  BY <1>1 DEF UpdateApp
<1>5. Storage(stored') /\ \A b \in AppIds : b # a => stored'[b] = stored[b]
  BY <1>3, <1>4, SavedRow DEF AppShape
<1>6. QED BY <1>1, <1>2, <1>4, <1>5, WriteKeeps

LEMMA ScalingKeeps == ASSUME AppInv, ~wmix.overlap, NEW q \in AppCallers, SetScaling(q) PROVE AppInv'
<1>1. PICK a : a = request[q].a
  OBVIOUS
<1>2. At(q, "write") /\ request[q].kind = "scale" /\ UNCHANGED <<shared, cluster, wmix, lagging>>
  BY DEF SetScaling, AtOne
<1>3. AppShape /\ a \in AppIds
  BY <1>1, <1>2, WriteFacts
<1>4. (UNCHANGED stored /\ Ended(q)) \/ (SyncThese(q, {a}) /\ \E row : SaveRow(a, row))
  BY <1>1 DEF SetScaling
<1>5. Storage(stored') /\ \A b \in AppIds : b # a => stored'[b] = stored[b]
  BY <1>3, <1>4, SavedRow DEF AppShape
<1>6. QED BY <1>1, <1>2, <1>4, <1>5, WriteKeeps

LEMMA VariableKeeps == ASSUME AppInv, ~wmix.overlap, NEW q \in AppCallers, SetVariable(q) PROVE AppInv'
<1>1. PICK a : a = request[q].a
  OBVIOUS
<1>2. /\ At(q, "write") /\ request[q].kind = "setVariable" /\ UNCHANGED <<shared, cluster, wmix>> /\ lagging \subseteq lagging'
      /\ stored' = [stored EXCEPT ![a].vars = PutVariable(stored[a].vars, request[q].change)]
      /\ SyncThese(q, {a}) \/ (Ended(q) /\ a \in lagging')
  BY <1>1 DEF SetVariable, AtOne
<1>3. AppShape /\ a \in AppIds
  BY <1>1, <1>2, WriteFacts
<1>4. Storage(stored') /\ \A b \in AppIds : b # a => stored'[b] = stored[b]
  BY <1>2, <1>3, Stored_vars DEF Changed
<1>5. QED BY <1>1, <1>2, <1>4, WriteKeeps

LEMMA NothingChanged ==
    ASSUME AppShape, NEW a \in AppIds, NEW n \in Columns, Changed(a, n, stored[a][n]) PROVE stored'[a] = stored[a]
BY DEF AppShape, Changed, Storage, IsApp

LEMMA VariableGoneKeeps == ASSUME AppInv, ~wmix.overlap, NEW q \in AppCallers, DeleteVariable(q) PROVE AppInv'
<1>1. PICK a, rows : a = request[q].a /\ rows = DropVariable(stored[a].vars, request[q].change)
  OBVIOUS
<1>2. /\ At(q, "write") /\ request[q].kind = "deleteVariable" /\ UNCHANGED <<shared, cluster, wmix, lagging>>
      /\ stored' = [stored EXCEPT ![a].vars = rows]
      /\ SyncThese(q, {a}) \/ (Ended(q) /\ rows = stored[a].vars)
  BY <1>1 DEF DeleteVariable, AtOne
<1>3. AppShape /\ a \in AppIds /\ "vars" \in Columns
  BY <1>1, <1>2, WriteFacts DEF Columns
<1>4. Changed(a, "vars", rows)
  BY <1>2, <1>3, Stored_vars
<1>5. Storage(stored') /\ \A b \in AppIds : b # a => stored'[b] = stored[b]
  BY <1>4 DEF Changed
<1>6. rows = stored[a].vars => stored'[a] = stored[a]
  BY <1>3, <1>4, NothingChanged
<1>7. SyncThese(q, {a}) \/ (Ended(q) /\ (stored'[a] = stored[a] \/ a \in lagging'))
  BY <1>2, <1>6
<1>8. At(q, "write") /\ request[q].kind # "deploy" /\ UNCHANGED <<shared, cluster, wmix>> /\ lagging \subseteq lagging'
  BY <1>2
<1>9. QED BY <1>1, <1>5, <1>7, <1>8, WriteKeeps

LEMMA DomainKeeps == ASSUME AppInv, ~wmix.overlap, NEW q \in AppCallers, AddDomain(q) PROVE AppInv'
<1>1. PICK a : a = request[q].a
  OBVIOUS
<1>2. /\ At(q, "write") /\ request[q].kind = "addDomain" /\ UNCHANGED <<shared, cluster, wmix, lagging>>
      /\ \/ UNCHANGED stored /\ Ended(q)
         \/ stored' = [stored EXCEPT ![a].domains = PutDomain(stored[a].domains, request[q].change)] /\ SyncThese(q, {a})
  BY <1>1 DEF AddDomain, AtOne
<1>3. AppShape /\ a \in AppIds
  BY <1>1, <1>2, WriteFacts
<1>4. Storage(stored') /\ \A b \in AppIds : b # a => stored'[b] = stored[b]
  <2>1. CASE UNCHANGED stored
    BY <1>3, <2>1 DEF AppShape
  <2>2. CASE stored' = [stored EXCEPT ![a].domains = PutDomain(stored[a].domains, request[q].change)]
    BY <1>3, <2>2, Stored_domains DEF Changed
  <2>3. QED BY <1>2, <2>1, <2>2
<1>5. QED BY <1>1, <1>2, <1>4, WriteKeeps

LEMMA DomainGoneKeeps == ASSUME AppInv, ~wmix.overlap, NEW q \in AppCallers, DeleteDomain(q) PROVE AppInv'
<1>1. PICK a, gone : a = request[q].a /\ gone = {d \in stored[a].domains : d.host = request[q].change /\ ~d.auto}
  OBVIOUS
<1>2. /\ At(q, "write") /\ request[q].kind = "deleteDomain" /\ UNCHANGED <<shared, cluster, wmix, lagging>>
      /\ stored' = [stored EXCEPT ![a].domains = DropDomain(stored[a].domains, gone)]
      /\ SyncThese(q, {a}) \/ (Ended(q) /\ gone = {})
  BY <1>1 DEF DeleteDomain, AtOne
<1>3. AppShape /\ a \in AppIds /\ "domains" \in Columns
  BY <1>1, <1>2, WriteFacts DEF Columns
<1>4. Changed(a, "domains", DropDomain(stored[a].domains, gone))
  BY <1>2, <1>3, Stored_domains
<1>5. Storage(stored') /\ \A b \in AppIds : b # a => stored'[b] = stored[b]
  BY <1>4 DEF Changed
<1>6. gone = {} => stored'[a] = stored[a]
  BY <1>3, <1>4, NothingChanged DEF DropDomain
<1>7. SyncThese(q, {a}) \/ (Ended(q) /\ (stored'[a] = stored[a] \/ a \in lagging'))
  BY <1>2, <1>6
<1>8. At(q, "write") /\ request[q].kind # "deploy" /\ UNCHANGED <<shared, cluster, wmix>> /\ lagging \subseteq lagging'
  BY <1>2
<1>9. QED BY <1>1, <1>5, <1>7, <1>8, WriteKeeps

LEMMA VolumeKeeps == ASSUME AppInv, ~wmix.overlap, NEW q \in AppCallers, CreateVolume(q) PROVE AppInv'
<1>1. PICK a : a = request[q].a
  OBVIOUS
<1>2. /\ At(q, "write") /\ request[q].kind = "createVolume" /\ UNCHANGED <<shared, cluster, wmix, lagging>>
      /\ \/ UNCHANGED stored /\ Ended(q)
         \/ stored' = [stored EXCEPT ![a].volumes = PutVolume(stored[a].volumes, request[q].change)] /\ SyncThese(q, {a})
  BY <1>1 DEF CreateVolume, AtOne
<1>3. AppShape /\ a \in AppIds
  BY <1>1, <1>2, WriteFacts
<1>4. Storage(stored') /\ \A b \in AppIds : b # a => stored'[b] = stored[b]
  BY <1>2, <1>3, Stored_volumes DEF Changed, AppShape
<1>5. QED BY <1>1, <1>2, <1>4, WriteKeeps

LEMMA VolumeGoneKeeps == ASSUME AppInv, ~wmix.overlap, NEW q \in AppCallers, DeleteVolume(q) PROVE AppInv'
<1>1. PICK a, rows : a = request[q].a /\ rows = DropVolume(stored[a].volumes, request[q].change)
  OBVIOUS
<1>2. /\ At(q, "write") /\ request[q].kind = "deleteVolume" /\ UNCHANGED <<shared, cluster, wmix>>
      /\ stored' = [stored EXCEPT ![a].volumes = rows] /\ lagging \subseteq lagging'
      /\ Ended(q) /\ (a \in lagging' \/ rows = stored[a].volumes)
  BY <1>1 DEF DeleteVolume, AtOne
<1>3. AppShape /\ a \in AppIds /\ "volumes" \in Columns
  BY <1>1, <1>2, WriteFacts DEF Columns
<1>4. Changed(a, "volumes", rows)
  BY <1>2, <1>3, Stored_volumes
<1>5. Storage(stored') /\ \A b \in AppIds : b # a => stored'[b] = stored[b]
  BY <1>4 DEF Changed
<1>6. rows = stored[a].volumes => stored'[a] = stored[a]
  BY <1>3, <1>4, NothingChanged
<1>7. SyncThese(q, {a}) \/ (Ended(q) /\ (stored'[a] = stored[a] \/ a \in lagging'))
  BY <1>2, <1>6
<1>8. At(q, "write") /\ request[q].kind # "deploy" /\ UNCHANGED <<shared, cluster, wmix>> /\ lagging \subseteq lagging'
  BY <1>2
<1>9. QED BY <1>1, <1>5, <1>7, <1>8, WriteKeeps

LEMMA JobKeeps == ASSUME AppInv, ~wmix.overlap, NEW q \in AppCallers, SetJob(q) PROVE AppInv'
<1>1. PICK a : a = request[q].a
  OBVIOUS
<1>2. /\ At(q, "write") /\ request[q].kind = "setJob" /\ UNCHANGED <<shared, cluster, wmix, lagging>>
      /\ \/ UNCHANGED stored /\ Ended(q)
         \/ stored' = [stored EXCEPT ![a].jobs = PutJob(stored[a].jobs, request[q].change)] /\ SyncThese(q, {a})
  BY <1>1 DEF SetJob, AtOne, SyncAfterJobChange
<1>3. AppShape /\ a \in AppIds
  BY <1>1, <1>2, WriteFacts
<1>4. Storage(stored') /\ \A b \in AppIds : b # a => stored'[b] = stored[b]
  BY <1>2, <1>3, Stored_jobs DEF Changed, AppShape
<1>5. QED BY <1>1, <1>2, <1>4, WriteKeeps

LEMMA JobGoneKeeps == ASSUME AppInv, ~wmix.overlap, NEW q \in AppCallers, DeleteJob(q) PROVE AppInv'
<1>1. PICK a, rows : a = request[q].a /\ rows = DropJob(stored[a].jobs, request[q].change)
  OBVIOUS
<1>2. /\ At(q, "write") /\ request[q].kind = "deleteJob" /\ UNCHANGED <<shared, cluster, wmix, lagging>>
      /\ stored' = [stored EXCEPT ![a].jobs = rows]
      /\ SyncThese(q, {a}) \/ (Ended(q) /\ rows = stored[a].jobs)
  BY <1>1 DEF DeleteJob, AtOne, SyncAfterJobChange
<1>3. AppShape /\ a \in AppIds /\ "jobs" \in Columns
  BY <1>1, <1>2, WriteFacts DEF Columns
<1>4. Changed(a, "jobs", rows)
  BY <1>2, <1>3, Stored_jobs
<1>5. Storage(stored') /\ \A b \in AppIds : b # a => stored'[b] = stored[b]
  BY <1>4 DEF Changed
<1>6. rows = stored[a].jobs => stored'[a] = stored[a]
  BY <1>3, <1>4, NothingChanged
<1>7. SyncThese(q, {a}) \/ (Ended(q) /\ (stored'[a] = stored[a] \/ a \in lagging'))
  BY <1>2, <1>6
<1>8. At(q, "write") /\ request[q].kind # "deploy" /\ UNCHANGED <<shared, cluster, wmix>> /\ lagging \subseteq lagging'
  BY <1>2
<1>9. QED BY <1>1, <1>5, <1>7, <1>8, WriteKeeps

LEMMA KeptFields ==
    ASSUME NEW q \in AppCallers, NEW S, Keeps(q, S)
    PROVE  /\ "a" \notin S => request'[q].a = request[q].a
           /\ "kind" \notin S => request'[q].kind = request[q].kind
           /\ "left" \notin S => request'[q].left = request[q].left
           /\ "row" \notin S => request'[q].row = request[q].row
           /\ "image" \notin S => request'[q].image = request[q].image
           /\ "spec" \notin S => request'[q].spec = request[q].spec
           /\ "values" \notin S => request'[q].values = request[q].values
<1>1. \A n \in Fields \ S : request'[q][n] = request[q][n]
  BY DEF Keeps
<1>2. {"a", "kind", "left", "row", "image", "spec", "values"} \subseteq Fields
  BY DEF Fields
<1>3. QED BY <1>1, <1>2

LEMMA BeginKeeps ==
    ASSUME AppInv, ~wmix.overlap, NEW q \in AppCallers, NEW kind, NEW a \in AppIds, NEW c, Begin(q, kind, a, c) PROVE AppInv'
<1>1. PICK x1, x2, x3, x4, x5 :
        /\ x1 = [NoRequest EXCEPT !.kind = kind] /\ x2 = [x1 EXCEPT !.at = "write"] /\ x3 = [x2 EXCEPT !.a = a]
        /\ x4 = [x3 EXCEPT !.row = stored[a].row] /\ x5 = [x4 EXCEPT !.change = c]
        /\ request' = [request EXCEPT ![q] = x5]
  BY DEF Begin
<1>2. Idle /\ (Exists(a) <=> kind # "create") /\ UNCHANGED <<stored, shared, cluster, lagging, wmix>> /\ AppShape /\ OthersShow({})
  BY DEF Begin, AppInv
<1>3. x1 = [kind |-> kind, at |-> "off", a |-> None, row |-> NoRow, change |-> None, image |-> None, spec |-> None,
            values |-> {}, left |-> {}]
  BY <1>1 DEF NoRequest
<1>4. x2 = [kind |-> kind, at |-> "write", a |-> None, row |-> NoRow, change |-> None, image |-> None, spec |-> None,
            values |-> {}, left |-> {}]
  <2>1. x2 = [[kind |-> kind, at |-> "off", a |-> None, row |-> NoRow, change |-> None, image |-> None, spec |-> None,
            values |-> {}, left |-> {}] EXCEPT !.at = "write"]
    BY <1>1, <1>3
  <2>2. QED BY ONLY <2>1
<1>5. x3 = [kind |-> kind, at |-> "write", a |-> a, row |-> NoRow, change |-> None, image |-> None, spec |-> None,
            values |-> {}, left |-> {}]
  <2>1. x3 = [[kind |-> kind, at |-> "write", a |-> None, row |-> NoRow, change |-> None, image |-> None, spec |-> None,
            values |-> {}, left |-> {}] EXCEPT !.a = a]
    BY <1>1, <1>4
  <2>2. QED BY ONLY <2>1
<1>6. x4 = [kind |-> kind, at |-> "write", a |-> a, row |-> stored[a].row, change |-> None, image |-> None, spec |-> None,
            values |-> {}, left |-> {}]
  <2>1. x4 = [[kind |-> kind, at |-> "write", a |-> a, row |-> NoRow, change |-> None, image |-> None, spec |-> None,
            values |-> {}, left |-> {}] EXCEPT !.row = stored[a].row]
    BY <1>1, <1>5
  <2>2. QED BY ONLY <2>1
<1>7. x5 = [kind |-> kind, at |-> "write", a |-> a, row |-> stored[a].row, change |-> c, image |-> None, spec |-> None,
            values |-> {}, left |-> {}]
  <2>1. x5 = [[kind |-> kind, at |-> "write", a |-> a, row |-> stored[a].row, change |-> None, image |-> None, spec |-> None,
            values |-> {}, left |-> {}] EXCEPT !.change = c]
    BY <1>1, <1>6
  <2>2. QED BY ONLY <2>1
<1>8. IsReq(x5)
  BY <1>7 DEF IsReq, Fields
<1>9. Alone(q) /\ request'[q] = x5
  BY <1>1, <1>2, <1>8 DEF AppShape, Requests, Alone
<1>10. ASSUME NEW b \in AppIds PROVE Fine(b)'
  <2>1. Fine(b)
    BY <1>2 DEF OthersShow
  <2>2. QED BY <1>2, <2>1, FineStays
<1>11. OthersShow({})'
  BY <1>10 DEF OthersShow
<1>12. /\ request'[q].at = "write" /\ request'[q].a = a /\ request'[q].row = stored'[a].row /\ request'[q].left = {}
       /\ request'[q].kind = kind
  BY <1>2, <1>7, <1>9
<1>13. Exists(a)' <=> kind # "create"
  BY <1>2 DEF Exists
<1>14. Stands(q)'
  BY <1>11, <1>12, <1>13 DEF Stands
<1>15. QED BY <1>2, <1>9, <1>12, <1>14, SerialStep DEF AppShape

LEMMA CreateKeeps == ASSUME AppInv, ~wmix.overlap, NEW q \in AppCallers, CreateApp(q) PROVE AppInv'
<1>1. PICK a, row, x, y : /\ a = request[q].a /\ row = NewApp(request[q].change.port) /\ x = [NoApp EXCEPT !.on = TRUE]
                          /\ y = [x EXCEPT !.row = row] /\ stored' = [stored EXCEPT ![a] = y]
  BY DEF CreateApp
<1>2. At(q, "write") /\ To(q, "variables") /\ UNCHANGED <<shared, cluster, lagging, wmix>>
  BY DEF CreateApp, AtOne
<1>3. AppShape /\ OthersShow({}) /\ a \in AppIds /\ request[q].left = {}
  BY <1>1, <1>2, WriteFacts
<1>4. x = [on |-> TRUE, row |-> NoRow, vars |-> {}, domains |-> {}, volumes |-> {}, jobs |-> {}, last |-> None]
  BY <1>1 DEF NoApp
<1>5. y = [on |-> TRUE, row |-> row, vars |-> {}, domains |-> {}, volumes |-> {}, jobs |-> {}, last |-> None]
  <2>1. y = [[on |-> TRUE, row |-> NoRow, vars |-> {}, domains |-> {}, volumes |-> {}, jobs |-> {}, last |-> None]
               EXCEPT !.row = row]
    BY <1>1, <1>4
  <2>2. QED BY ONLY <2>1
<1>6. IsApp(y)
  BY <1>5 DEF IsApp, Columns
<1>7. Storage(stored') /\ (\A b \in AppIds : b # a => stored'[b] = stored[b]) /\ stored'[a].last = None
  <2>1. Storage(stored') /\ (\A b \in AppIds : b # a => stored'[b] = stored[b]) /\ stored'[a] = y
    BY <1>1, <1>3, <1>6 DEF AppShape, Storage
  <2>2. y.last = None
    BY <1>5
  <2>3. QED BY <2>1, <2>2
<1>8. Alone(q) /\ request'[q].at = "variables" /\ request'[q].a = a /\ request'[q].left = {}
  BY <1>1, <1>2, <1>3, ToIs, KeptFields
<1>9. ASSUME NEW b \in AppIds PROVE Fine(b)'
  <2>1. CASE b = a
    BY <1>7, <2>1 DEF Fine
  <2>2. CASE b # a
    <3>1. Fine(b)
      BY <1>3 DEF OthersShow
    <3>2. QED BY <1>2, <1>7, <2>2, <3>1, FineStays
  <2>3. QED BY <2>1, <2>2
<1>10. OthersShow({})'
  BY <1>9 DEF OthersShow
<1>11. Stands(q)'
  BY <1>3, <1>7, <1>8, <1>10 DEF Stands
<1>12. QED BY <1>2, <1>3, <1>7, <1>8, <1>11, SerialStep DEF AppShape, At

LEMMA InitialKeeps == ASSUME AppInv, ~wmix.overlap, NEW q \in AppCallers, NEW usable, SetInitialVariables(q, usable) PROVE AppInv'
<1>1. PICK a : a = request[q].a
  OBVIOUS
<1>2. /\ request[q].at = "variables" /\ Ended(q) /\ UNCHANGED <<shared, cluster, lagging, wmix>>
      /\ UNCHANGED stored \/ stored' = [stored EXCEPT ![a].vars = request[q].change.vars]
  BY <1>1 DEF SetInitialVariables, At
<1>3. AppShape /\ OthersShow({}) /\ a \in AppIds /\ stored[a].last = None
  BY <1>1, <1>2 DEF AppInv, Stands
<1>4. Storage(stored') /\ (\A b \in AppIds : b # a => stored'[b] = stored[b]) /\ stored'[a]["last"] = None
  <2>1. CASE UNCHANGED stored
    BY <1>3, <2>1 DEF AppShape
  <2>2. CASE stored' = [stored EXCEPT ![a].vars = request[q].change.vars]
    <3>1. Changed(a, "vars", request[q].change.vars)
      BY <1>3, <2>2, Stored_vars
    <3>2. "last" \in Columns
      BY DEF Columns
    <3>3. stored'[a]["last"] = stored[a]["last"]
      BY <3>1, <3>2 DEF Changed
    <3>4. Storage(stored') /\ (\A b \in AppIds : b # a => stored'[b] = stored[b])
      BY <3>1 DEF Changed
    <3>5. QED BY <1>3, <3>3, <3>4
  <2>3. QED BY <1>2, <2>1, <2>2
<1>5. Alone(q) /\ request'[q].at = "off" /\ request'[q].left = {}
  BY <1>2, <1>3, EndedIs
<1>6. ASSUME NEW b \in AppIds PROVE Fine(b)'
  <2>1. CASE b = a
    BY <1>4, <2>1 DEF Fine
  <2>2. CASE b # a
    <3>1. Fine(b)
      BY <1>3 DEF OthersShow
    <3>2. QED BY <1>2, <1>4, <2>2, <3>1, FineStays
  <2>3. QED BY <2>1, <2>2
<1>7. OthersShow({})'
  BY <1>6 DEF OthersShow
<1>8. Stands(q)'
  BY <1>5 DEF Stands
<1>9. QED BY <1>2, <1>3, <1>4, <1>5, <1>7, <1>8, SerialStep DEF AppShape, At

\* Requests that touch no app's rows, and own up to the apps they leave behind.
LEMMA ElsewhereKeeps ==
    ASSUME AppInv, ~wmix.overlap, NEW q \in AppCallers, At(q, "write"), request[q].kind # "deploy",
           UNCHANGED <<stored, wmix>>, Clusters(cluster'), Ended(q) \/ SyncThese(q, {}),
           \A b \in AppIds : \/ Exists(b) => b \in lagging'
                             \/ /\ UNCHANGED shared /\ (b \notin lagging' => b \notin lagging)
                                /\ cluster'[b].objects = cluster[b].objects /\ cluster'[b].claims = cluster[b].claims
                                /\ cluster'[b].crons = cluster[b].crons
    PROVE  AppInv'
<1>1. AppShape /\ OthersShow({})
  BY WriteFacts
<1>2. ASSUME NEW b \in AppIds PROVE Fine(b)'
  <2>1. Fine(b)
    BY <1>1 DEF OthersShow
  <2>2. CASE Exists(b) => b \in lagging'
    BY <2>2 DEF Fine, Exists
  <2>3. CASE ~(Exists(b) => b \in lagging')
    <3>1. /\ UNCHANGED shared /\ stored'[b] = stored[b] /\ (b \notin lagging' => b \notin lagging)
          /\ cluster'[b].objects = cluster[b].objects /\ cluster'[b].claims = cluster[b].claims
          /\ cluster'[b].crons = cluster[b].crons
      BY <2>3
    <3>2. QED BY <2>1, <3>1, FineStays
  <2>4. QED BY <2>2, <2>3
<1>3. OthersShow({})'
  BY <1>2 DEF OthersShow
<1>4. Alone(q) /\ (request'[q].at = "off" \/ (request'[q].at = "sync" /\ request'[q].kind # "deploy")) /\ request'[q].left = {}
  BY <1>1, EndedIs, SyncTheseIs
<1>5. OthersShow(request[q].left)'
  BY <1>2 DEF OthersShow
<1>6. Stands(q)'
  BY <1>4, <1>5 DEF Stands
<1>7. QED BY <1>1, <1>3, <1>4, <1>6, SerialStep DEF AppShape, At

LEMMA SharedKeeps ==
    ASSUME AppInv, ~wmix.overlap, NEW q \in AppCallers, SetSharedVariable(q) \/ DeleteSharedVariable(q) PROVE AppInv'
<1>1. /\ At(q, "write") /\ request[q].kind # "deploy" /\ UNCHANGED <<stored, cluster, wmix>>
      /\ Ended(q) \/ SyncThese(q, {})
      /\ lagging' = IF shared' = shared THEN lagging ELSE lagging \cup {a \in AppIds : Exists(a)}
  BY DEF SetSharedVariable, DeleteSharedVariable, AtOne, SharedLag, ListAppsForProject
<1>2. Clusters(cluster')
  BY <1>1, WriteFacts DEF AppShape
<1>3. QED BY <1>1, <1>2, ElsewhereKeeps

LEMMA SettingsKeep == ASSUME AppInv, ~wmix.overlap, NEW q \in AppCallers, ChangeSettings(q) PROVE AppInv'
<1>1. /\ At(q, "write") /\ request[q].kind # "deploy" /\ UNCHANGED <<stored, cluster, shared, wmix>> /\ Ended(q)
      /\ lagging' = lagging \/ lagging' = AppIds
  BY DEF ChangeSettings, AtOne
<1>2. Clusters(cluster')
  BY <1>1, WriteFacts DEF AppShape
<1>3. QED BY <1>1, <1>2, ElsewhereKeeps

LEMMA ClusterOf ==
    ASSUME AppShape, NEW a \in AppIds, NEW c, InShape(c), cluster' = [cluster EXCEPT ![a] = c]
    PROVE  Clusters(cluster') /\ cluster'[a] = c /\ \A b \in AppIds : b # a => cluster'[b] = cluster[b]
BY DEF AppShape, Clusters

LEMMA RunKeeps == ASSUME AppInv, ~wmix.overlap, NEW q \in AppCallers, RunOnce(q) PROVE AppInv'
<1>1. PICK a, runs : /\ a = request[q].a /\ runs = cluster[a].runs \cup {BuildRunJob(s, "once") : s \in RunSpecFor(a)}
                     /\ cluster' = [cluster EXCEPT ![a].runs = runs]
  BY DEF RunOnce
<1>2. At(q, "write") /\ request[q].kind # "deploy" /\ UNCHANGED <<stored, lagging, shared, wmix>> /\ Ended(q)
  BY DEF RunOnce, AtOne
<1>3. AppShape /\ a \in AppIds
  BY <1>1, <1>2, WriteFacts
<1>4. PICK c : c = [cluster[a] EXCEPT !.runs = runs]
  OBVIOUS
<1>5. c = [objects |-> cluster[a].objects, claims |-> cluster[a].claims, crons |-> cluster[a].crons, runs |-> runs]
      /\ InShape(cluster[a])
  BY <1>3, <1>4 DEF AppShape, Clusters, InShape
<1>6. InShape(c) /\ c.objects = cluster[a].objects /\ c.claims = cluster[a].claims /\ c.crons = cluster[a].crons
  BY <1>5 DEF InShape
<1>7. cluster' = [cluster EXCEPT ![a] = c]
  BY <1>1, <1>3, <1>4 DEF AppShape, Clusters
<1>8. Clusters(cluster') /\ cluster'[a] = c /\ \A b \in AppIds : b # a => cluster'[b] = cluster[b]
  BY <1>3, <1>6, <1>7, ClusterOf
<1>9. QED BY <1>2, <1>6, <1>8, ElsewhereKeeps

LEMMA DeletedShape == ASSUME NEW c, InShape(c), NEW n PROVE InShape(DeleteApp(c, n))
<1>1. PICK left : left = [c EXCEPT !.objects = [k \in Kinds |-> IF \E i \in 1..n : DeleteOrder[i] = k THEN NoObject ELSE c.objects[k]]]
  OBVIOUS
<1>2. InShape(left)
  BY <1>1 DEF InShape
<1>3. PICK d, e : d = [left EXCEPT !.crons = {}] /\ e = [d EXCEPT !.runs = {}] /\ DeleteApp(c, n) \in {left, e}
  BY <1>1 DEF DeleteApp, DeleteRuns
<1>4. InShape(d)
  BY <1>2, <1>3 DEF InShape
<1>5. InShape(e)
  BY <1>3, <1>4 DEF InShape
<1>6. QED BY <1>2, <1>3, <1>5

LEMMA DeleteKeeps == ASSUME AppInv, ~wmix.overlap, NEW q \in AppCallers, NEW n, DeleteAppObjects(q, n) PROVE AppInv'
<1>1. PICK a, c : a = request[q].a /\ c = DeleteApp(cluster[a], n) /\ cluster' = [cluster EXCEPT ![a] = c]
  BY DEF DeleteAppObjects
<1>2. At(q, "write") /\ UNCHANGED <<stored, lagging, shared, wmix>> /\ To(q, "row")
  BY DEF DeleteAppObjects, AtOne
<1>3. AppShape /\ a \in AppIds /\ OthersShow({}) /\ request[q].left = {}
  BY <1>1, <1>2, WriteFacts
<1>4. InShape(c)
  BY <1>1, <1>3, DeletedShape DEF AppShape, Clusters
<1>5. Clusters(cluster') /\ \A b \in AppIds : b # a => cluster'[b] = cluster[b]
  BY <1>1, <1>3, <1>4, ClusterOf
<1>6. Alone(q) /\ request'[q].at = "row" /\ request'[q].a = a /\ request'[q].left = {}
  BY <1>1, <1>2, <1>3, ToIs, KeptFields
<1>7. ASSUME NEW b \in AppIds \ {request'[q].a} PROVE Fine(b)'
  <2>1. Fine(b)
    BY <1>3 DEF OthersShow
  <2>2. QED BY <1>2, <1>5, <1>6, <2>1, FineStays
<1>8. OthersShow({request[q].a})'
  BY <1>7 DEF OthersShow
<1>9. Stands(q)'
  BY <1>3, <1>6, <1>8 DEF Stands
<1>10. QED BY <1>2, <1>3, <1>5, <1>6, <1>9, SerialStep DEF AppShape, At

LEMMA RowGoneKeeps == ASSUME AppInv, ~wmix.overlap, NEW q \in AppCallers, DeleteAppRow(q) PROVE AppInv'
<1>1. PICK a : a = request[q].a
  OBVIOUS
<1>2. request[q].at = "row" /\ stored' = [stored EXCEPT ![a] = NoApp] /\ Ended(q) /\ UNCHANGED <<shared, cluster, lagging, wmix>>
  BY <1>1 DEF DeleteAppRow, At, DropApp
<1>3. AppShape /\ a \in AppIds /\ OthersShow({request[q].a})
  BY <1>1, <1>2 DEF AppInv, Stands
<1>4. IsApp(NoApp) /\ NoApp.last = None
  BY DEF IsApp, NoApp, Columns
<1>5. Storage(stored') /\ (\A b \in AppIds : b # a => stored'[b] = stored[b]) /\ stored'[a].last = None
  BY <1>2, <1>3, <1>4 DEF AppShape, Storage
<1>6. Alone(q) /\ request'[q].at = "off" /\ request'[q].left = {}
  BY <1>2, <1>3, EndedIs
<1>7. ASSUME NEW b \in AppIds PROVE Fine(b)'
  <2>1. CASE b = a
    BY <1>5, <2>1 DEF Fine
  <2>2. CASE b # a
    <3>1. Fine(b)
      BY <1>1, <1>3, <2>2 DEF OthersShow
    <3>2. QED BY <1>2, <1>5, <2>2, <3>1, FineStays
  <2>3. QED BY <2>1, <2>2
<1>8. OthersShow({})'
  BY <1>7 DEF OthersShow
<1>9. Stands(q)'
  BY <1>6 DEF Stands
<1>10. QED BY <1>2, <1>3, <1>5, <1>6, <1>8, <1>9, SerialStep DEF AppShape, At

-----------------------------------------------------------------------------
(* Sync and a deployment's own apply.                                      *)

Applying == {"domain", "read", "apply", "jobs", "remove", "rollout"}

LEMMA BringFacts ==
    ASSUME AppInv, ~wmix.overlap, NEW q \in AppCallers, request[q].at \in Applying
    PROVE  /\ AppShape /\ Bringing(q) /\ request[q].left \subseteq AppIds /\ request[q].a \in AppIds /\ ~At(q, "off")
           /\ OthersShow(request[q].left \cup {request[q].a})
           /\ request[q].kind = "deploy" => request[q].left = {}
BY DEF AppInv, Stands, Applying, Bringing, At

\* The step that leaves an app, brought or given up.
LEMMA LeaveKeeps ==
    ASSUME AppInv, ~wmix.overlap, NEW q \in AppCallers, request[q].at \in Applying, UNCHANGED <<shared, wmix>>,
           Storage(stored'), Clusters(cluster'), NEW a, a = request[q].a,
           \A b \in AppIds : b # a => stored'[b] = stored[b] /\ cluster'[b] = cluster[b],
           lagging \subseteq lagging', Fine(a)', IF request[q].kind = "deploy" THEN Ended(q) ELSE To(q, "sync")
    PROVE  AppInv'
<1>1. /\ AppShape /\ OthersShow(request[q].left \cup {a}) /\ request[q].left \subseteq AppIds /\ ~At(q, "off")
      /\ request[q].kind = "deploy" => request[q].left = {}
  BY BringFacts
<1>2. ASSUME NEW b \in AppIds \ request[q].left PROVE Fine(b)'
  <2>1. CASE b = a
    BY <2>1
  <2>2. CASE b # a
    <3>1. Fine(b)
      BY <1>1, <2>2 DEF OthersShow
    <3>2. QED BY <2>2, <3>1, FineStays
  <2>3. QED BY <2>1, <2>2
<1>3. CASE request[q].kind = "deploy"
  <2>1. Alone(q) /\ request'[q].at = "off" /\ request'[q].left = {}
    BY <1>1, <1>3, EndedIs
  <2>2. \A b \in AppIds : Fine(b)'
    BY <1>1, <1>2, <1>3
  <2>3. OthersShow({})'
    BY <2>2 DEF OthersShow
  <2>4. Stands(q)'
    BY <2>1 DEF Stands
  <2>5. QED BY <1>1, <2>1, <2>3, <2>4, SerialStep
<1>4. CASE request[q].kind # "deploy"
  <2>1. Alone(q) /\ request'[q].at = "sync" /\ request'[q].left = request[q].left /\ request'[q].kind = request[q].kind
    BY <1>1, <1>4, ToIs, KeptFields
  <2>2. \A b \in AppIds \ request'[q].left : Fine(b)'
    BY <1>2, <2>1
  <2>3. OthersShow(request[q].left)'
    BY <2>2 DEF OthersShow
  <2>4. Stands(q)'
    BY <1>1, <1>4, <2>1, <2>3 DEF Stands
  <2>5. QED BY <1>1, <2>1, <2>4, SerialStep
<1>5. QED BY <1>3, <1>4

\* An app given up is one that lags.
LEMMA MissKeeps ==
    ASSUME AppInv, ~wmix.overlap, NEW q \in AppCallers, request[q].at \in Applying, UNCHANGED <<stored, shared, wmix>>,
           Clusters(cluster'), \A b \in AppIds : b # request[q].a => cluster'[b] = cluster[b],
           Missed(q), IF Apart(q) = "off" THEN Ended(q) ELSE To(q, "sync")
    PROVE  AppInv'
<1>1. PICK a : a = request[q].a
  OBVIOUS
<1>2. lagging \subseteq lagging' /\ a \in lagging'
  BY <1>1 DEF Missed
<1>3. Fine(a)'
  BY <1>2 DEF Fine
<1>4. IF request[q].kind = "deploy" THEN Ended(q) ELSE To(q, "sync")
  BY DEF Apart
<1>5. AppShape
  BY BringFacts
<1>6. Storage(stored')
  BY <1>5 DEF AppShape
<1>7. QED BY <1>1, <1>2, <1>3, <1>4, <1>6, LeaveKeeps

\* The step that goes on with it.
LEMMA GoOnKeeps ==
    ASSUME AppInv, ~wmix.overlap, NEW q \in AppCallers, request[q].at \in Applying, UNCHANGED <<shared, wmix>>,
           Storage(stored'), Clusters(cluster'), NEW a, a = request[q].a,
           \A b \in AppIds : b # a => stored'[b] = stored[b] /\ cluster'[b] = cluster[b],
           stored'[a].on = stored[a].on, stored'[a].row = stored[a].row, stored'[a].last = stored[a].last,
           lagging \subseteq lagging', Alone(q), request'[q].at \in Applying,
           request'[q].a = a, request'[q].kind = request[q].kind, request'[q].left = request[q].left,
           request'[q].row = request[q].row, request'[q].image = request[q].image, Phase(q)'
    PROVE  AppInv'
<1>1. /\ AppShape /\ OthersShow(request[q].left \cup {a}) /\ request[q].left \subseteq AppIds /\ ~At(q, "off") /\ Bringing(q)
      /\ request[q].kind = "deploy" => request[q].left = {}
  BY BringFacts
<1>2. \A b \in AppIds \ (request'[q].left \cup {request'[q].a}) : Fine(b)'
  <2>1. ASSUME NEW b \in AppIds \ (request[q].left \cup {a}) PROVE Fine(b)'
    <3>1. Fine(b)
      BY <1>1, <2>1 DEF OthersShow
    <3>2. QED BY <2>1, <3>1, FineStays
  <2>2. QED BY <2>1
<1>3. OthersShow(request[q].left \cup {request[q].a})'
  BY <1>2 DEF OthersShow
<1>4. Bringing(q)'
  BY <1>1, <1>3 DEF Bringing, Exists
<1>5. Stands(q)'
  BY <1>1, <1>4 DEF Stands, Applying
<1>6. QED BY <1>1, <1>5, SerialStep DEF Applying

\* What a request means stays what it is when neither the app's rows nor what it has read changes.
LEMMA MeaningStays ==
    ASSUME NEW q \in AppCallers, UNCHANGED <<stored, shared>>, Alone(q), Keeps(q, {"at"})
    PROVE  /\ Meant(q)' = Meant(q) /\ RuntimeVariables(request[q].a)' = RuntimeVariables(request[q].a)
           /\ request'[q].a = request[q].a /\ request'[q].spec = request[q].spec /\ request'[q].values = request[q].values
           /\ request'[q].kind = request[q].kind /\ request'[q].left = request[q].left
           /\ request'[q].row = request[q].row /\ request'[q].image = request[q].image
<1>1. /\ request'[q].a = request[q].a /\ request'[q].spec = request[q].spec /\ request'[q].values = request[q].values
      /\ request'[q].kind = request[q].kind /\ request'[q].left = request[q].left
      /\ request'[q].row = request[q].row /\ request'[q].image = request[q].image
  BY KeptFields
<1>2. Meant(q)' = Meant(q) /\ RuntimeVariables(request[q].a)' = RuntimeVariables(request[q].a)
  BY <1>1 DEF Meant, SpecFor, RuntimeVariables
<1>3. QED BY <1>1, <1>2

\* What is to be shown of a request that goes on.
LEMMA PhaseIs ==
    ASSUME NEW q \in AppCallers, UNCHANGED <<stored, shared>>, NEW a, a = request[q].a, NEW s, s = Meant(q),
           NEW values, values = RuntimeVariables(a), request'[q].a = a, request'[q].image = request[q].image,
           request'[q].spec = s, request'[q].values = values,
           request'[q].at \in {"jobs", "remove"} => Holds(cluster'[a], s, values),
           request'[q].at = "remove" => a \in lagging' \/ cluster'[a].crons = CronsOf(s, stored[a].jobs),
           request'[q].at = "rollout" => a \in lagging' \/ ShowsIt(cluster'[a], s, stored[a].jobs, values)
    PROVE  Phase(q)'
<1>1. Meant(q)' = s
  BY DEF Meant, SpecFor
<1>2. RuntimeVariables(request[q].a)' = values
  BY DEF RuntimeVariables
<1>3. stored'[request'[q].a].jobs = stored[a].jobs /\ cluster'[request'[q].a] = cluster'[a]
  OBVIOUS
<1>4. QED BY <1>1, <1>2, <1>3 DEF Phase

LEMMA ReadKeeps == ASSUME AppInv, ~wmix.overlap, NEW q \in AppCallers, ReadSpec(q) PROVE AppInv'
<1>1. PICK a, spec : a = request[q].a /\ spec = SpecFor(a, request[q].row, request[q].image)
  OBVIOUS
<1>2. request[q].at = "read" /\ request[q].at \in Applying /\ UNCHANGED <<stored, shared, cluster, wmix>>
  BY DEF ReadSpec, At, Applying
<1>3. AppShape /\ Bringing(q) /\ a \in AppIds
  BY <1>1, <1>2, BringFacts
<1>4. Storage(stored') /\ Clusters(cluster')
  BY <1>2, <1>3 DEF AppShape
<1>5. CASE SpecIsValid(spec) /\ Exists(a)
  <2>1. PICK f, g, h : /\ f = [request EXCEPT ![q].at = "apply"] /\ g = [f EXCEPT ![q].spec = spec]
                       /\ h = [g EXCEPT ![q].values = RuntimeVariables(a)] /\ request' = h /\ UNCHANGED lagging
    BY <1>1, <1>5 DEF ReadSpec
  <2>2. Requests(request)
    BY <1>3 DEF AppShape
  <2>3. Sets(request, f, q, "at", "apply")
    BY <2>1, <2>2, Set_at
  <2>4. Requests(f)
    BY <2>3 DEF Sets
  <2>5. Sets(f, g, q, "spec", spec)
    BY <2>1, <2>4, Set_spec
  <2>6. Requests(g)
    BY <2>5 DEF Sets
  <2>7. Sets(g, h, q, "values", RuntimeVariables(a))
    BY <2>1, <2>6, Set_values
  <2>8. Alone(q)
    BY <2>1, <2>3, <2>5, <2>7 DEF Alone, Sets
  <2>9. {"a", "kind", "left", "row", "image", "at", "spec", "values"} \subseteq Fields
    BY DEF Fields
  <2>10. \A m \in Fields \ {"at", "spec", "values"} : request'[q][m] = request[q][m]
    <3>1. \A m \in Fields \ {"at", "spec", "values"} : f[q][m] = request[q][m] /\ g[q][m] = f[q][m] /\ h[q][m] = g[q][m]
      BY <2>3, <2>5, <2>7 DEF Sets
    <3>2. QED BY <2>1, <3>1
  <2>11. Keeps(q, {"at", "spec", "values"})
    BY <2>10 DEF Keeps
  <2>12. request'[q]["at"] = "apply" /\ request'[q]["spec"] = spec /\ request'[q]["values"] = RuntimeVariables(a)
    <3>1. f[q]["at"] = "apply" /\ g[q]["at"] = f[q]["at"] /\ h[q]["at"] = g[q]["at"]
      BY <2>3, <2>5, <2>7, <2>9 DEF Sets
    <3>2. g[q]["spec"] = spec /\ h[q]["spec"] = g[q]["spec"] /\ h[q]["values"] = RuntimeVariables(a)
      BY <2>5, <2>7, <2>9 DEF Sets
    <3>3. QED BY <2>1, <3>1, <3>2
  <2>13. /\ request'[q].a = a /\ request'[q].kind = request[q].kind /\ request'[q].left = request[q].left
         /\ request'[q].row = request[q].row /\ request'[q].image = request[q].image
    BY <1>1, <2>11, KeptFields
  <2>14. Meant(q) = spec
    BY <1>1, <1>3 DEF Bringing, Meant
  <2>15. request'[q].at = "apply" /\ request'[q].spec = spec /\ request'[q].values = RuntimeVariables(a)
    BY <2>12
  <2>16. Phase(q)'
    BY <1>1, <1>2, <2>13, <2>14, <2>15, PhaseIs
  <2>17. request'[q].at \in Applying
    BY <2>15 DEF Applying
  <2>18. QED BY <1>1, <1>2, <1>4, <2>1, <2>8, <2>13, <2>16, <2>17, GoOnKeeps
<1>6. CASE ~(SpecIsValid(spec) /\ Exists(a))
  <2>1. Missed(q) /\ IF Apart(q) = "off" THEN Ended(q) ELSE To(q, "sync")
    BY <1>1, <1>6 DEF ReadSpec
  <2>2. QED BY <1>2, <1>4, <2>1, MissKeeps
<1>7. QED BY <1>5, <1>6

LEMMA ObjectsKeep == ASSUME AppInv, ~wmix.overlap, NEW q \in AppCallers, NEW n, ApplyObjects(q, n) PROVE AppInv'
<1>1. PICK a, c : /\ a = request[q].a /\ c = ApplyAll(cluster[a], request[q].spec, request[q].values, n)
                  /\ cluster' = [cluster EXCEPT ![a] = c]
  BY DEF ApplyObjects
<1>2. request[q].at = "apply" /\ request[q].at \in Applying /\ UNCHANGED <<stored, shared, wmix>>
  BY DEF ApplyObjects, At, Applying
<1>3. AppShape /\ a \in AppIds /\ Bringing(q)
  BY <1>1, <1>2, BringFacts
<1>4. InShape(cluster[a]) /\ request[q].spec = Meant(q) /\ request[q].values = RuntimeVariables(a)
  BY <1>1, <1>2, <1>3 DEF AppShape, Clusters, Bringing, Phase
<1>5. InShape(c) /\ (n = Len(ApplyOrder) => Holds(c, Meant(q), RuntimeVariables(a)))
  BY <1>1, <1>4, ApplyBrings
<1>6. Clusters(cluster') /\ cluster'[a] = c /\ (\A b \in AppIds : b # a => cluster'[b] = cluster[b]) /\ Storage(stored')
  BY <1>1, <1>2, <1>3, <1>5, ClusterOf DEF AppShape
<1>7. CASE n = Len(ApplyOrder)
  <2>1. To(q, "jobs") /\ UNCHANGED lagging
    BY <1>7 DEF ApplyObjects
  <2>2. Alone(q) /\ request'[q].at = "jobs" /\ Keeps(q, {"at"})
    BY <1>3, <2>1, ToIs
  <2>3. /\ Meant(q)' = Meant(q) /\ RuntimeVariables(request[q].a)' = RuntimeVariables(request[q].a)
        /\ request'[q].a = request[q].a /\ request'[q].spec = request[q].spec /\ request'[q].values = request[q].values
        /\ request'[q].kind = request[q].kind /\ request'[q].left = request[q].left
        /\ request'[q].row = request[q].row /\ request'[q].image = request[q].image
    BY <1>2, <2>2, MeaningStays
  <2>4. Phase(q)'
    BY <1>1, <1>2, <1>4, <1>5, <1>6, <1>7, <2>2, <2>3, PhaseIs
  <2>5. QED BY <1>1, <1>2, <1>6, <2>1, <2>2, <2>3, <2>4, GoOnKeeps DEF Applying
<1>8. CASE n # Len(ApplyOrder)
  <2>1. Missed(q) /\ IF Apart(q) = "off" THEN Ended(q) ELSE To(q, "sync")
    BY <1>8 DEF ApplyObjects
  <2>2. \A b \in AppIds : b # request[q].a => cluster'[b] = cluster[b]
    BY <1>1, <1>6
  <2>3. QED BY <1>2, <1>6, <2>1, <2>2, MissKeeps
<1>9. QED BY <1>7, <1>8

LEMMA JobsStepKeeps ==
    ASSUME AppInv, ~wmix.overlap, NEW q \in AppCallers, NEW refused, NEW listed \in BOOLEAN, ApplyJobs(q, refused, listed) PROVE AppInv'
<1>1. PICK a, jobs, s, c :
        /\ a = request[q].a /\ jobs = stored[a].jobs /\ s = request[q].spec
        /\ c = IF listed THEN ApplyScheduledJobs(cluster[a], s, jobs, refused)
               ELSE [cluster[a] EXCEPT !.crons = ApplyScheduledCommands(cluster[a], s, jobs, refused)]
        /\ cluster' = [cluster EXCEPT ![a] = c]
  BY DEF ApplyJobs
<1>2. /\ request[q].at = "jobs" /\ request[q].at \in Applying /\ UNCHANGED <<stored, shared, wmix>> /\ To(q, "remove")
      /\ lagging' = lagging \/ lagging' = lagging \cup {request[q].a}
      /\ (refused = {} /\ listed) \/ request[q].a \in lagging'
  BY DEF ApplyJobs, At, Applying, Missed
<1>3. AppShape /\ a \in AppIds /\ Bringing(q)
  BY <1>1, <1>2, BringFacts
<1>4. PICK values : values = RuntimeVariables(a)
  OBVIOUS
<1>5. InShape(cluster[a]) /\ s = Meant(q) /\ request[q].values = values /\ Holds(cluster[a], s, values)
  BY <1>1, <1>2, <1>3, <1>4 DEF AppShape, Clusters, Bringing, Phase
<1>6. InShape(c) /\ c.objects = cluster[a].objects /\ c.claims = cluster[a].claims
  BY <1>1, <1>5, JobsKeep
<1>7. refused = {} /\ listed => c.crons = CronsOf(s, jobs)
  BY <1>1, <1>5, JobsAreThose
<1>8. Holds(c, s, values)
  BY <1>5, <1>6 DEF Holds, SecretGives, HeldValues
<1>9. Clusters(cluster') /\ cluster'[a] = c /\ (\A b \in AppIds : b # a => cluster'[b] = cluster[b]) /\ Storage(stored')
  <2>1. cluster' = [cluster EXCEPT ![a] = c]
    BY <1>1
  <2>2. Clusters(cluster') /\ cluster'[a] = c /\ \A b \in AppIds : b # a => cluster'[b] = cluster[b]
    BY <1>3, <1>6, <2>1, ClusterOf
  <2>3. QED BY <1>2, <1>3, <2>2 DEF AppShape
<1>10. Alone(q) /\ request'[q].at = "remove" /\ Keeps(q, {"at"})
  BY <1>2, <1>3, ToIs
<1>11. /\ Meant(q)' = Meant(q) /\ RuntimeVariables(request[q].a)' = RuntimeVariables(request[q].a)
       /\ request'[q].a = request[q].a /\ request'[q].spec = request[q].spec /\ request'[q].values = request[q].values
       /\ request'[q].kind = request[q].kind /\ request'[q].left = request[q].left
       /\ request'[q].row = request[q].row /\ request'[q].image = request[q].image
  BY <1>2, <1>10, MeaningStays
<1>12. a \in lagging' \/ cluster'[a].crons = CronsOf(s, stored[a].jobs)
  <2>1. a \in lagging' \/ (refused = {} /\ listed)
    BY <1>1, <1>2
  <2>2. cluster'[a].crons = c.crons
    BY <1>9
  <2>3. QED BY <1>1, <1>7, <2>1, <2>2
<1>13. /\ request'[q].a = a /\ request'[q].spec = s /\ request'[q].values = values /\ Holds(cluster'[a], s, values)
       /\ lagging \subseteq lagging'
  <2>1. request'[q].a = a /\ request'[q].spec = s /\ lagging \subseteq lagging'
    BY <1>1, <1>2, <1>11
  <2>2. request'[q].values = values /\ Holds(cluster'[a], s, values)
    BY <1>5, <1>8, <1>9, <1>11
  <2>3. QED BY <2>1, <2>2
<1>14. a = request[q].a /\ request'[q].at \in Applying
  BY <1>1, <1>10 DEF Applying
<1>15. Phase(q)'
  BY <1>2, <1>4, <1>5, <1>10, <1>11, <1>12, <1>13, <1>14, PhaseIs
<1>16. QED BY <1>2, <1>9, <1>10, <1>11, <1>13, <1>14, <1>15, GoOnKeeps

LEMMA RemoveKeeps == ASSUME AppInv, ~wmix.overlap, NEW q \in AppCallers, NEW failed, Remove(q, failed) PROVE AppInv'
<1>1. PICK a, s, c : a = request[q].a /\ s = request[q].spec /\ c = RemoveUnwanted(cluster[a], s, failed) /\ cluster' = [cluster EXCEPT ![a] = c]
  BY DEF Remove
<1>2. /\ request[q].at = "remove" /\ request[q].at \in Applying /\ UNCHANGED <<stored, shared, wmix>> /\ To(q, "rollout")
      /\ lagging' = lagging \/ lagging' = lagging \cup {request[q].a}
      /\ (failed = {} /\ lagging' = lagging) \/ request[q].a \in lagging'
  BY DEF Remove, At, Applying, Missed
<1>3. AppShape /\ a \in AppIds /\ Bringing(q)
  BY <1>1, <1>2, BringFacts
<1>4. PICK values, jobs : values = RuntimeVariables(a) /\ jobs = stored[a].jobs
  OBVIOUS
<1>5. /\ InShape(cluster[a]) /\ s = Meant(q) /\ request[q].values = values /\ Holds(cluster[a], s, values)
      /\ a \in lagging \/ cluster[a].crons = CronsOf(s, jobs)
  BY <1>1, <1>2, <1>3, <1>4 DEF AppShape, Clusters, Bringing, Phase
<1>6. InShape(c) /\ (failed = {} /\ cluster[a].crons = CronsOf(s, jobs) => ShowsIt(c, s, jobs, values))
  BY <1>1, <1>5, RemovedIsUnwanted
<1>7. Clusters(cluster') /\ cluster'[a] = c /\ (\A b \in AppIds : b # a => cluster'[b] = cluster[b]) /\ Storage(stored')
  BY <1>1, <1>2, <1>3, <1>6, ClusterOf DEF AppShape
<1>8. Alone(q) /\ request'[q].at = "rollout" /\ Keeps(q, {"at"})
  BY <1>2, <1>3, ToIs
<1>9. /\ Meant(q)' = Meant(q) /\ RuntimeVariables(request[q].a)' = RuntimeVariables(request[q].a)
      /\ request'[q].a = request[q].a /\ request'[q].spec = request[q].spec /\ request'[q].values = request[q].values
      /\ request'[q].kind = request[q].kind /\ request'[q].left = request[q].left
      /\ request'[q].row = request[q].row /\ request'[q].image = request[q].image
  BY <1>2, <1>8, MeaningStays
<1>10. a \in lagging' \/ ShowsIt(c, s, jobs, values)
  BY <1>1, <1>2, <1>5, <1>6
<1>11. /\ a \in lagging' \/ ShowsIt(cluster'[a], s, stored[a].jobs, values)
       /\ request'[q].a = a /\ request'[q].spec = s /\ request'[q].values = values /\ lagging \subseteq lagging'
  BY <1>1, <1>2, <1>4, <1>5, <1>7, <1>9, <1>10
<1>12. Phase(q)'
  BY <1>1, <1>2, <1>4, <1>5, <1>8, <1>9, <1>11, PhaseIs
<1>13. QED BY <1>1, <1>2, <1>7, <1>8, <1>9, <1>11, <1>12, GoOnKeeps DEF Applying

LEMMA AutoDomainKeeps == ASSUME AppInv, ~wmix.overlap, NEW q \in AppCallers, GiveAutoDomain(q) PROVE AppInv'
<1>1. PICK a : a = request[q].a
  OBVIOUS
<1>2. /\ request[q].at = "domain" /\ request[q].at \in Applying /\ UNCHANGED <<shared, cluster, lagging, wmix>> /\ To(q, "read")
      /\ UNCHANGED stored \/ stored' = [stored EXCEPT ![a].domains = EnsureAutoDomain(a)]
  BY <1>1 DEF GiveAutoDomain, At, Applying
<1>3. AppShape /\ a \in AppIds
  BY <1>1, <1>2, BringFacts
<1>4. /\ Storage(stored') /\ \A b \in AppIds : b # a => stored'[b] = stored[b]
      /\ \A n \in {"on", "row", "last"} : stored'[a][n] = stored[a][n]
  <2>1. CASE UNCHANGED stored
    BY <1>3, <2>1 DEF AppShape
  <2>2. CASE stored' = [stored EXCEPT ![a].domains = EnsureAutoDomain(a)]
    <3>1. Changed(a, "domains", EnsureAutoDomain(a))
      BY <1>3, <2>2, Stored_domains
    <3>2. QED BY <3>1 DEF Changed, Columns
  <2>3. QED BY <1>2, <2>1, <2>2
<1>5. stored'[a].on = stored[a].on /\ stored'[a].row = stored[a].row /\ stored'[a].last = stored[a].last
  <2>1. stored'[a]["on"] = stored[a]["on"] /\ stored'[a]["row"] = stored[a]["row"] /\ stored'[a]["last"] = stored[a]["last"]
    BY <1>4
  <2>2. QED BY <2>1
<1>6. Alone(q) /\ request'[q].at = "read" /\ Keeps(q, {"at"})
  BY <1>2, <1>3, ToIs
<1>7. /\ request'[q].a = a /\ request'[q].kind = request[q].kind /\ request'[q].left = request[q].left
      /\ request'[q].row = request[q].row /\ request'[q].image = request[q].image
  BY <1>1, <1>6, KeptFields
<1>8. Phase(q)' /\ request'[q].at \in Applying
  BY <1>6 DEF Phase, Applying
<1>9. Clusters(cluster')
  BY <1>2, <1>3 DEF AppShape
<1>10. QED BY <1>1, <1>2, <1>4, <1>5, <1>6, <1>7, <1>8, <1>9, GoOnKeeps

LEMMA RolloutKeeps == ASSUME AppInv, ~wmix.overlap, NEW q \in AppCallers, NEW ready \in BOOLEAN, Rollout(q, ready) PROVE AppInv'
<1>1. PICK a, s, values : a = request[q].a /\ s = Meant(q) /\ values = RuntimeVariables(a)
  OBVIOUS
<1>2. request[q].at = "rollout" /\ request[q].at \in Applying /\ UNCHANGED <<shared, cluster, wmix>>
  BY DEF Rollout, At, Applying
<1>3. AppShape /\ a \in AppIds /\ Bringing(q)
  BY <1>1, <1>2, BringFacts
<1>4. /\ a \in lagging \/ ShowsIt(cluster[a], s, stored[a].jobs, values)
      /\ request[q].image = (IF request[q].kind = "deploy" THEN "v2" ELSE stored[a].last)
  BY <1>1, <1>2, <1>3 DEF Bringing, Phase
<1>5. Clusters(cluster')
  BY <1>2, <1>3 DEF AppShape
<1>6. CASE request[q].kind # "deploy"
  <2>1. To(q, "sync") /\ UNCHANGED <<stored, lagging>>
    BY <1>6 DEF Rollout
  <2>2. SpecFor(a, stored[a].row, stored[a].last) = s
    BY <1>1, <1>4, <1>6 DEF Meant
  <2>3. Fine(a)
    BY <1>1, <1>4, <2>2 DEF Fine, Shows
  <2>4. Fine(a)'
    BY <1>2, <2>1, <2>3, <1>3, FineStays
  <2>5. Storage(stored')
    BY <1>3, <2>1 DEF AppShape
  <2>6. QED BY <1>1, <1>2, <1>5, <1>6, <2>1, <2>4, <2>5, LeaveKeeps
<1>7. CASE request[q].kind = "deploy"
  <2>1. /\ Ended(q) /\ lagging \subseteq lagging' /\ (~ready => a \in lagging')
        /\ \/ stored' = stored /\ (ready => ~Exists(a))
           \/ ready /\ stored' = [stored EXCEPT ![a].last = "v2"]
    BY <1>1, <1>7 DEF Rollout
  <2>2. CASE stored' = stored /\ (ready => ~Exists(a))
    <3>1. Fine(a)'
      BY <2>1, <2>2 DEF Fine, Exists
    <3>2. Storage(stored')
      BY <1>3, <2>2 DEF AppShape
    <3>3. QED BY <1>1, <1>2, <1>5, <1>7, <2>1, <2>2, <3>1, <3>2, LeaveKeeps
  <2>3. CASE stored' = [stored EXCEPT ![a].last = "v2"]
    <3>1. Changed(a, "last", "v2")
      BY <1>3, <2>3, Stored_last
    <3>2. \A n \in Columns : n # "last" => stored'[a][n] = stored[a][n]
      BY <3>1 DEF Changed
    <3>3. /\ stored'[a]["row"] = stored[a]["row"] /\ stored'[a]["vars"] = stored[a]["vars"]
          /\ stored'[a]["domains"] = stored[a]["domains"] /\ stored'[a]["volumes"] = stored[a]["volumes"]
          /\ stored'[a]["jobs"] = stored[a]["jobs"]
      BY <3>2 DEF Columns
    <3>4. stored'[a]["last"] = "v2" /\ Storage(stored') /\ \A b \in AppIds : b # a => stored'[b] = stored[b]
      BY <3>1 DEF Changed
    <3>5. request[q].image = "v2"
      BY <1>4, <1>7
    <3>6. SpecFor(a, stored[a].row, stored[a].last)' = s
      <4>1. /\ stored'[a].row = stored[a].row /\ stored'[a].last = request[q].image
            /\ stored'[a].volumes = stored[a].volumes /\ stored'[a].domains = stored[a].domains
        BY <3>3, <3>4, <3>5
      <4>2. SpecFor(a, stored[a].row, stored[a].last)' = SpecFor(a, stored[a].row, request[q].image)
        BY ONLY <4>1 DEF SpecFor
      <4>3. QED BY <1>1, <4>2 DEF Meant
    <3>7. RuntimeVariables(a)' = values
      BY <1>1, <1>2, <3>3 DEF RuntimeVariables
    <3>8. cluster'[a] = cluster[a] /\ stored'[a].jobs = stored[a].jobs
      BY <1>2, <3>3
    <3>9. a \in lagging' \/ Shows(a)'
      BY <1>4, <2>1, <3>6, <3>7, <3>8 DEF Shows
    <3>10. Fine(a)'
      BY <3>9 DEF Fine
    <3>11. QED BY <1>1, <1>2, <1>5, <1>7, <2>1, <3>4, <3>10, LeaveKeeps
  <2>4. QED BY <2>1, <2>2, <2>3
<1>8. QED BY <1>6, <1>7

\* The step that takes up an app: it is not behind any more, and not yet brought.
LEMMA TakeUpKeeps ==
    ASSUME AppInv, ~wmix.overlap, NEW q \in AppCallers, ~At(q, "off"), UNCHANGED <<stored, shared, cluster, wmix>>,
           NEW a \in AppIds, Exists(a), NEW left, left \subseteq AppIds, OthersShow(left \cup {a}), lagging' = lagging \ {a},
           Alone(q), request'[q].at = "domain", request'[q].a = a, request'[q].left = left, request'[q].row = stored[a].row,
           request'[q].image = IF request'[q].kind = "deploy" THEN "v2" ELSE stored[a].last,
           request'[q].kind = "deploy" => left = {}
    PROVE  AppInv'
<1>1. AppShape
  BY DEF AppInv
<1>2. \A b \in AppIds \ (request'[q].left \cup {request'[q].a}) : Fine(b)'
  <2>1. ASSUME NEW b \in AppIds \ (left \cup {a}) PROVE Fine(b)'
    <3>1. Fine(b)
      BY <2>1 DEF OthersShow
    <3>2. QED BY <2>1, <3>1, FineStays
  <2>2. QED BY <2>1
<1>3. OthersShow(request[q].left \cup {request[q].a})'
  BY <1>2 DEF OthersShow
<1>4. Phase(q)'
  BY DEF Phase
<1>5. Bringing(q)'
  BY <1>3, <1>4 DEF Bringing, Exists
<1>6. Stands(q)'
  BY <1>5 DEF Stands
<1>7. QED BY <1>1, <1>6, SerialStep DEF AppShape

LEMMA DeployKeeps == ASSUME AppInv, ~wmix.overlap, NEW q \in AppCallers, StartDeploy(q) PROVE AppInv'
<1>1. PICK a : a = request[q].a
  OBVIOUS
<1>2. /\ At(q, "write") /\ request[q].kind = "deploy" /\ UNCHANGED <<stored, shared, cluster, wmix>>
      /\ lagging' = lagging \ {a}
  BY <1>1 DEF StartDeploy, AtOne
<1>3. AppShape /\ OthersShow({}) /\ a \in AppIds /\ request[q].row = stored[a].row /\ request[q].left = {} /\ Exists(a)
  BY <1>1, <1>2, WriteFacts
<1>4. PICK f, g : f = [request EXCEPT ![q].at = "domain"] /\ g = [f EXCEPT ![q].image = "v2"] /\ request' = g
  BY DEF StartDeploy
<1>5. Requests(request)
  BY <1>3 DEF AppShape
<1>6. Sets(request, f, q, "at", "domain")
  BY <1>4, <1>5, Set_at
<1>7. Requests(f)
  BY <1>6 DEF Sets
<1>8. Sets(f, g, q, "image", "v2")
  BY <1>4, <1>7, Set_image
<1>9. Alone(q)
  BY <1>4, <1>6, <1>8 DEF Alone, Sets
<1>10. \A m \in Fields \ {"at", "image"} : request'[q][m] = request[q][m]
  BY <1>4, <1>6, <1>8 DEF Sets
<1>11. Keeps(q, {"at", "image"})
  BY <1>10 DEF Keeps
<1>12. "at" \in Fields
  BY DEF Fields
<1>13. request'[q]["at"] = "domain" /\ request'[q]["image"] = "v2"
  BY <1>4, <1>6, <1>8, <1>12 DEF Sets
<1>14. request'[q].a = a /\ request'[q].kind = "deploy" /\ request'[q].left = {} /\ request'[q].row = stored[a].row
  BY <1>1, <1>2, <1>3, <1>11, KeptFields
<1>15. OthersShow({} \cup {a})
  BY <1>3 DEF OthersShow
<1>16. QED BY <1>2, <1>3, <1>9, <1>13, <1>14, <1>15, TakeUpKeeps DEF At

LEMMA SyncKeeps == ASSUME AppInv, ~wmix.overlap, NEW q \in AppCallers, SyncBegin(q) PROVE AppInv'
<1>1. PICK left : left = request[q].left
  OBVIOUS
<1>2. request[q].at = "sync" /\ UNCHANGED <<stored, shared, cluster, wmix>>
  BY DEF SyncBegin, At
<1>3. /\ AppShape /\ OthersShow(left) /\ request[q].kind # "deploy" /\ left \subseteq AppIds /\ ~At(q, "off")
      /\ Requests(request) /\ Storage(stored') /\ Clusters(cluster')
  BY <1>1, <1>2 DEF AppInv, Stands, AppShape, At
<1>4. CASE left = {}
  <2>1. Ended(q) /\ UNCHANGED lagging
    BY <1>1, <1>4 DEF SyncBegin
  <2>2. Alone(q) /\ request'[q].at = "off" /\ request'[q].left = {}
    BY <1>3, <2>1, EndedIs
  <2>3. ASSUME NEW b \in AppIds PROVE Fine(b)'
    <3>1. Fine(b)
      BY <1>3, <1>4 DEF OthersShow
    <3>2. QED BY <1>2, <2>1, <3>1, FineStays
  <2>4. OthersShow({})'
    BY <2>3 DEF OthersShow
  <2>5. Stands(q)'
    BY <2>2 DEF Stands
  <2>6. QED BY <1>2, <1>3, <2>2, <2>4, <2>5, SerialStep
<1>5. CASE left # {}
  <2>1. PICK a \in left :
          /\ request' = [request EXCEPT ![q].left = request[q].left \ {a}, ![q].a = a, ![q].row = stored[a].row,
                           ![q].at = IF Exists(a) /\ stored[a].last # None THEN "domain" ELSE "sync",
                           ![q].image = stored[a].last]
          /\ lagging' = lagging \ {a}
    BY <1>1, <1>5 DEF SyncBegin
  <2>2. PICK f, g, h, k, l, where :
          /\ f = [request EXCEPT ![q].left = left \ {a}] /\ g = [f EXCEPT ![q].a = a]
          /\ h = [g EXCEPT ![q].row = stored[a].row] /\ k = [h EXCEPT ![q].at = where]
          /\ l = [k EXCEPT ![q].image = stored[a].last] /\ request' = l
          /\ where = IF Exists(a) /\ stored[a].last # None THEN "domain" ELSE "sync"
          /\ lagging' = lagging \ {a}
    BY <1>1, <2>1
  <2>3. Sets(request, f, q, "left", left \ {a})
    BY <1>3, <2>2, Set_left
  <2>4. Requests(f)
    BY <2>3 DEF Sets
  <2>5. Sets(f, g, q, "a", a)
    BY <2>2, <2>4, Set_a
  <2>6. Requests(g)
    BY <2>5 DEF Sets
  <2>7. Sets(g, h, q, "row", stored[a].row)
    BY <2>2, <2>6, Set_row
  <2>8. Requests(h)
    BY <2>7 DEF Sets
  <2>9. Sets(h, k, q, "at", where)
    BY <2>2, <2>8, Set_at
  <2>10. Requests(k)
    BY <2>9 DEF Sets
  <2>11. Sets(k, l, q, "image", stored[a].last)
    <3>1. l = [k EXCEPT ![q].image = stored[a].last]
      BY <2>2
    <3>2. QED BY <2>10, <3>1, Set_image
  <2>12. Alone(q)
    <3>1. \A p \in AppCallers : p # q => /\ f[p] = request[p] /\ g[p] = f[p] /\ h[p] = g[p] /\ k[p] = h[p] /\ l[p] = k[p]
      BY <2>3, <2>5, <2>7, <2>9, <2>11 DEF Sets
    <3>2. Requests(l) /\ \A p \in AppCallers : p # q => l[p] = request[p]
      BY <2>11, <3>1 DEF Sets
    <3>3. QED BY <2>2, <3>2 DEF Alone
  <2>13. "left" \in Fields /\ "a" \in Fields /\ "row" \in Fields /\ "at" \in Fields /\ "image" \in Fields /\ "kind" \in Fields
    BY DEF Fields
  <2>14. f[q]["left"] = left \ {a} /\ f[q]["kind"] = request[q]["kind"]
    BY <2>3, <2>13 DEF Sets
  <2>15. g[q]["a"] = a /\ g[q]["left"] = f[q]["left"] /\ g[q]["kind"] = f[q]["kind"]
    BY <2>5, <2>13 DEF Sets
  <2>16. h[q]["row"] = stored[a].row /\ h[q]["a"] = g[q]["a"] /\ h[q]["left"] = g[q]["left"] /\ h[q]["kind"] = g[q]["kind"]
    BY <2>7, <2>13 DEF Sets
  <2>17. k[q]["at"] = where /\ k[q]["row"] = h[q]["row"] /\ k[q]["a"] = h[q]["a"] /\ k[q]["left"] = h[q]["left"] /\ k[q]["kind"] = h[q]["kind"]
    BY <2>9, <2>13 DEF Sets
  <2>18. /\ l[q]["image"] = stored[a].last /\ l[q]["at"] = k[q]["at"] /\ l[q]["row"] = k[q]["row"] /\ l[q]["a"] = k[q]["a"]
         /\ l[q]["left"] = k[q]["left"] /\ l[q]["kind"] = k[q]["kind"]
    BY <2>11, <2>13 DEF Sets
  <2>19. /\ request'[q].image = stored[a].last /\ request'[q].at = where /\ request'[q].row = stored[a].row
         /\ request'[q].a = a /\ request'[q].left = left \ {a} /\ request'[q].kind = request[q].kind
    <3>1. /\ l[q]["image"] = stored[a].last /\ l[q]["at"] = where /\ l[q]["row"] = stored[a].row
          /\ l[q]["a"] = a /\ l[q]["left"] = left \ {a} /\ l[q]["kind"] = request[q]["kind"]
      BY <2>14, <2>15, <2>16, <2>17, <2>18
    <3>2. /\ l[q].image = stored[a].last /\ l[q].at = where /\ l[q].row = stored[a].row
          /\ l[q].a = a /\ l[q].left = left \ {a} /\ l[q].kind = request[q].kind
      BY <3>1
    <3>3. QED BY <2>2, <3>2
  <2>20. CASE Exists(a) /\ stored[a].last # None
    <3>1. OthersShow((left \ {a}) \cup {a})
      BY <1>3 DEF OthersShow
    <3>2. request'[q].at = "domain"
      BY <2>2, <2>19, <2>20
    <3>3. QED BY <1>2, <1>3, <2>2, <2>12, <2>19, <2>20, <3>1, <3>2, TakeUpKeeps
  <2>21. CASE ~(Exists(a) /\ stored[a].last # None)
    <3>1. request'[q].at = "sync"
      BY <2>2, <2>19, <2>21
    <3>2. ASSUME NEW b \in AppIds \ (left \ {a}) PROVE Fine(b)'
      <4>1. CASE b = a
        BY <1>2, <2>21, <4>1 DEF Fine, Exists
      <4>2. CASE b # a
        <5>1. Fine(b)
          BY <1>3, <3>2, <4>2 DEF OthersShow
        <5>2. b \notin lagging' => b \notin lagging
          BY <2>2, <4>2
        <5>3. QED BY <1>2, <3>2, <5>1, <5>2, FineStays
      <4>3. QED BY <4>1, <4>2
    <3>3. \A b \in AppIds \ request'[q].left : Fine(b)'
      BY <2>19, <3>2
    <3>4. OthersShow(request[q].left)'
      BY <3>3 DEF OthersShow
    <3>5. Stands(q)'
      BY <1>3, <2>19, <3>1, <3>4 DEF Stands
    <3>6. wmix' = wmix /\ request'[q].at # "off"
      BY <1>2, <3>1
    <3>7. QED BY <1>3, <2>12, <3>5, <3>6, SerialStep
  <2>22. QED BY ONLY <2>20, <2>21, Zenon
<1>6. QED BY <1>4, <1>5

-----------------------------------------------------------------------------
(* The invariant.                                                          *)

\* What was not applied is what was there before.
LEMMA ApplyOnly ==
    ASSUME NEW s, NEW values
    PROVE  LET c == ApplyAll(EmptyCluster, s, values, 9)
           IN  /\ InShape(c) /\ c.crons = {}
               /\ \A k \in Kinds \ {"secret"} : c.objects[k] = Built(s, values)[k]
               /\ SecretGives(c, values)
               /\ BuildPVCs(s) \subseteq c.claims
<1> DEFINE done == {ApplyOrder[i] : i \in 1..9}
           want == [k \in Kinds |-> IF k = "secret" THEN PatchSecret(EmptyCluster, values) ELSE Built(s, values)[k]]
           kept == {x \in EmptyCluster.claims : \A v \in BuildPVCs(s) : v.name # x.name}
           objects == [k \in Kinds |-> IF k \in done /\ want[k] # NoObject THEN want[k] ELSE EmptyCluster.objects[k]]
           claims == IF "claims" \in done THEN kept \cup BuildPVCs(s) ELSE EmptyCluster.claims
           c == ApplyAll(EmptyCluster, s, values, 9)
<1>1. c = [EmptyCluster EXCEPT !.objects = objects, !.claims = claims]
  BY DEF ApplyAll
<1>2. (\A k \in Kinds : k \in done) /\ "claims" \in done
  BY OrderCovers
<1>3. EmptyCluster.objects = [k \in Kinds |-> NoObject] /\ EmptyCluster.crons = {} /\ InShape(EmptyCluster)
  BY DEF EmptyCluster, InShape
<1>4. \A k \in Kinds \ {"secret"} : objects[k] = Built(s, values)[k]
  BY <1>2, <1>3
<1>5. BuildPVCs(s) \subseteq claims
  BY <1>2
<1> HIDE DEF c, objects, claims
<1>6. c.objects = objects /\ c.claims = claims /\ c.crons = {}
  <2>1. PICK d : d = [EmptyCluster EXCEPT !.objects = objects]
    OBVIOUS
  <2>2. d = [objects |-> objects, claims |-> EmptyCluster.claims, crons |-> {}, runs |-> EmptyCluster.runs]
    BY <1>3, <2>1 DEF InShape
  <2>3. [d EXCEPT !.claims = claims] = [objects |-> objects, claims |-> claims, crons |-> {}, runs |-> EmptyCluster.runs]
    BY <2>2
  <2>4. c = [objects |-> objects, claims |-> claims, crons |-> {}, runs |-> EmptyCluster.runs]
    BY <1>1, <2>1, <2>3
  <2>5. QED BY <2>4
<1>7. InShape(c) /\ SecretGives(c, values)
  BY <1>3, ApplyBrings, OrderCovers DEF c, Holds
<1>8. QED BY <1>4, <1>5, <1>6, <1>7 DEF c

LEMMA AppStart == AppInit => AppInv
<1> SUFFICES ASSUME AppInit PROVE AppInv
  OBVIOUS
<1>1. /\ \A q \in AppCallers : request[q] = NoRequest
      /\ Requests(request)
  <2>1. IsReq(NoRequest)
    BY DEF IsReq, NoRequest, Fields
  <2>2. QED BY <2>1 DEF AppInit, Requests
<1>2. ASSUME NEW a \in AppIds
      PROVE  /\ IsApp(stored[a]) /\ stored[a].vars = {} /\ stored[a].jobs = {}
             /\ Exists(a) => a \in wmix.deployed /\ stored[a].last = "v1"
  <2>1. CASE a \in wmix.deployed
    <3>1. PICK row, x, y, z : /\ x = [NoApp EXCEPT !.on = TRUE] /\ y = [x EXCEPT !.row = row]
                              /\ z = [y EXCEPT !.last = "v1"] /\ stored[a] = z
      BY <2>1 DEF AppInit
    <3>2. x = [on |-> TRUE, row |-> NoRow, vars |-> {}, domains |-> {}, volumes |-> {}, jobs |-> {}, last |-> None]
      BY <3>1 DEF NoApp
    <3>3. y = [on |-> TRUE, row |-> row, vars |-> {}, domains |-> {}, volumes |-> {}, jobs |-> {}, last |-> None]
      <4>1. y = [[on |-> TRUE, row |-> NoRow, vars |-> {}, domains |-> {}, volumes |-> {}, jobs |-> {}, last |-> None]
                   EXCEPT !.row = row]
        BY <3>1, <3>2
      <4>2. QED BY ONLY <4>1
    <3>4. z = [on |-> TRUE, row |-> row, vars |-> {}, domains |-> {}, volumes |-> {}, jobs |-> {}, last |-> "v1"]
      <4>1. z = [[on |-> TRUE, row |-> row, vars |-> {}, domains |-> {}, volumes |-> {}, jobs |-> {}, last |-> None]
                   EXCEPT !.last = "v1"]
        BY <3>1, <3>3
      <4>2. QED BY ONLY <4>1
    <3>5. IsApp(z)
      BY <3>4 DEF IsApp, Columns
    <3>6. z.vars = {} /\ z.jobs = {} /\ z.last = "v1"
      BY <3>4
    <3>7. QED BY <2>1, <3>1, <3>5, <3>6
  <2>2. CASE a \notin wmix.deployed
    <3>1. stored[a] = NoApp
      BY <2>2 DEF AppInit
    <3>2. IsApp(NoApp) /\ NoApp.vars = {} /\ NoApp.jobs = {} /\ NoApp.on = FALSE
      BY DEF IsApp, NoApp, Columns
    <3>3. QED BY <3>1, <3>2 DEF Exists
  <2>3. QED BY <2>1, <2>2
<1>3. ASSUME NEW a \in AppIds PROVE InShape(cluster[a]) /\ Fine(a)
  <2>1. CASE a \in wmix.deployed
    <3>1. PICK s : s = SpecFor(a, stored[a].row, "v1")
      OBVIOUS
    <3>2. cluster[a] = ApplyAll(EmptyCluster, s, {}, 9)
      BY <2>1, <3>1 DEF AppInit
    <3>3. /\ InShape(cluster[a]) /\ cluster[a].crons = {}
          /\ \A k \in Kinds \ {"secret"} : cluster[a].objects[k] = Built(s, {})[k]
          /\ SecretGives(cluster[a], {})
          /\ BuildPVCs(s) \subseteq cluster[a].claims
      BY <3>2, ApplyOnly
    <3>4. RuntimeVariables(a) = {}
      BY <1>2 DEF RuntimeVariables, AppInit
    <3>5. CronsOf(s, stored[a].jobs) = {}
      BY <1>2 DEF CronsOf
    <3>6. ShowsIt(cluster[a], s, stored[a].jobs, RuntimeVariables(a))
      BY <3>3, <3>4, <3>5 DEF ShowsIt
    <3>7. QED BY <1>2, <3>1, <3>3, <3>6 DEF Fine, Shows
  <2>2. CASE a \notin wmix.deployed
    <3>1. cluster[a] = EmptyCluster
      BY <2>2 DEF AppInit
    <3>2. InShape(EmptyCluster)
      BY DEF EmptyCluster, InShape
    <3>3. QED BY <1>2, <2>2, <3>1, <3>2 DEF Fine
  <2>3. QED BY <2>1, <2>2
<1>4. stored = [a \in AppIds |-> stored[a]] /\ cluster = [a \in AppIds |-> cluster[a]]
  <2> DEFINE row(a) == IF a \in wmix.deployed
                       THEN [NoApp EXCEPT !.on = TRUE, !.row = NewApp(CHOOSE p \in wmix.ports : p > 0), !.last = "v1"]
                       ELSE NoApp
             held(a) == IF a \in wmix.deployed THEN ApplyAll(EmptyCluster, SpecFor(a, stored[a].row, "v1"), {}, 9)
                        ELSE EmptyCluster
  <2>1. stored = [a \in AppIds |-> row(a)] /\ cluster = [a \in AppIds |-> held(a)]
    BY DEF AppInit
  <2> HIDE DEF row, held
  <2>2. QED BY <2>1
<1>5. AppShape
  BY <1>1, <1>2, <1>3, <1>4 DEF AppShape, Storage, Clusters
<1>6. OthersShow({})
  BY <1>3 DEF OthersShow
<1>7. NoRequest.at = "off" /\ NoRequest.left = {}
  BY DEF NoRequest
<1>8. OneRequest /\ \A q \in AppCallers : Stands(q)
  BY <1>1, <1>7 DEF OneRequest, At, Stands
<1>9. QED BY <1>5, <1>6, <1>8 DEF AppInv

LEMMA AppKeeps == AppInv /\ [AppNext]_appVars => AppInv'
<1> SUFFICES ASSUME AppInv, [AppNext]_appVars PROVE AppInv'
  OBVIOUS
<1>1. CASE UNCHANGED appVars
  <2>1. /\ AppShape' <=> AppShape
        /\ OneRequest' <=> OneRequest
        /\ Idle' <=> Idle
    BY <1>1 DEF appVars, AppShape, OneRequest, Idle, At
  <2>2. \A b \in AppIds : Fine(b)' <=> Fine(b)
    BY <1>1 DEF appVars, Fine, Exists, Shows, SpecFor, RuntimeVariables
  <2>3. \A q \in AppCallers : Stands(q)' <=> Stands(q)
    BY <1>1 DEF appVars, Stands, Bringing, Phase, Meant, SpecFor, RuntimeVariables, OthersShow, Fine, Exists, Shows
  <2>4. OthersShow({})' <=> OthersShow({})
    BY <2>2 DEF OthersShow
  <2>5. wmix' = wmix
    BY <1>1 DEF appVars
  <2>6. QED BY <2>1, <2>3, <2>4, <2>5 DEF AppInv
<1>2. CASE AppNext
  <2>1. wmix' = wmix
    <3>1. ASSUME NEW q \in AppCallers, NEW kind, NEW a, NEW c, Begin(q, kind, a, c) PROVE UNCHANGED wmix
      BY <3>1 DEF Begin
    <3>2. ASSUME NEW q \in AppCallers,
                 \/ CreateApp(q) \/ (\E usable \in BOOLEAN : SetInitialVariables(q, usable)) \/ DeleteAppRow(q) \/ RunOnce(q)
                 \/ \E n \in 0..Len(DeleteOrder) : DeleteAppObjects(q, n)
          PROVE  UNCHANGED wmix
      BY <3>2 DEF CreateApp, SetInitialVariables, DeleteAppRow, RunOnce, DeleteAppObjects
    <3>3. ASSUME NEW q \in AppCallers,
                 UpdateApp(q) \/ SetScaling(q) \/ SetVariable(q) \/ DeleteVariable(q) \/ SetSharedVariable(q) \/ DeleteSharedVariable(q)
          PROVE  UNCHANGED wmix
      BY <3>3 DEF UpdateApp, SetScaling, SetVariable, DeleteVariable, SetSharedVariable, DeleteSharedVariable
    <3>4. ASSUME NEW q \in AppCallers,
                 \/ AddDomain(q) \/ DeleteDomain(q) \/ CreateVolume(q) \/ DeleteVolume(q) \/ SetJob(q) \/ DeleteJob(q) \/ ChangeSettings(q)
          PROVE  UNCHANGED wmix
      BY <3>4 DEF AddDomain, DeleteDomain, CreateVolume, DeleteVolume, SetJob, DeleteJob, ChangeSettings
    <3>5. ASSUME NEW q \in AppCallers, SyncBegin(q) \/ StartDeploy(q) \/ GiveAutoDomain(q) \/ ReadSpec(q)
          PROVE  UNCHANGED wmix
      BY <3>5 DEF SyncBegin, StartDeploy, GiveAutoDomain, ReadSpec
    <3>6. ASSUME NEW q \in AppCallers,
                 \/ \E n \in 0..Len(ApplyOrder) : ApplyObjects(q, n)
                 \/ \E refused \in SUBSET {"nightly"}, listed \in BOOLEAN : ApplyJobs(q, refused, listed)
                 \/ \E failed \in SUBSET {"ingress", "hpa"} : Remove(q, failed)
                 \/ \E ready \in BOOLEAN : Rollout(q, ready)
          PROVE  UNCHANGED wmix
      BY <3>6 DEF ApplyObjects, ApplyJobs, Remove, Rollout
    <3>7. QED BY <1>2, <3>1, <3>2, <3>3, <3>4, <3>5, <3>6 DEF AppNext
  <2>2. CASE wmix.overlap
    BY <2>1, <2>2 DEF AppInv
  <2>3. CASE ~wmix.overlap
    <3>1. ASSUME NEW q \in AppCallers, NEW kind \in AppKinds, NEW a \in AppIds, NEW c \in Changes(kind), Begin(q, kind, a, c)
          PROVE  AppInv'
      BY <2>3, <3>1, BeginKeeps
    <3>2. ASSUME NEW q \in AppCallers,
                 \/ CreateApp(q) \/ (\E usable \in BOOLEAN : SetInitialVariables(q, usable)) \/ DeleteAppRow(q) \/ RunOnce(q)
                 \/ \E n \in 0..Len(DeleteOrder) : DeleteAppObjects(q, n)
          PROVE  AppInv'
      BY <2>3, <3>2, CreateKeeps, InitialKeeps, RowGoneKeeps, RunKeeps, DeleteKeeps
    <3>3. ASSUME NEW q \in AppCallers,
                 UpdateApp(q) \/ SetScaling(q) \/ SetVariable(q) \/ DeleteVariable(q) \/ SetSharedVariable(q) \/ DeleteSharedVariable(q)
          PROVE  AppInv'
      BY <2>3, <3>3, UpdateKeeps, ScalingKeeps, VariableKeeps, VariableGoneKeeps, SharedKeeps
    <3>4. ASSUME NEW q \in AppCallers,
                 \/ AddDomain(q) \/ DeleteDomain(q) \/ CreateVolume(q) \/ DeleteVolume(q) \/ SetJob(q) \/ DeleteJob(q) \/ ChangeSettings(q)
          PROVE  AppInv'
      BY <2>3, <3>4, DomainKeeps, DomainGoneKeeps, VolumeKeeps, VolumeGoneKeeps, JobKeeps, JobGoneKeeps, SettingsKeep
    <3>5. ASSUME NEW q \in AppCallers, SyncBegin(q) \/ StartDeploy(q) \/ GiveAutoDomain(q) \/ ReadSpec(q)
          PROVE  AppInv'
      BY <2>3, <3>5, SyncKeeps, DeployKeeps, AutoDomainKeeps, ReadKeeps
    <3>6. ASSUME NEW q \in AppCallers,
                 \/ \E n \in 0..Len(ApplyOrder) : ApplyObjects(q, n)
                 \/ \E refused \in SUBSET {"nightly"}, listed \in BOOLEAN : ApplyJobs(q, refused, listed)
                 \/ \E failed \in SUBSET {"ingress", "hpa"} : Remove(q, failed)
                 \/ \E ready \in BOOLEAN : Rollout(q, ready)
          PROVE  AppInv'
      BY <2>3, <3>6, ObjectsKeep, JobsStepKeeps, RemoveKeeps, RolloutKeeps
    <3>7. QED BY <1>2, <3>1, <3>2, <3>3, <3>4, <3>5, <3>6 DEF AppNext
  <2>4. QED BY <2>2, <2>3
<1>3. QED BY <1>1, <1>2

\* What an app is fine with is what its manifests page shows.
LEMMA ShownIsThat ==
    ASSUME NEW c, NEW s, NEW jobs, NEW values, ShowsIt(c, s, jobs, values)
    PROVE  LET shown == RenderedManifests(s, jobs)
           IN  /\ \A k \in Kinds \ {"secret"} : c.objects[k] = shown.objects[k] \/ (s.port = 0 /\ k \in {"service", "ingress"})
               /\ SecretGives(c, values)
               /\ shown.claims \subseteq c.claims
               /\ c.crons = shown.crons
<1> DEFINE shown == RenderedManifests(s, jobs)
<1>1. /\ shown.objects = [k \in Kinds \ {"secret"} |-> Built(s, {})[k]] /\ shown.claims = BuildPVCs(s)
      /\ shown.crons = CronsOf(s, jobs)
  BY DEF RenderedManifests, CronsOf
<1>2. \A k \in Kinds \ {"secret"} : Built(s, {})[k] = Built(s, values)[k]
  BY DEF Built, Kinds
<1>3. \A k \in Kinds \ {"secret"} : shown.objects[k] = Built(s, values)[k]
  BY <1>1, <1>2
<1> HIDE DEF shown
<1>4. QED BY <1>1, <1>3 DEF ShowsIt, shown

(* ClusterShowsTheRows, for every set of apps, callers and hostnames:      *)
(* however many apps a request has to bring, wherever an apply breaks off  *)
(* and whatever was there before, an app no request is working on and that *)
(* is not owned up to as lagging runs what its rows say, each variable     *)
(* with its value, and no object of an earlier configuration is left.      *)
THEOREM ClusterShowsTheRowsAlways == AppSpec => []ClusterShowsTheRows
<1>1. AppInv => ClusterShowsTheRows
  <2> SUFFICES ASSUME AppInv, Idle, ~wmix.overlap, NEW a \in AppIds, Exists(a), stored[a].last # None, a \notin lagging
      PROVE  LET shown == RenderedManifests(SpecFor(a, stored[a].row, stored[a].last), stored[a].jobs)
             IN  /\ \A k \in Kinds \ {"secret"} :
                       \/ cluster[a].objects[k] = shown.objects[k]
                       \/ stored[a].row.port = 0 /\ k \in {"service", "ingress"}
                 /\ SecretGives(cluster[a], RuntimeVariables(a))
                 /\ shown.claims \subseteq cluster[a].claims
                 /\ cluster[a].crons = shown.crons
    BY DEF ClusterShowsTheRows
  <2>1. PICK s : s = SpecFor(a, stored[a].row, stored[a].last)
    OBVIOUS
  <2>2. ShowsIt(cluster[a], s, stored[a].jobs, RuntimeVariables(a))
    BY <2>1 DEF AppInv, OthersShow, Fine, Shows
  <2>3. s.port = stored[a].row.port
    BY <2>1 DEF SpecFor
  <2>4. QED BY <2>1, <2>2, <2>3, ShownIsThat
<1>2. QED BY <1>1, AppStart, AppKeeps, PTL DEF AppSpec

-----------------------------------------------------------------------------
(* Databases: the invariant.  DbInv has three parts: what state there is   *)
(* (DbShape), who has which name and which Service (NameInv, as long as    *)
(* names are asked for), and what stands behind every variable that is a   *)
(* connection string (UrlInv, as long as requests are not cut).            *)

DbStatuses == {"never", "gone", "creating", "starting", "running", "failed", "degraded", "missing", "unknown"}
DbPlaces == {"off", "check", "row", "seal", "variable", "link", "sync", "read", "links", "objects", "apps"}
Links == [d : DbIds, a : DbApps, v : VarNames]
DbCallType == [kind : DbKinds \cup {Nobody}, at : DbPlaces, d : DbIds \cup {Nobody}, a : DbApps \cup {Nobody},
               s : Slugs \cup {Nobody}, v : VarNames \cup {Nobody}, left : SUBSET Links]
DbMixType == [kinds : SUBSET DbKinds, faults : SUBSET {"cluster", "cut", "limit", "restart", "rows"},
              overlap : BOOLEAN, early : BOOLEAN, asks : Nat, engine : {"postgres", "redis", "mysql"}]

DbTypes ==
    /\ appRow \in [DbApps -> [slug : Slugs \cup {Nobody}, deployed : BOOLEAN]]
    /\ dbRow \in [DbIds -> [slug : Slugs \cup {Nobody}, status : DbStatuses, sealed : BOOLEAN]]
    /\ links \subseteq Links /\ leftover \subseteq DbApps \X VarNames
    /\ urlIn \in [DbApps -> [VarNames -> DbIds \cup {Nobody}]]
    /\ injected \in [DbApps -> [VarNames -> DbIds \cup {Nobody}]]
    /\ service \in [Slugs -> DbApps \cup DbIds \cup {Nobody}]
    /\ object \in [Slugs -> DbIds \cup {Nobody}]
    /\ worker \in [DbIds -> {"off", "component", "apply", "starting", "wait"}]
    /\ dbCall \in [DbCallers -> DbCallType]
    /\ dbmix \in DbMixType

\* What a request is about, by its kind.
CallFits(c) ==
    c.at # "off" =>
        /\ c.kind \in dbmix.kinds
        /\ c.kind \in {"createDb", "link", "unlink", "get", "deleteDb"} => c.d \in DbIds
        /\ c.kind \in {"createApp", "template", "deploy", "deleteApp", "link", "unlink"} => c.a \in DbApps
        /\ c.kind \in {"createDb", "createApp", "template"} => c.s \in Slugs
        /\ c.kind = "link" => c.v \in VarNames
        /\ c.kind = "createDb" /\ c.at = "seal" => dbRow[c.d].status # "never"
        /\ c.kind = "deleteDb" => dbRow[c.d].status # "never"

\* A database that was made has a name.
RowsAreNamed == \A d \in DbIds : /\ dbRow[d].status # "never" => dbRow[d].slug \in Slugs
                                 /\ worker[d] # "off" => dbRow[d].status # "never"

DbShape == DbTypes /\ (\A q \in DbCallers : CallFits(dbCall[q])) /\ RowsAreNamed

OneCall == \A q, r \in DbCallers : dbCall[q].at # "off" /\ dbCall[r].at # "off" => q = r

\* Names.
Asked == ~dbmix.overlap /\ ~dbmix.early /\ "template" \notin dbmix.kinds
OneOwner == \A s \in Slugs : \A x, y \in SlugOwner(s) : x = y
ServicesAreOwners ==
    \A s \in Slugs : /\ service[s] # Nobody => service[s] \in SlugOwner(s)
                     /\ service[s] \in DbIds => HasService
DeployedIsServed == \A a \in DbApps : appRow[a].deployed => HasApp(a) /\ service[appRow[a].slug] = a
WorkersHaveRows == \A d \in DbIds : worker[d] # "off" => HasRow(d)

\* What a request in progress may count on: the name it asked for is free and what it is to have it
\* is new; what it deletes nobody works for, and has no Service once the cluster is done with.
CountsOn(c) ==
    /\ c.kind = "createDb" /\ c.at \in {"check", "row"} => dbRow[c.d].status = "never"
    /\ c.kind = "createApp" /\ c.at \in {"check", "row"} => ~HasApp(c.a)
    /\ c.kind \in {"createDb", "createApp"} /\ c.at = "row" => SlugOwner(c.s) = {}
    /\ c.kind = "createDb" /\ c.at = "seal" => HasRow(c.d)
    /\ c.kind = "deleteDb" /\ c.at # "off" => worker[c.d] = "off"
    /\ c.kind = "deleteDb" /\ c.at \in {"apps", "row"} => service[dbRow[c.d].slug] # c.d
CallsCountOn == \A q \in DbCallers : CountsOn(dbCall[q])

\* A deletion that has got past the cluster.
Leaving(d) == \E q \in DbCallers : dbCall[q].d = d /\ dbCall[q].kind = "deleteDb" /\ dbCall[q].at \in {"apps", "row"}

\* As long as nothing fails, where there is a StatefulSet there is its Service.
Healthy ==
    dbmix.faults = {} /\ HasService =>
        /\ \A s \in Slugs : object[s] # Nobody => service[s] = object[s]
        /\ \A d \in DbIds : /\ worker[d] \in {"starting", "wait"} => service[dbRow[d].slug] = d
                            /\ dbRow[d].status = "running" /\ ~Leaving(d) => service[dbRow[d].slug] = d

NamesFit == OneOwner /\ ServicesAreOwners /\ DeployedIsServed /\ WorkersHaveRows /\ CallsCountOn /\ Healthy
NameInv == Asked => NamesFit

\* Connection strings.
Whole == ~dbmix.overlap /\ dbmix.faults \cap {"cut", "restart"} = {}
Linking(a, v, d) == \E q \in DbCallers : /\ DbAt(q, {"link"}, "link")
                                         /\ dbCall[q].a = a /\ dbCall[q].v = v /\ dbCall[q].d = d
UrlsAreLinked ==
    \A a \in DbApps, v \in VarNames : urlIn[a][v] # Nobody /\ <<a, v>> \notin leftover =>
        [d |-> urlIn[a][v], a |-> a, v |-> v] \in links \/ Linking(a, v, urlIn[a][v])
LinksHaveRows ==
    /\ \A l \in links : HasRow(l.d)
    /\ \A q \in DbCallers : /\ DbAt(q, {"link"}, "link") => HasRow(dbCall[q].d) /\ HasApp(dbCall[q].a)
                            /\ DbAt(q, {"unlink"}, "link") =>
                                   \A v \in VarNames : urlIn[dbCall[q].a][v] = dbCall[q].d => <<dbCall[q].a, v>> \in leftover
\* A deletion takes the variables that are left of it, and none is left when it takes the row.
DeletionTakesUrls ==
    \A q \in DbCallers : DbAt(q, {"deleteDb"}, "apps") \/ DbAt(q, {"deleteDb"}, "row") =>
        /\ \A a \in DbApps, v \in VarNames : urlIn[a][v] = dbCall[q].d /\ <<a, v>> \notin leftover =>
               [d |-> urlIn[a][v], a |-> a, v |-> v] \in dbCall[q].left
        /\ DbAt(q, {"deleteDb"}, "row") => dbCall[q].left = {}
\* The cluster has an app's variables, unless a request is about to bring them.
ToBeSynced(a) == \E q \in DbCallers :
    /\ dbCall[q].a = a /\ dbCall[q].kind \in {"link", "unlink"} /\ dbCall[q].at \in {"link", "sync"}
    /\ DbAt(q, {"unlink"}, "link") => \E l \in links : l.d = dbCall[q].d /\ l.a = a
Injected(a) == \A v \in VarNames : urlIn[a][v] # Nobody => injected[a][v] = urlIn[a][v]
UrlsAreInjected ==
    "cluster" \notin dbmix.faults =>
        \A a \in DbApps : appRow[a].deployed => HasApp(a) /\ (Injected(a) \/ ToBeSynced(a))

UrlsFit == UrlsAreLinked /\ LinksHaveRows /\ DeletionTakesUrls /\ UrlsAreInjected
UrlInv == Whole => UrlsFit

DbInv == DbShape /\ (~dbmix.overlap => OneCall) /\ NameInv /\ UrlInv
-----------------------------------------------------------------------------
(* Every step keeps the shape.                                             *)

CallsFit == dbCall \in [DbCallers -> DbCallType] /\ \A q \in DbCallers : CallFits(dbCall[q])
\* Rows that were made stay made and keep their names.
RowsGoOn == /\ dbRow' \in [DbIds -> [slug : Slugs \cup {Nobody}, status : DbStatuses, sealed : BOOLEAN]]
            /\ \A d \in DbIds : dbRow[d].status # "never" => dbRow'[d].status # "never" /\ dbRow'[d].slug = dbRow[d].slug

LEMMA DbNames == /\ Nobody \notin DbIds /\ Nobody \notin DbApps /\ Nobody \notin Slugs /\ DbIds \cap DbApps = {}
                 /\ Nobody \notin DbKinds /\ DbMixes \subseteq DbMixType
BY DbNamesAssumption, DbMixesAssumption DEF Nobody, DbKinds, DbMixType

LEMMA NoCallIs == NoDbCall \in DbCallType /\ NoDbCall.at = "off" /\ CallFits(NoDbCall)
BY DEF NoDbCall, DbCallOf, DbCallType, DbPlaces, CallFits

\* Each handler begins at its first step and is about something there is.
LEMMA FirstStep ==
    ASSUME NEW c \in DbCalls
    PROVE  /\ c \in DbCallType
           /\ c.kind \in {"createDb", "createApp"} => c.at = "check"
           /\ c.kind = "template" => c.at = "row"
           /\ c.kind \in {"link", "unlink"} => c.at = "variable"
           /\ c.kind = "get" => c.at = "read"
           /\ c.kind = "deleteDb" => c.at = "links"
           /\ c.kind \in {"deploy", "deleteApp"} => c.at = "objects"
           /\ c.kind \in DbKinds
           /\ c.kind \in {"createDb", "link", "unlink", "get", "deleteDb"} => c.d \in DbIds
           /\ c.kind \in {"createApp", "template", "deploy", "deleteApp", "link", "unlink"} => c.a \in DbApps
           /\ c.kind \in {"createDb", "createApp", "template"} => c.s \in Slugs
           /\ c.kind = "link" => c.v \in VarNames
<1> USE DEF DbCallOf, DbCallType, DbPlaces, DbKinds
<1>1. CASE c \in HandleCreateDatabase
  BY <1>1 DEF HandleCreateDatabase
<1>2. CASE c \in HandleLinkDatabase
  BY <1>2 DEF HandleLinkDatabase
<1>3. CASE c \in HandleUnlinkDatabase
  BY <1>3 DEF HandleUnlinkDatabase
<1>4. CASE c \in HandleGetDatabase
  BY <1>4 DEF HandleGetDatabase
<1>5. CASE c \in HandleDeleteDatabase
  BY <1>5 DEF HandleDeleteDatabase
<1>6. CASE c \in OfAnApp
  BY <1>6 DEF OfAnApp
<1>7. CASE c \in NewApps
  BY <1>7 DEF NewApps
<1>8. QED BY <1>1, <1>2, <1>3, <1>4, <1>5, <1>6, <1>7 DEF DbCalls

LEMMA CallEnds == ASSUME DbShape, NEW q \in DbCallers, DbEnds(q), UNCHANGED dbmix, RowsGoOn PROVE CallsFit'
<1>1. \A r \in DbCallers : dbCall'[r] = IF r = q THEN NoDbCall ELSE dbCall[r]
  BY DEF DbEnds, DbShape, DbTypes
<1>2. dbCall' \in [DbCallers -> DbCallType]
  BY NoCallIs DEF DbEnds, DbShape, DbTypes
<1>3. \A r \in DbCallers : CallFits(dbCall[r])'
  BY <1>1, NoCallIs DEF CallFits, DbShape, RowsGoOn
<1>4. QED BY <1>2, <1>3 DEF CallsFit

LEMMA CallGoes ==
    ASSUME DbShape, NEW q \in DbCallers, dbCall[q].at # "off", NEW where \in DbPlaces \ {"off"}, DbGo(q, where),
           UNCHANGED dbmix, RowsGoOn, dbCall[q].kind = "createDb" /\ where = "seal" => dbRow'[dbCall[q].d].status # "never"
    PROVE  CallsFit'
<1>1. /\ dbCall' \in [DbCallers -> DbCallType] /\ \A r \in DbCallers : r # q => dbCall'[r] = dbCall[r]
      /\ dbCall'[q].at = where /\ dbCall'[q].kind = dbCall[q].kind /\ dbCall'[q].d = dbCall[q].d
      /\ dbCall'[q].a = dbCall[q].a /\ dbCall'[q].s = dbCall[q].s /\ dbCall'[q].v = dbCall[q].v
  BY DEF DbGo, DbShape, DbTypes, DbCallType
<1>2. \A r \in DbCallers : CallFits(dbCall[r])'
  BY <1>1 DEF CallFits, DbShape, RowsGoOn
<1>3. QED BY <1>1, <1>2 DEF CallsFit

LEMMA SameRows == DbShape /\ UNCHANGED dbRow => RowsGoOn
BY DEF DbShape, DbTypes, RowsGoOn

\* A status is written to a row there is.
LEMMA StatusGoes ==
    ASSUME DbShape, NEW d \in DbIds, NEW status \in DbStatuses \ {"never", "gone"}, SetDatabaseStatus(d, status)
    PROVE  /\ RowsGoOn /\ \A e \in DbIds : (HasRow(e) <=> HasRow(e)') /\ dbRow'[e].slug = dbRow[e].slug
           /\ \A e \in DbIds : dbRow'[e].status = dbRow[e].status \/ (e = d /\ dbRow'[e].status = status)
           /\ \A e \in DbIds : dbRow[e].status = "never" <=> dbRow'[e].status = "never"
<1>1. CASE HasRow(d)
  <2>1. dbRow' = [dbRow EXCEPT ![d].status = status]
    BY <1>1 DEF SetDatabaseStatus
  <2>2. /\ dbRow' \in [DbIds -> [slug : Slugs \cup {Nobody}, status : DbStatuses, sealed : BOOLEAN]]
        /\ \A e \in DbIds : e # d => dbRow'[e] = dbRow[e]
        /\ dbRow'[d].status = status /\ dbRow'[d].slug = dbRow[d].slug
    BY <2>1 DEF DbShape, DbTypes
  <2>3. QED BY <1>1, <2>2 DEF RowsGoOn, HasRow
<1>2. CASE ~HasRow(d)
  BY <1>2, SameRows DEF SetDatabaseStatus, HasRow
<1>3. QED BY <1>1, <1>2

\* The shape of everything but the calls and the rows.
RestFits ==
    /\ appRow \in [DbApps -> [slug : Slugs \cup {Nobody}, deployed : BOOLEAN]]
    /\ links \subseteq Links /\ leftover \subseteq DbApps \X VarNames
    /\ urlIn \in [DbApps -> [VarNames -> DbIds \cup {Nobody}]]
    /\ injected \in [DbApps -> [VarNames -> DbIds \cup {Nobody}]]
    /\ service \in [Slugs -> DbApps \cup DbIds \cup {Nobody}]
    /\ object \in [Slugs -> DbIds \cup {Nobody}]
LEMMA RestIs == DbShape => RestFits
BY DEF DbShape, DbTypes, RestFits

WorkersFit == worker \in [DbIds -> {"off", "component", "apply", "starting", "wait"}] /\ \A d \in DbIds : worker[d] # "off" => dbRow[d].status # "never"

LEMMA Shaped ==
    ASSUME DbShape, RowsGoOn, CallsFit', RestFits', WorkersFit', UNCHANGED dbmix, \A d \in DbIds : dbRow'[d].status # "never" => dbRow'[d].slug \in Slugs
    PROVE  DbShape'
BY DEF DbShape, DbTypes, RowsGoOn, CallsFit, RestFits, WorkersFit, RowsAreNamed

LEMMA WorkersStay == DbShape /\ UNCHANGED worker /\ RowsGoOn => WorkersFit'
BY DEF DbShape, DbTypes, RowsGoOn, WorkersFit, RowsAreNamed

LEMMA NamesStay ==
    ASSUME DbShape, RowsGoOn, \A d \in DbIds : dbRow[d].status = "never" => dbRow'[d].status = "never"
    PROVE  \A d \in DbIds : dbRow'[d].status # "never" => dbRow'[d].slug \in Slugs
BY DEF DbShape, RowsGoOn, RowsAreNamed

\* A request ends or goes on, and the rows of databases and their goroutines stay.
LEMMA RequestShaped ==
    ASSUME DbShape, CallsFit', RestFits', UNCHANGED <<dbRow, worker, dbmix>>
    PROVE  DbShape'
BY SameRows, NamesStay, WorkersStay, Shaped

LEMMA BeginShaped == ASSUME DbShape, NEW q \in DbCallers, NEW c \in DbCalls, DbBegin(q, c) PROVE DbShape'
<1>1. /\ dbCall' = [dbCall EXCEPT ![q] = c] /\ c.kind \in dbmix.kinds /\ (c.kind = "deleteDb" => HasRow(c.d))
      /\ UNCHANGED <<appRow, dbRow, links, urlIn, injected, service, object, worker, leftover, dbmix>>
  BY DEF DbBegin, DbAuthorized
<1>2. c \in DbCallType /\ CallFits(c)
  BY <1>1, FirstStep DEF CallFits, HasRow
<1>3. CallsFit'
  BY <1>1, <1>2 DEF CallsFit, CallFits, DbShape, DbTypes
<1>4. QED BY <1>1, <1>3, RequestShaped, RestIs DEF RestFits

LEMMA AsksShaped ==
    ASSUME DbShape, NEW q \in DbCallers,
           CheckSlug(q) \/ RequestCut(q) \/ \E force \in BOOLEAN : CheckLinks(q, force)
    PROVE  DbShape'
<1>1. UNCHANGED <<appRow, dbRow, links, urlIn, injected, service, object, worker, leftover, dbmix>>
  BY DEF CheckSlug, RequestCut, CheckLinks
<1>2. \/ DbEnds(q)
      \/ dbCall[q].at # "off" /\ dbCall[q].kind # "createDb" /\ DbGo(q, "objects")
      \/ dbCall[q].at # "off" /\ DbGo(q, "row")
  BY DEF CheckSlug, RequestCut, CheckLinks, DbAt
<1>3. CallsFit'
  BY <1>1, <1>2, CallEnds, CallGoes, SameRows DEF DbPlaces
<1>4. QED BY <1>1, <1>3, RequestShaped, RestIs DEF RestFits

LEMMA CreateAppRowShaped == ASSUME DbShape, NEW q \in DbCallers, CreateAppRow(q) PROVE DbShape'
<1>1. /\ DbEnds(q) /\ UNCHANGED <<dbRow, links, urlIn, injected, service, object, worker, leftover, dbmix>>
      /\ dbCall[q].kind \in {"createApp", "template"} /\ dbCall[q].at # "off"
      /\ appRow' = appRow \/ appRow' = [appRow EXCEPT ![dbCall[q].a].slug = dbCall[q].s]
  BY DEF CreateAppRow, DbAt
<1>2. dbCall[q].a \in DbApps /\ dbCall[q].s \in Slugs
  BY <1>1 DEF DbShape, CallFits
<1>3. RestFits'
  BY <1>1, <1>2, RestIs DEF RestFits
<1>4. QED BY <1>1, <1>3, RequestShaped, CallEnds, SameRows

LEMMA CreateDatabaseShaped == ASSUME DbShape, NEW q \in DbCallers, CreateDatabase(q) PROVE DbShape'
<1>1. /\ UNCHANGED <<appRow, links, urlIn, injected, service, object, worker, leftover, dbmix>>
      /\ dbCall[q].kind = "createDb" /\ dbCall[q].at # "off"
  BY DEF CreateDatabase, DbAt
<1>2. dbCall[q].d \in DbIds /\ dbCall[q].s \in Slugs
  BY <1>1 DEF DbShape, CallFits
<1>3. CASE DbEnds(q) /\ UNCHANGED dbRow
  BY <1>1, <1>3, RequestShaped, CallEnds, SameRows, RestIs DEF RestFits
<1>4. CASE dbRow' = [dbRow EXCEPT ![dbCall[q].d] = [slug |-> dbCall[q].s, status |-> "creating", sealed |-> FALSE]] /\ DbGo(q, "seal")
  <2> DEFINE new == [slug |-> dbCall[q].s, status |-> "creating", sealed |-> FALSE]
  <2>1. /\ dbRow' \in [DbIds -> [slug : Slugs \cup {Nobody}, status : DbStatuses, sealed : BOOLEAN]]
        /\ dbRow'[dbCall[q].d] = new /\ \A e \in DbIds : e # dbCall[q].d => dbRow'[e] = dbRow[e]
    BY <1>2, <1>4 DEF DbShape, DbTypes, DbStatuses
  <2>2. CallsFit'
    <3>1. /\ dbCall' \in [DbCallers -> DbCallType] /\ \A r \in DbCallers : r # q => dbCall'[r] = dbCall[r]
          /\ dbCall'[q].at = "seal" /\ dbCall'[q].kind = dbCall[q].kind /\ dbCall'[q].d = dbCall[q].d
          /\ dbCall'[q].a = dbCall[q].a /\ dbCall'[q].s = dbCall[q].s /\ dbCall'[q].v = dbCall[q].v
      BY <1>4 DEF DbGo, DbShape, DbTypes, DbCallType, DbPlaces
    <3>2. \A r \in DbCallers : CallFits(dbCall[r])'
      BY <1>1, <1>2, <2>1, <3>1 DEF CallFits, DbShape
    <3>3. QED BY <3>1, <3>2 DEF CallsFit
  <2>3. WorkersFit'
    BY <1>1, <2>1 DEF WorkersFit, DbShape, DbTypes, RowsAreNamed
  <2>4. RowsAreNamed'
    BY <1>1, <1>2, <2>1 DEF DbShape, RowsAreNamed
  <2>5. QED BY <1>1, <2>1, <2>2, <2>3, <2>4 DEF DbShape, DbTypes, CallsFit, WorkersFit
<1>5. QED BY <1>3, <1>4 DEF CreateDatabase

LEMMA SealShaped == ASSUME DbShape, NEW q \in DbCallers, SealAndProvision(q) PROVE DbShape'
<1>1. /\ UNCHANGED <<appRow, links, urlIn, injected, service, object, leftover, dbmix>> /\ DbEnds(q)
      /\ dbCall[q].kind = "createDb" /\ dbCall[q].at = "seal"
      /\ dbRow' = [dbRow EXCEPT ![dbCall[q].d].sealed = TRUE]
      /\ worker' = [worker EXCEPT ![dbCall[q].d] = IF dbmix.engine = "postgres" THEN "component" ELSE "apply"]
  BY DEF SealAndProvision, DbAt
<1>2. dbCall[q].d \in DbIds /\ dbRow[dbCall[q].d].status # "never"
  BY <1>1 DEF DbShape, CallFits
<1>3. /\ dbRow' \in [DbIds -> [slug : Slugs \cup {Nobody}, status : DbStatuses, sealed : BOOLEAN]]
      /\ \A e \in DbIds : dbRow'[e].status = dbRow[e].status /\ dbRow'[e].slug = dbRow[e].slug
  BY <1>1, <1>2 DEF DbShape, DbTypes
<1>4. RowsGoOn
  BY <1>3 DEF RowsGoOn
<1>5. WorkersFit'
  BY <1>1, <1>2, <1>3 DEF WorkersFit, DbShape, DbTypes, RowsAreNamed
<1>6. RestFits'
  BY <1>1, RestIs DEF RestFits
<1>7. QED BY <1>1, <1>3, <1>4, <1>5, <1>6, CallEnds, NamesStay, Shaped

LEMMA ReadStatuses == ASSUME NEW d, NEW status \in ReadStatus(d) PROVE status \in DbStatuses \ {"never", "gone"}
<1>1. \A o : InterpretCNPGStatus(o) \in {"degraded", "running", "failed", "starting"} /\ StatefulSetStatus(o) \in {"running", "degraded", "starting"}
  BY DEF InterpretCNPGStatus, StatefulSetStatus
<1>2. QED BY <1>1 DEF ReadStatus, PostgresStatus, DbStatuses

LEMMA GetShaped == ASSUME DbShape, NEW q \in DbCallers, GetDatabase(q) PROVE DbShape'
<1>1. /\ UNCHANGED <<appRow, links, urlIn, injected, service, object, worker, leftover, dbmix>> /\ DbEnds(q)
      /\ dbCall[q].kind = "get" /\ dbCall[q].at # "off"
  BY DEF GetDatabase, DbAt
<1>2. dbCall[q].d \in DbIds
  BY <1>1 DEF DbShape, CallFits
<1>3. RowsGoOn /\ \A d \in DbIds : dbRow[d].status = "never" => dbRow'[d].status = "never"
  BY <1>2, ReadStatuses, StatusGoes, SameRows DEF GetDatabase
<1>4. RestFits'
  BY <1>1, RestIs DEF RestFits
<1>5. QED BY <1>1, <1>3, <1>4, CallEnds, NamesStay, WorkersStay, Shaped

\* A goroutine goes on; the row it works for has a status or stays.
LEMMA WorkerShaped ==
    ASSUME DbShape, NEW d \in DbIds, worker[d] # "off", NEW where \in {"off", "component", "apply", "starting", "wait"}, WorkerTo(d, where),
           dbRow' = dbRow \/ \E status \in {"starting", "running", "failed"} : SetDatabaseStatus(d, status),
           UNCHANGED <<dbCall, dbmix>>, RestFits'
    PROVE  DbShape'
<1>1. RowsGoOn /\ \A e \in DbIds : dbRow[e].status = "never" => dbRow'[e].status = "never"
  BY StatusGoes, SameRows DEF DbStatuses
<1>2. WorkersFit'
  BY <1>1 DEF WorkerTo, WorkersFit, DbShape, DbTypes, RowsAreNamed, RowsGoOn
<1>3. CallsFit'
  BY <1>1 DEF CallsFit, CallFits, DbShape, DbTypes, RowsGoOn
<1>4. QED BY <1>1, <1>2, <1>3, NamesStay, Shaped

LEMMA ApplyShaped ==
    ASSUME DbShape, NEW d \in DbIds, NEW n \in 0..Len(Objects), ApplyDatabase(d, n) PROVE DbShape'
<1>1. /\ worker[d] # "off" /\ UNCHANGED <<appRow, links, urlIn, injected, dbCall, leftover, dbmix>>
      /\ object' = object \/ object' = [object EXCEPT ![dbRow[d].slug] = d]
      /\ service' = service \/ service' = [service EXCEPT ![dbRow[d].slug] = d]
      /\ \/ WorkerTo(d, "starting") /\ UNCHANGED dbRow
         \/ WorkerTo(d, "off") /\ Fail(d)
  BY DEF ApplyDatabase
<1>2. RestFits'
  BY <1>1 DEF DbShape, DbTypes, RestFits
<1>3. QED BY <1>1, <1>2, WorkerShaped DEF Fail

LEMMA ProvisionShaped == ASSUME DbShape, NEW d \in DbIds, Provision(d) PROVE DbShape'
<1>1. CASE EnsureComponent(d)
  BY <1>1, RestIs, WorkerShaped DEF EnsureComponent, Fail, RestFits
<1>2. CASE MarkStarting(d)
  BY <1>2, RestIs, WorkerShaped DEF MarkStarting, RestFits
<1>3. CASE WaitReady(d)
  BY <1>3, RestIs, WorkerShaped DEF WaitReady, Fail, RestFits
<1>4. QED BY <1>1, <1>2, <1>3, ApplyShaped DEF Provision

LEMMA RestartShaped == ASSUME DbShape, Restart PROVE DbShape'
<1>1. /\ UNCHANGED <<appRow, links, urlIn, injected, service, object, leftover, dbmix>>
      /\ worker' = [d \in DbIds |-> "off"] /\ dbCall' = [q \in DbCallers |-> NoDbCall]
      /\ dbRow' = [d \in DbIds |-> IF MarkInterrupted(d) THEN [dbRow[d] EXCEPT !.status = "failed"] ELSE dbRow[d]]
  BY DEF Restart
<1>2. /\ dbRow' \in [DbIds -> [slug : Slugs \cup {Nobody}, status : DbStatuses, sealed : BOOLEAN]]
      /\ \A e \in DbIds : /\ dbRow'[e].slug = dbRow[e].slug
                          /\ dbRow'[e].status = dbRow[e].status \/ (MarkInterrupted(e) /\ dbRow'[e].status = "failed")
  BY <1>1 DEF DbShape, DbTypes, DbStatuses
<1>3. RowsGoOn /\ \A d \in DbIds : dbRow[d].status = "never" => dbRow'[d].status = "never"
  BY <1>2 DEF RowsGoOn, MarkInterrupted
<1>4. CallsFit'
  BY <1>1, NoCallIs DEF CallsFit, CallFits
<1>5. QED BY <1>1, <1>3, <1>4, NamesStay, Shaped, RestIs DEF WorkersFit, RestFits

LEMMA PatchFits ==
    ASSUME DbShape, NEW a \in DbApps, NEW urls \in [VarNames -> DbIds \cup {Nobody}]
    PROVE  Patched(a, urls) \in [VarNames -> DbIds \cup {Nobody}]
BY DEF Patched, DbShape, DbTypes

LEMMA SyncFits ==
    ASSUME DbShape, NEW a \in DbApps, NEW urls \in [VarNames -> DbIds \cup {Nobody}], SyncApp(a, urls)
    PROVE  /\ service' \in [Slugs -> DbApps \cup DbIds \cup {Nobody}]
           /\ injected' \in [DbApps -> [VarNames -> DbIds \cup {Nobody}]]
<1>1. service' = service \/ service' = [service EXCEPT ![appRow[a].slug] = a]
  BY DEF SyncApp
<1>2. injected' = injected \/ injected' = [injected EXCEPT ![a] = Patched(a, urls)]
  BY DEF SyncApp
<1>3. PICK held : held \in [VarNames -> DbIds \cup {Nobody}] /\ (injected' = injected \/ injected' = [injected EXCEPT ![a] = held])
  BY <1>2, PatchFits
<1>4. injected' \in [DbApps -> [VarNames -> DbIds \cup {Nobody}]]
  BY <1>3 DEF DbShape, DbTypes
<1>5. service' \in [Slugs -> DbApps \cup DbIds \cup {Nobody}]
  BY <1>1 DEF DbShape, DbTypes
<1>6. QED BY <1>4, <1>5

LEMMA AppsShaped ==
    ASSUME DbShape, NEW q \in DbCallers, DeployApp(q) \/ DeleteAppHere(q) PROVE DbShape'
<1>1. /\ dbCall[q].kind \in {"deploy", "deleteApp"} /\ dbCall[q].at # "off" /\ DbEnds(q) /\ UNCHANGED <<dbRow, worker, dbmix>>
  BY DEF DeployApp, DeleteAppHere, DbAt
<1>2. dbCall[q].a \in DbApps
  BY <1>1 DEF DbShape, CallFits
<1>3. ASSUME DeployApp(q) PROVE RestFits'
  <2>1. /\ appRow' = appRow \/ appRow' = [appRow EXCEPT ![dbCall[q].a].deployed = TRUE]
        /\ service' = service \/ service' = [service EXCEPT ![appRow[dbCall[q].a].slug] = dbCall[q].a]
        /\ injected' = injected \/ injected' = [injected EXCEPT ![dbCall[q].a] = Patched(dbCall[q].a, urlIn[dbCall[q].a])]
        /\ UNCHANGED <<links, urlIn, object, leftover>>
    BY <1>3 DEF DeployApp
  <2>2. appRow' \in [DbApps -> [slug : Slugs \cup {Nobody}, deployed : BOOLEAN]]
    <3>1. CASE appRow' = appRow
      BY <3>1 DEF DbShape, DbTypes
    <3>2. CASE appRow' = [appRow EXCEPT ![dbCall[q].a].deployed = TRUE]
      BY <1>2, <3>2 DEF DbShape, DbTypes
    <3>3. QED BY <2>1, <3>1, <3>2
  <2>3. service' \in [Slugs -> DbApps \cup DbIds \cup {Nobody}]
    BY <1>2, <2>1 DEF DbShape, DbTypes
  <2>4. injected' \in [DbApps -> [VarNames -> DbIds \cup {Nobody}]]
    <3>1. Patched(dbCall[q].a, urlIn[dbCall[q].a]) \in [VarNames -> DbIds \cup {Nobody}]
      BY <1>2, PatchFits DEF DbShape, DbTypes
    <3>2. QED BY <1>2, <2>1, <3>1 DEF DbShape, DbTypes
  <2>5. QED BY <2>1, <2>2, <2>3, <2>4 DEF DbShape, DbTypes, RestFits
<1>4. ASSUME DeleteAppHere(q) PROVE RestFits'
  <2>1. NoAppRow \in [slug : Slugs \cup {Nobody}, deployed : BOOLEAN] /\ NoUrls \in [VarNames -> DbIds \cup {Nobody}]
    BY DEF NoAppRow, NoUrls
  <2>2. links' \subseteq Links /\ leftover' \subseteq DbApps \X VarNames
    BY <1>4 DEF DeleteAppHere, DbShape, DbTypes
  <2>3. service' \in [Slugs -> DbApps \cup DbIds \cup {Nobody}]
    BY <1>4 DEF DeleteAppHere, DbShape, DbTypes
  <2>4. QED BY <1>2, <1>4, <2>1, <2>2, <2>3 DEF DeleteAppHere, DbShape, DbTypes, RestFits
<1>5. RestFits'
  BY <1>3, <1>4
<1>6. QED BY <1>1, <1>5, RequestShaped, CallEnds, SameRows

LEMMA LeftoverFits ==
    ASSUME NEW these \in SUBSET Links, NEW d PROVE LeftBehind(these, d) \subseteq DbApps \X VarNames
BY DEF LeftBehind, Links

LEMMA LinksShaped ==
    ASSUME DbShape, NEW q \in DbCallers,
           LinkVariable(q) \/ LinkDatabase(q) \/ UnlinkVariable(q) \/ UnlinkDatabase(q) \/ SyncAfterLink(q)
    PROVE  DbShape'
<1>1. /\ dbCall[q].kind \in {"link", "unlink"} /\ dbCall[q].at # "off" /\ UNCHANGED <<dbRow, worker, dbmix>>
      /\ DbEnds(q) \/ DbGo(q, "link") \/ DbGo(q, "sync")
  BY DEF LinkVariable, LinkDatabase, UnlinkVariable, UnlinkDatabase, SyncAfterLink, DbAt
<1>2. /\ dbCall[q].a \in DbApps /\ dbCall[q].d \in DbIds
      /\ dbCall[q].kind = "link" => dbCall[q].v \in VarNames
  BY <1>1 DEF DbShape, CallFits
<1>3. CallsFit'
  BY <1>1, CallEnds, CallGoes, SameRows DEF DbPlaces
<1>4. ASSUME LinkVariable(q) PROVE RestFits'
  <2>1. /\ urlIn' = urlIn \/ urlIn' = [urlIn EXCEPT ![dbCall[q].a][dbCall[q].v] = dbCall[q].d]
        /\ leftover' \subseteq leftover /\ UNCHANGED <<appRow, links, injected, service, object>> /\ dbCall[q].v \in VarNames
    BY <1>2, <1>4 DEF LinkVariable, DbAt
  <2>2. urlIn' \in [DbApps -> [VarNames -> DbIds \cup {Nobody}]]
    <3>1. CASE urlIn' = urlIn
      BY <3>1 DEF DbShape, DbTypes
    <3>2. CASE urlIn' = [urlIn EXCEPT ![dbCall[q].a][dbCall[q].v] = dbCall[q].d]
      BY <1>2, <2>1, <3>2 DEF DbShape, DbTypes
    <3>3. QED BY <2>1, <3>1, <3>2
  <2>3. QED BY <2>1, <2>2 DEF DbShape, DbTypes, RestFits
<1>5. ASSUME LinkDatabase(q) PROVE RestFits'
  <2>1. dbCall[q].v \in VarNames
    BY <1>2, <1>5 DEF LinkDatabase, DbAt
  <2>2. links' \subseteq Links
    BY <1>2, <1>5, <2>1 DEF LinkDatabase, DbShape, DbTypes, Links
  <2>3. leftover' \subseteq DbApps \X VarNames
    <3>1. /\ links \subseteq Links /\ leftover \subseteq DbApps \X VarNames
          /\ leftover' = leftover \/ \E these \in SUBSET links : leftover' = leftover \cup LeftBehind(these, dbCall[q].d)
      BY <1>5 DEF LinkDatabase, DbShape, DbTypes
    <3>2. QED BY <3>1, LeftoverFits
  <2>4. QED BY <1>5, <2>2, <2>3 DEF LinkDatabase, DbShape, DbTypes, RestFits
<1>6. ASSUME UnlinkVariable(q) PROVE RestFits'
  <2> DEFINE names == {l.v : l \in {k \in links : k.a = dbCall[q].a /\ k.d = dbCall[q].d}}
             new == [v \in VarNames |-> IF v \in names THEN Nobody ELSE urlIn[dbCall[q].a][v]]
  <2>1. urlIn' = [urlIn EXCEPT ![dbCall[q].a] = new]
    BY <1>6 DEF UnlinkVariable
  <2>2. new \in [VarNames -> DbIds \cup {Nobody}]
    BY <1>2 DEF DbShape, DbTypes
  <2> HIDE DEF new
  <2>3. QED BY <1>2, <1>6, <2>1, <2>2 DEF UnlinkVariable, DbShape, DbTypes, RestFits
<1>7. ASSUME UnlinkDatabase(q) PROVE RestFits'
  BY <1>7 DEF UnlinkDatabase, DbShape, DbTypes, RestFits
<1>8. ASSUME SyncAfterLink(q) PROVE RestFits'
  BY <1>2, <1>8, SyncFits DEF SyncAfterLink, DbShape, DbTypes, RestFits
<1>9. QED BY <1>1, <1>3, <1>4, <1>5, <1>6, <1>7, <1>8, RequestShaped

LEMMA DeleteObjectsShaped ==
    ASSUME DbShape, NEW q \in DbCallers, NEW ended, DeleteObjects(q, ended) PROVE DbShape'
<1>1. /\ dbCall[q].kind = "deleteDb" /\ dbCall[q].at # "off"
      /\ UNCHANGED <<appRow, dbRow, links, urlIn, injected, worker, dbmix>>
      /\ leftover' = leftover \/ \E these \in SUBSET links : leftover' = leftover \cup LeftBehind(these, dbCall[q].d)
      /\ DbEnds(q) \/ \E listed \in SUBSET links : dbCall' = [dbCall EXCEPT ![q].at = "apps", ![q].left = listed]
  BY DEF DeleteObjects, DbAt
<1>2. dbCall[q].d \in DbIds /\ links \subseteq Links
  BY <1>1 DEF DbShape, DbTypes, CallFits
<1>3. RestFits'
  <2>1. leftover' \subseteq DbApps \X VarNames
    <3>1. leftover \subseteq DbApps \X VarNames
      BY DEF DbShape, DbTypes
    <3>2. QED BY <1>1, <1>2, <3>1, LeftoverFits
  <2>2. object' \in [Slugs -> DbIds \cup {Nobody}] /\ service' \in [Slugs -> DbApps \cup DbIds \cup {Nobody}]
    BY <1>2 DEF DeleteObjects, DbShape, DbTypes
  <2>3. QED BY <1>1, <2>1, <2>2 DEF DbShape, DbTypes, RestFits
<1>4. CallsFit'
  <2>1. CASE DbEnds(q)
    BY <1>1, <2>1, CallEnds, SameRows
  <2>2. ASSUME NEW listed \in SUBSET links, dbCall' = [dbCall EXCEPT ![q].at = "apps", ![q].left = listed] PROVE CallsFit'
    <3>1. /\ dbCall' \in [DbCallers -> DbCallType] /\ \A r \in DbCallers : r # q => dbCall'[r] = dbCall[r]
          /\ dbCall'[q].kind = "deleteDb" /\ dbCall'[q].d = dbCall[q].d
      <4>1. PICK f : f = [dbCall EXCEPT ![q].at = "apps"]
        OBVIOUS
      <4>2. /\ f \in [DbCallers -> DbCallType] /\ \A r \in DbCallers : r # q => f[r] = dbCall[r]
            /\ f[q].kind = "deleteDb" /\ f[q].d = dbCall[q].d
        <5>1. dbCall \in [DbCallers -> DbCallType] /\ "apps" \in DbPlaces
          BY DEF DbShape, DbTypes, DbPlaces
        <5>2. QED BY <1>1, <4>1, <5>1 DEF DbCallType
      <4>3. dbCall' = [f EXCEPT ![q].left = listed]
        BY <2>2, <4>1
      <4>4. listed \in SUBSET Links
        BY <1>2
      <4>5. QED BY <4>2, <4>3, <4>4 DEF DbCallType
    <3>2. "deleteDb" \in dbmix.kinds /\ dbRow[dbCall[q].d].status # "never"
      BY <1>1 DEF DbShape, CallFits
    <3>3. CallFits(dbCall[q])'
      BY <1>1, <1>2, <3>1, <3>2 DEF CallFits
    <3>4. \A r \in DbCallers : CallFits(dbCall[r])'
      BY <1>1, <3>1, <3>3 DEF CallFits, DbShape
    <3>5. QED BY <3>1, <3>4 DEF CallsFit
  <2>3. QED BY <1>1, <2>1, <2>2
<1>5. QED BY <1>1, <1>3, <1>4, RequestShaped

LEMMA DeleteLinkedShaped ==
    ASSUME DbShape, NEW q \in DbCallers, DeleteLinkedVariable(q) PROVE DbShape'
<1>1. /\ dbCall[q].kind = "deleteDb" /\ dbCall[q].at = "apps"
      /\ UNCHANGED <<appRow, dbRow, links, object, worker, dbmix>>
  BY DEF DeleteLinkedVariable, DbAt
<1>2. dbCall[q].left \subseteq Links
  BY DEF DbShape, DbTypes, DbCallType
<1>3. CASE DbGo(q, "row") /\ UNCHANGED <<urlIn, leftover, service, injected>>
  <2>1. CallsFit'
    BY <1>1, <1>3, CallGoes, SameRows DEF DbPlaces
  <2>2. RestFits'
    BY <1>1, <1>3, RestIs DEF RestFits
  <2>3. QED BY <1>1, <2>1, <2>2, RequestShaped
<1>4. ASSUME NEW l \in dbCall[q].left, urlIn' = urlIn \/ urlIn' = [urlIn EXCEPT ![l.a][l.v] = Nobody],
             leftover' = leftover \/ leftover' = leftover \cup LeftBehind({l}, dbCall[q].d), SyncApp(l.a, urlIn'[l.a]),
             dbCall' = [dbCall EXCEPT ![q].left = @ \ {l}]
      PROVE  DbShape'
  <2>1. l.a \in DbApps /\ l.v \in VarNames /\ {l} \in SUBSET Links
    BY <1>2, <1>4 DEF Links
  <2>2. urlIn' \in [DbApps -> [VarNames -> DbIds \cup {Nobody}]]
    <3>1. CASE urlIn' = urlIn
      BY <3>1 DEF DbShape, DbTypes
    <3>2. CASE urlIn' = [urlIn EXCEPT ![l.a][l.v] = Nobody]
      BY <2>1, <3>2 DEF DbShape, DbTypes
    <3>3. QED BY <1>4, <3>1, <3>2
  <2>3. RestFits'
    <3>1. leftover' \subseteq DbApps \X VarNames
      <4>1. leftover \subseteq DbApps \X VarNames
        BY DEF DbShape, DbTypes
      <4>2. QED BY <1>4, <2>1, <4>1, LeftoverFits
    <3>2. QED BY <1>1, <1>4, <2>1, <2>2, <3>1, SyncFits DEF DbShape, DbTypes, RestFits
  <2>4. /\ dbCall' \in [DbCallers -> DbCallType] /\ \A r \in DbCallers : r # q => dbCall'[r] = dbCall[r]
        /\ dbCall'[q].kind = dbCall[q].kind /\ dbCall'[q].d = dbCall[q].d /\ dbCall'[q].at = dbCall[q].at
        /\ dbCall'[q].a = dbCall[q].a /\ dbCall'[q].s = dbCall[q].s /\ dbCall'[q].v = dbCall[q].v
    <3>1. dbCall \in [DbCallers -> DbCallType] /\ dbCall' = [dbCall EXCEPT ![q].left = @ \ {l}]
      BY <1>4 DEF DbShape, DbTypes
    <3>2. QED BY <3>1 DEF DbCallType
  <2>5. CallsFit'
    BY <1>1, <2>4 DEF CallsFit, CallFits, DbShape
  <2>6. QED BY <1>1, <2>3, <2>5, RequestShaped
<1>5. QED BY <1>3, <1>4 DEF DeleteLinkedVariable

LEMMA DeleteRowShaped ==
    ASSUME DbShape, NEW q \in DbCallers, DeleteDatabaseRow(q) PROVE DbShape'
<1>1. /\ dbCall[q].kind = "deleteDb" /\ dbCall[q].at # "off" /\ DbEnds(q)
      /\ UNCHANGED <<appRow, urlIn, injected, service, object, worker, leftover, dbmix>> /\ links' \subseteq links
      /\ dbRow' = dbRow \/ (HasRow(dbCall[q].d) /\ dbRow' = [dbRow EXCEPT ![dbCall[q].d].status = "gone"])
  BY DEF DeleteDatabaseRow, DbAt
<1>2. dbCall[q].d \in DbIds
  BY <1>1 DEF DbShape, CallFits
<1>3. /\ dbRow' \in [DbIds -> [slug : Slugs \cup {Nobody}, status : DbStatuses, sealed : BOOLEAN]]
      /\ \A e \in DbIds : /\ dbRow'[e].slug = dbRow[e].slug
                          /\ dbRow'[e].status = dbRow[e].status \/ (HasRow(e) /\ dbRow'[e].status = "gone")
  <2>1. dbRow \in [DbIds -> [slug : Slugs \cup {Nobody}, status : DbStatuses, sealed : BOOLEAN]] /\ "gone" \in DbStatuses
    BY DEF DbShape, DbTypes, DbStatuses
  <2>2. CASE dbRow' = dbRow
    BY <2>1, <2>2
  <2>3. CASE HasRow(dbCall[q].d) /\ dbRow' = [dbRow EXCEPT ![dbCall[q].d].status = "gone"]
    BY <1>2, <2>1, <2>3
  <2>4. QED BY <1>1, <2>2, <2>3
<1>4. RowsGoOn /\ \A d \in DbIds : dbRow[d].status = "never" => dbRow'[d].status = "never"
  BY <1>3 DEF RowsGoOn, HasRow
<1>5. RestFits'
  BY <1>1 DEF DbShape, DbTypes, RestFits
<1>6. QED BY <1>1, <1>4, <1>5, CallEnds, NamesStay, WorkersStay, Shaped

LEMMA HandleShaped == ASSUME DbShape, NEW q \in DbCallers, Handle(q) PROVE DbShape'
BY AsksShaped, CreateAppRowShaped, CreateDatabaseShaped, SealShaped, GetShaped, AppsShaped, LinksShaped, DeleteObjectsShaped,
   DeleteLinkedShaped, DeleteRowShaped DEF Handle

LEMMA ShapeKeeps == DbShape /\ [DbNext]_dbVars => DbShape'
<1> SUFFICES ASSUME DbShape, [DbNext]_dbVars PROVE DbShape'
  OBVIOUS
<1>1. CASE UNCHANGED dbVars
  BY <1>1 DEF dbVars, DbShape, DbTypes, CallFits, RowsAreNamed
<1>2. CASE DbNext
  BY <1>2, BeginShaped, AsksShaped, HandleShaped, ProvisionShaped, RestartShaped DEF DbNext
<1>3. QED BY <1>1, <1>2

LEMMA ShapeStarts == DbInit => DbShape
<1> SUFFICES ASSUME DbInit PROVE DbShape
  OBVIOUS
<1>1. NoAppRow \in [slug : Slugs \cup {Nobody}, deployed : BOOLEAN] /\ NoUrls \in [VarNames -> DbIds \cup {Nobody}]
      /\ NoDatabase \in [slug : Slugs \cup {Nobody}, status : DbStatuses, sealed : BOOLEAN] /\ NoDatabase.status = "never"
  BY DEF NoAppRow, NoUrls, NoDatabase, DbStatuses
<1>2. dbmix \in DbMixType
  BY DbNames DEF DbInit
<1>3. DbTypes
  BY <1>1, <1>2, NoCallIs DEF DbInit, DbTypes
<1>4. QED BY <1>1, <1>3, NoCallIs DEF DbShape, DbInit, RowsAreNamed, CallFits

LEMMA HandleIsOnes ==
    ASSUME DbShape, NEW q \in DbCallers, Handle(q) \/ RequestCut(q)
    PROVE  dbCall[q].at # "off" /\ dbmix' = dbmix /\ \A r \in DbCallers : r # q => dbCall'[r] = dbCall[r]
<1>1. UNCHANGED dbmix /\ dbCall[q].at # "off" /\ \E c : dbCall' = [dbCall EXCEPT ![q] = c]
  <2>1. CASE RequestCut(q)
    BY <2>1 DEF RequestCut, DbEnds
  <2>2. CASE CheckSlug(q)
    BY <2>2 DEF CheckSlug, DbEnds, DbGo, DbAt
  <2>3. CASE CreateAppRow(q) \/ CreateDatabase(q) \/ SealAndProvision(q)
    BY <2>3 DEF CreateAppRow, CreateDatabase, SealAndProvision, DbEnds, DbGo, DbAt
  <2>4. CASE GetDatabase(q) \/ DeployApp(q) \/ DeleteAppHere(q)
    BY <2>4 DEF GetDatabase, DeployApp, DeleteAppHere, DbEnds, DbGo, DbAt
  <2>5. CASE LinkVariable(q) \/ LinkDatabase(q)
    BY <2>5 DEF LinkVariable, LinkDatabase, DbEnds, DbGo, DbAt
  <2>6. CASE UnlinkVariable(q) \/ UnlinkDatabase(q) \/ SyncAfterLink(q)
    BY <2>6 DEF UnlinkVariable, UnlinkDatabase, SyncAfterLink, DbEnds, DbGo, DbAt
  <2>7. CASE \E force \in BOOLEAN : CheckLinks(q, force)
    BY <2>7 DEF CheckLinks, DbEnds, DbGo, DbAt
  <2>8. ASSUME NEW ended \in {"no", "first", "second"}, DeleteObjects(q, ended)
        PROVE  UNCHANGED dbmix /\ dbCall[q].at # "off" /\ \E c : dbCall' = [dbCall EXCEPT ![q] = c]
    BY <2>8 DEF DeleteObjects, DbEnds, DbAt
  <2>9. CASE DeleteLinkedVariable(q)
    BY <2>9 DEF DeleteLinkedVariable, DbGo, DbAt
  <2>10. CASE DeleteDatabaseRow(q)
    BY <2>10 DEF DeleteDatabaseRow, DbEnds, DbAt
  <2>11. QED BY <2>1, <2>2, <2>3, <2>4, <2>5, <2>6, <2>7, <2>8, <2>9, <2>10 DEF Handle
<1>2. QED BY <1>1 DEF DbShape, DbTypes

LEMMA OneCallStays == DbShape /\ (~dbmix.overlap => OneCall) /\ [DbNext]_dbVars => (~dbmix'.overlap => OneCall')
<1> SUFFICES ASSUME DbShape, ~dbmix.overlap => OneCall, [DbNext]_dbVars PROVE ~dbmix'.overlap => OneCall'
  OBVIOUS
<1>1. CASE UNCHANGED dbVars
  BY <1>1 DEF dbVars, OneCall
<1>2. ASSUME NEW q \in DbCallers, NEW c \in DbCalls, DbBegin(q, c) PROVE ~dbmix'.overlap => OneCall'
  <2>1. /\ dbmix' = dbmix /\ dbCall' = [dbCall EXCEPT ![q] = c] /\ (~dbmix.overlap => DbQuiet)
    BY <1>2 DEF DbBegin
  <2>2. QED BY <2>1 DEF DbQuiet, OneCall, DbShape, DbTypes
<1>3. ASSUME NEW q \in DbCallers, Handle(q) \/ RequestCut(q) PROVE ~dbmix'.overlap => OneCall'
  BY <1>3, HandleIsOnes DEF OneCall
<1>4. ASSUME NEW d \in DbIds, Provision(d) PROVE ~dbmix'.overlap => OneCall'
  BY <1>4 DEF Provision, EnsureComponent, ApplyDatabase, MarkStarting, WaitReady, OneCall
<1>5. CASE Restart
  BY <1>5, NoCallIs DEF Restart, OneCall
<1>6. QED BY <1>1, <1>2, <1>3, <1>4, <1>5 DEF DbNext

-----------------------------------------------------------------------------
(* Names.                                                                  *)

Sound == dbmix.faults = {} /\ HasService

LEMMA SameOwners ==
    ASSUME UNCHANGED appRow, \A d \in DbIds : (HasRow(d)' <=> HasRow(d)) /\ dbRow'[d].slug = dbRow[d].slug
    PROVE  \A s : SlugOwner(s)' = SlugOwner(s)
BY DEF SlugOwner

\* Statuses, goroutines and StatefulSets change while names and Services stay.
LEMMA NamesStaySo ==
    ASSUME DbShape, DbShape', NamesFit, UNCHANGED <<appRow, service, dbmix>>,
           \A d \in DbIds : /\ HasRow(d)' <=> HasRow(d)
                            /\ dbRow'[d].slug = dbRow[d].slug /\ (dbRow[d].status = "never" <=> dbRow'[d].status = "never"),
           Sound => \A d \in DbIds : /\ dbRow'[d].status = "running" => dbRow[d].status = "running" \/ service[dbRow[d].slug] = d
                                     /\ worker'[d] \in {"starting", "wait"} => service[dbRow[d].slug] = d
                                     /\ Leaving(d) => Leaving(d)',
           Sound => \A s \in Slugs : object'[s] # Nobody => service[s] = object'[s],
           \A d \in DbIds : worker'[d] # "off" => HasRow(d),
           \A q \in DbCallers : CountsOn(dbCall[q])'
    PROVE  NamesFit'
<1>1. /\ OneOwner /\ ServicesAreOwners /\ DeployedIsServed /\ Healthy
  BY DEF NamesFit
<1>2. \A s : SlugOwner(s)' = SlugOwner(s)
  BY SameOwners
<1>3. OneOwner' /\ ServicesAreOwners'
  <2>1. HasService' = HasService
    BY DEF HasService, Objects
  <2>2. OneOwner'
    BY <1>1, <1>2 DEF OneOwner
  <2>3. ServicesAreOwners'
    BY <1>1, <1>2, <2>1 DEF ServicesAreOwners
  <2>4. QED BY <2>2, <2>3
<1>4. DeployedIsServed'
  BY <1>1 DEF DeployedIsServed, HasApp
<1>5. Healthy'
  <2>1. HasService' = HasService
    BY DEF HasService, Objects
  <2>2. QED BY <1>1, <2>1 DEF Healthy, Sound
<1>6. WorkersHaveRows' /\ CallsCountOn'
  BY DEF WorkersHaveRows, CallsCountOn
<1>7. QED BY <1>3, <1>4, <1>5, <1>6 DEF NamesFit

LEMMA OthersRest ==
    ASSUME OneCall, NEW q \in DbCallers, dbCall[q].at # "off" PROVE \A r \in DbCallers : r # q => dbCall[r].at = "off"
BY DEF OneCall

\* A request goes on, or ends, while names, Services and goroutines stay.
LEMMA RequestNames ==
    ASSUME DbShape, DbShape', OneCall, NamesFit, NEW q \in DbCallers, dbCall[q].at # "off",
           \A r \in DbCallers : r # q => dbCall'[r] = dbCall[r],
           UNCHANGED <<appRow, dbRow, service, object, worker, dbmix>>, CountsOn(dbCall[q])',
           Sound /\ dbCall[q].kind = "deleteDb" /\ dbCall[q].at \in {"apps", "row"} =>
               dbCall'[q].kind = "deleteDb" /\ dbCall'[q].at \in {"apps", "row"} /\ dbCall'[q].d = dbCall[q].d
    PROVE  NamesFit'
<1>1. \A r \in DbCallers : CountsOn(dbCall[r])'
  BY OthersRest DEF CountsOn
<1>2. Sound => \A d \in DbIds : Leaving(d) => Leaving(d)'
  BY OthersRest DEF Leaving
<1>3. /\ \A d \in DbIds : worker[d] # "off" => HasRow(d)
      /\ Sound => \A d \in DbIds : worker[d] \in {"starting", "wait"} => service[dbRow[d].slug] = d
      /\ Sound => \A s \in Slugs : object[s] # Nobody => service[s] = object[s]
  BY DEF NamesFit, WorkersHaveRows, Healthy, Sound
<1>4. \A d \in DbIds : HasRow(d)' <=> HasRow(d)
  BY DEF HasRow
<1>5. QED BY <1>1, <1>2, <1>3, <1>4, NamesStaySo

LEMMA EndCounts == ASSUME DbShape, NEW q \in DbCallers, DbEnds(q) PROVE CountsOn(dbCall[q])'
<1>1. dbCall'[q].at = "off"
  BY NoCallIs DEF DbEnds, DbShape, DbTypes
<1>2. QED BY <1>1 DEF CountsOn

LEMMA GoIs ==
    ASSUME DbShape, NEW q \in DbCallers, NEW where, DbGo(q, where)
    PROVE  /\ dbCall'[q].at = where /\ dbCall'[q].kind = dbCall[q].kind /\ dbCall'[q].d = dbCall[q].d
           /\ dbCall'[q].a = dbCall[q].a /\ dbCall'[q].s = dbCall[q].s /\ dbCall'[q].v = dbCall[q].v
           /\ dbCall'[q].left = dbCall[q].left
BY DEF DbGo, DbShape, DbTypes, DbCallType

LEMMA BeginNames ==
    ASSUME DbShape, DbShape', OneCall, Asked, NamesFit, NEW q \in DbCallers, NEW c \in DbCalls, DbBegin(q, c)
    PROVE  NamesFit'
<1>1. /\ DbQuiet /\ dbCall' = [dbCall EXCEPT ![q] = c] /\ DbAuthorized(c) /\ ~dbmix.early
      /\ UNCHANGED <<appRow, dbRow, links, urlIn, injected, service, object, worker, leftover, dbmix>>
  BY DEF DbBegin, Asked
<1>2. \A r \in DbCallers : IF r = q THEN dbCall'[r] = c ELSE dbCall'[r].at = "off"
  BY <1>1 DEF DbQuiet, DbShape, DbTypes
<1>3. /\ c.kind = "createDb" => c.at = "check" /\ dbRow[c.d].status = "never"
      /\ c.kind = "createApp" => c.at = "check" /\ ~HasApp(c.a)
      /\ c.kind = "deleteDb" => c.at = "links" /\ worker[c.d] = "off"
  BY <1>1, FirstStep DEF DbAuthorized
<1>4. \A r \in DbCallers : CountsOn(dbCall[r])'
  BY <1>1, <1>2, <1>3 DEF CountsOn, HasApp
<1>5. \A d \in DbIds : ~Leaving(d)
  BY <1>1 DEF Leaving, DbQuiet
<1>6. /\ \A d \in DbIds : worker[d] # "off" => HasRow(d)
      /\ Sound => \A d \in DbIds : worker[d] \in {"starting", "wait"} => service[dbRow[d].slug] = d
      /\ Sound => \A s \in Slugs : object[s] # Nobody => service[s] = object[s]
  BY DEF NamesFit, WorkersHaveRows, Healthy, Sound
<1>7. \A d \in DbIds : HasRow(d)' <=> HasRow(d)
  BY <1>1 DEF HasRow
<1>8. QED BY <1>1, <1>4, <1>5, <1>6, <1>7, NamesStaySo

LEMMA SyncChangesNoName == ASSUME DbShape, NamesFit, NEW a, a \in DbApps, NEW urls, SyncApp(a, urls) PROVE service' = service
<1>1. CASE service' = [service EXCEPT ![appRow[a].slug] = a] /\ HasApp(a) /\ appRow[a].deployed
  <2>1. service[appRow[a].slug] = a
    BY <1>1 DEF NamesFit, DeployedIsServed
  <2>2. QED BY <1>1, <2>1 DEF DbShape, DbTypes
<1>2. QED BY <1>1 DEF SyncApp

LEMMA AsksNames ==
    ASSUME DbShape, DbShape', OneCall, Asked, NamesFit, NEW q \in DbCallers,
           CheckSlug(q) \/ RequestCut(q) \/ \E force \in BOOLEAN : CheckLinks(q, force)
    PROVE  NamesFit'
<1>1. /\ dbCall[q].at # "off" /\ \A r \in DbCallers : r # q => dbCall'[r] = dbCall[r]
  BY HandleIsOnes DEF Handle
<1>2. UNCHANGED <<appRow, dbRow, links, urlIn, injected, service, object, worker, leftover, dbmix>>
  BY DEF CheckSlug, RequestCut, CheckLinks
<1>3. CountsOn(dbCall[q])
  BY DEF NamesFit, CallsCountOn
<1>4. CASE RequestCut(q)
  <2>1. ~Sound /\ DbEnds(q)
    BY <1>4 DEF RequestCut, Sound
  <2>2. QED BY <1>1, <1>2, <2>1, EndCounts, RequestNames
<1>5. ASSUME CheckSlug(q) PROVE NamesFit'
  <2>1. dbCall[q].kind \in {"createDb", "createApp"} /\ dbCall[q].at = "check"
    BY <1>5 DEF CheckSlug, DbAt
  <2>2. CASE DbEnds(q)
    BY <1>1, <1>2, <2>1, <2>2, EndCounts, RequestNames
  <2>3. CASE SlugOwner(dbCall[q].s) = {} /\ DbGo(q, "row")
    <3>1. CountsOn(dbCall[q])'
      BY <1>2, <1>3, <2>1, <2>3, GoIs DEF CountsOn, SlugOwner, HasApp, HasRow
    <3>2. QED BY <1>1, <1>2, <2>1, <3>1, RequestNames
  <2>4. QED BY <1>5, <2>2, <2>3 DEF CheckSlug
<1>6. ASSUME NEW force \in BOOLEAN, CheckLinks(q, force) PROVE NamesFit'
  <2>1. dbCall[q].kind = "deleteDb" /\ dbCall[q].at = "links" /\ (DbEnds(q) \/ DbGo(q, "objects"))
    BY <1>6 DEF CheckLinks, DbAt
  <2>2. CountsOn(dbCall[q])'
    <3>1. CASE DbEnds(q)
      BY <3>1, EndCounts
    <3>2. CASE DbGo(q, "objects")
      BY <1>2, <1>3, <2>1, <3>2, GoIs DEF CountsOn
    <3>3. QED BY <2>1, <3>1, <3>2
  <2>3. QED BY <1>1, <1>2, <2>1, <2>2, RequestNames
<1>7. QED BY <1>4, <1>5, <1>6

LEMMA LinksNames ==
    ASSUME DbShape, DbShape', OneCall, Asked, NamesFit, NEW q \in DbCallers,
           LinkVariable(q) \/ LinkDatabase(q) \/ UnlinkVariable(q) \/ UnlinkDatabase(q) \/ SyncAfterLink(q)
    PROVE  NamesFit'
<1>1. /\ dbCall[q].at # "off" /\ \A r \in DbCallers : r # q => dbCall'[r] = dbCall[r]
  BY HandleIsOnes DEF Handle
<1>2. /\ dbCall[q].kind \in {"link", "unlink"} /\ UNCHANGED <<appRow, dbRow, object, worker, dbmix>>
      /\ DbEnds(q) \/ DbGo(q, "link") \/ DbGo(q, "sync")
      /\ service' = service \/ SyncApp(dbCall[q].a, urlIn[dbCall[q].a])
  BY DEF LinkVariable, LinkDatabase, UnlinkVariable, UnlinkDatabase, SyncAfterLink, DbAt
<1>3. dbCall[q].a \in DbApps
  BY <1>1, <1>2 DEF DbShape, CallFits
<1>4. service' = service
  BY <1>2, <1>3, SyncChangesNoName
<1>5. CountsOn(dbCall[q])'
  <2>1. CASE DbEnds(q)
    BY <2>1, EndCounts
  <2>2. CASE DbGo(q, "link") \/ DbGo(q, "sync")
    BY <1>2, <2>2, GoIs DEF CountsOn
  <2>3. QED BY <1>2, <2>1, <2>2
<1>6. QED BY <1>1, <1>2, <1>4, <1>5, RequestNames

LEMMA DeleteLinkedNames ==
    ASSUME DbShape, DbShape', OneCall, Asked, NamesFit, NEW q \in DbCallers, DeleteLinkedVariable(q)
    PROVE  NamesFit'
<1>1. /\ dbCall[q].at # "off" /\ \A r \in DbCallers : r # q => dbCall'[r] = dbCall[r]
  BY HandleIsOnes DEF Handle
<1>2. dbCall[q].kind = "deleteDb" /\ dbCall[q].at = "apps" /\ UNCHANGED <<appRow, dbRow, object, worker, dbmix>>
  BY DEF DeleteLinkedVariable, DbAt
<1>3. service' = service
  <2>1. ASSUME NEW l \in dbCall[q].left, SyncApp(l.a, urlIn'[l.a]) PROVE service' = service
    <3>1. l.a \in DbApps
      BY DEF DbShape, DbTypes, DbCallType, Links
    <3>2. QED BY <2>1, <3>1, SyncChangesNoName
  <2>2. QED BY <2>1 DEF DeleteLinkedVariable
<1>4. /\ dbCall'[q].kind = "deleteDb" /\ dbCall'[q].at \in {"apps", "row"} /\ dbCall'[q].d = dbCall[q].d
  <2>1. CASE DbGo(q, "row")
    BY <1>2, <2>1, GoIs
  <2>2. ASSUME NEW left, dbCall' = [dbCall EXCEPT ![q].left = left]
        PROVE  dbCall'[q].kind = "deleteDb" /\ dbCall'[q].at \in {"apps", "row"} /\ dbCall'[q].d = dbCall[q].d
    BY <1>2, <2>2 DEF DbShape, DbTypes, DbCallType
  <2>3. QED BY <2>1, <2>2 DEF DeleteLinkedVariable
<1>5. CountsOn(dbCall[q])
  BY DEF NamesFit, CallsCountOn
<1>6. CountsOn(dbCall[q])'
  BY <1>2, <1>3, <1>4, <1>5 DEF CountsOn
<1>7. QED BY <1>1, <1>2, <1>3, <1>4, <1>6, RequestNames

LEMMA SealNames ==
    ASSUME DbShape, DbShape', OneCall, Asked, NamesFit, NEW q \in DbCallers, SealAndProvision(q)
    PROVE  NamesFit'
<1>1. /\ dbCall[q].kind = "createDb" /\ dbCall[q].at = "seal" /\ DbEnds(q)
      /\ UNCHANGED <<appRow, service, object, dbmix>>
      /\ dbRow' = [dbRow EXCEPT ![dbCall[q].d].sealed = TRUE]
      /\ worker' = [worker EXCEPT ![dbCall[q].d] = IF dbmix.engine = "postgres" THEN "component" ELSE "apply"]
  BY DEF SealAndProvision, DbAt
<1>2. dbCall[q].d \in DbIds /\ HasRow(dbCall[q].d)
  BY <1>1 DEF DbShape, CallFits, NamesFit, CallsCountOn, CountsOn
<1>3. \A d \in DbIds : dbRow'[d].status = dbRow[d].status /\ dbRow'[d].slug = dbRow[d].slug
  BY <1>1, <1>2 DEF DbShape, DbTypes
<1>4. /\ \A d \in DbIds : worker'[d] # "off" => HasRow(d)
      /\ Sound => \A d \in DbIds : worker'[d] \in {"starting", "wait"} => service[dbRow[d].slug] = d
  BY <1>1, <1>2 DEF NamesFit, WorkersHaveRows, Healthy, Sound, DbShape, DbTypes
<1>5. \A r \in DbCallers : CountsOn(dbCall[r])'
  <2>1. \A r \in DbCallers : dbCall'[r].at = "off"
    BY <1>1, OthersRest, NoCallIs DEF DbEnds, DbShape, DbTypes
  <2>2. QED BY <2>1 DEF CountsOn
<1>6. \A d \in DbIds : ~Leaving(d)
  BY <1>1 DEF Leaving, OneCall
<1>7. Sound => \A s \in Slugs : object[s] # Nobody => service[s] = object[s]
  BY DEF NamesFit, Healthy, Sound
<1>8. \A d \in DbIds : HasRow(d)' <=> HasRow(d)
  BY <1>3 DEF HasRow
<1>9. QED BY <1>1, <1>3, <1>4, <1>5, <1>6, <1>7, <1>8, NamesStaySo

LEMMA RunningIsThere == ASSUME NEW d, "running" \in ReadStatus(d) PROVE object[dbRow[d].slug] # Nobody
BY DEF ReadStatus, PostgresStatus

LEMMA GetNames ==
    ASSUME DbShape, DbShape', OneCall, Asked, NamesFit, NEW q \in DbCallers, GetDatabase(q)
    PROVE  NamesFit'
<1> DEFINE d == dbCall[q].d
<1>1. /\ dbCall[q].kind = "get" /\ dbCall[q].at = "read" /\ DbEnds(q)
      /\ UNCHANGED <<appRow, service, object, worker, dbmix>>
  BY DEF GetDatabase, DbAt
<1>2. d \in DbIds
  BY <1>1 DEF DbShape, CallFits
<1>3. \A r \in DbCallers : CountsOn(dbCall[r])'
  <2>1. \A r \in DbCallers : dbCall'[r].at = "off"
    BY <1>1, OthersRest, NoCallIs DEF DbEnds, DbShape, DbTypes
  <2>2. QED BY <2>1 DEF CountsOn
<1>4. \A e \in DbIds : ~Leaving(e)
  BY <1>1 DEF Leaving, OneCall
<1>5. /\ \A e \in DbIds : worker[e] # "off" => HasRow(e)
      /\ Sound => \A e \in DbIds : worker[e] \in {"starting", "wait"} => service[dbRow[e].slug] = e
      /\ Sound => \A s \in Slugs : object[s] # Nobody => service[s] = object[s]
  BY DEF NamesFit, WorkersHaveRows, Healthy, Sound
<1>6. CASE UNCHANGED dbRow
  <2>1. \A e \in DbIds : HasRow(e)' <=> HasRow(e)
    BY <1>6 DEF HasRow
  <2>2. QED BY <1>1, <1>3, <1>4, <1>5, <1>6, <2>1, NamesStaySo
<1>7. ASSUME HasRow(d), NEW status \in ReadStatus(d), SetDatabaseStatus(d, status) PROVE NamesFit'
  <2>1. /\ \A e \in DbIds : (HasRow(e) <=> HasRow(e)') /\ dbRow'[e].slug = dbRow[e].slug
        /\ \A e \in DbIds : dbRow'[e].status = dbRow[e].status \/ (e = d /\ dbRow'[e].status = status)
        /\ \A e \in DbIds : dbRow[e].status = "never" <=> dbRow'[e].status = "never"
    BY <1>2, <1>7, ReadStatuses, StatusGoes
  <2>2. Sound /\ status = "running" => service[dbRow[d].slug] = d
    <3> SUFFICES ASSUME Sound, status = "running" PROVE service[dbRow[d].slug] = d
      OBVIOUS
    <3>1. dbRow[d].slug \in Slugs
      BY <1>2, <1>7 DEF HasRow, DbShape, RowsAreNamed
    <3>2. service[dbRow[d].slug] # Nobody
      BY <1>5, <1>7, <3>1, RunningIsThere
    <3>3. service[dbRow[d].slug] \in SlugOwner(dbRow[d].slug) /\ d \in SlugOwner(dbRow[d].slug)
      BY <1>2, <1>7, <3>1, <3>2 DEF NamesFit, ServicesAreOwners, SlugOwner
    <3>4. QED BY <3>1, <3>3 DEF NamesFit, OneOwner
  <2>3. QED BY <1>1, <1>3, <1>4, <1>5, <2>1, <2>2, NamesStaySo
<1>8. QED BY <1>6, <1>7 DEF GetDatabase

\* What the requests count on, while a goroutine goes on.
LEMMA CountsStay ==
    ASSUME CallsCountOn, DbShape, UNCHANGED <<dbCall, appRow, service>>,
           \A d \in DbIds : /\ HasRow(d)' <=> HasRow(d)
                            /\ dbRow'[d].slug = dbRow[d].slug /\ (dbRow[d].status = "never" <=> dbRow'[d].status = "never"),
           \A d \in DbIds : worker[d] = "off" => worker'[d] = "off"
    PROVE  \A q \in DbCallers : CountsOn(dbCall[q])'
<1> SUFFICES ASSUME NEW q \in DbCallers PROVE CountsOn(dbCall[q])'
  OBVIOUS
<1>1. CountsOn(dbCall[q]) /\ CallFits(dbCall[q])
  BY DEF CallsCountOn, DbShape
<1>2. \A s : SlugOwner(s)' = SlugOwner(s)
  BY SameOwners
<1>3. \A a : HasApp(a)' <=> HasApp(a)
  BY DEF HasApp
<1>4. dbCall[q].kind \in {"createDb", "deleteDb"} /\ dbCall[q].at # "off" => dbCall[q].d \in DbIds
  BY <1>1 DEF CallFits
<1>5. QED BY <1>1, <1>2, <1>3, <1>4 DEF CountsOn

\* A goroutine writes a status and goes on, and no Service changes.
LEMMA WorkerNames ==
    ASSUME DbShape, DbShape', NamesFit, NEW d \in DbIds, worker[d] # "off",
           NEW where \in {"off", "apply", "starting", "wait"}, WorkerTo(d, where), UNCHANGED <<appRow, service, object, dbCall, dbmix>>,
           Sound /\ where \in {"starting", "wait"} => service[dbRow[d].slug] = d,
           \/ UNCHANGED dbRow
           \/ \E status \in {"starting", "running", "failed"} :
                  SetDatabaseStatus(d, status) /\ (Sound /\ status = "running" => service[dbRow[d].slug] = d)
    PROVE  NamesFit'
<1>1. /\ \A e \in DbIds : (HasRow(e) <=> HasRow(e)') /\ dbRow'[e].slug = dbRow[e].slug
      /\ \A e \in DbIds : Sound => (dbRow'[e].status = "running" => dbRow[e].status = "running" \/ service[dbRow[e].slug] = e)
      /\ \A e \in DbIds : dbRow[e].status = "never" <=> dbRow'[e].status = "never"
  <2>1. CASE UNCHANGED dbRow
    BY <2>1 DEF HasRow
  <2>2. ASSUME NEW status \in {"starting", "running", "failed"}, SetDatabaseStatus(d, status), Sound /\ status = "running" => service[dbRow[d].slug] = d
        PROVE  /\ \A e \in DbIds : (HasRow(e) <=> HasRow(e)') /\ dbRow'[e].slug = dbRow[e].slug
               /\ \A e \in DbIds : Sound => (dbRow'[e].status = "running" => dbRow[e].status = "running" \/ service[dbRow[e].slug] = e)
               /\ \A e \in DbIds : dbRow[e].status = "never" <=> dbRow'[e].status = "never"
    BY <2>2, StatusGoes DEF DbStatuses
  <2>3. QED BY <2>1, <2>2
<1>2. \A e \in DbIds : worker'[e] = IF e = d THEN where ELSE worker[e]
  BY DEF WorkerTo, DbShape, DbTypes
<1>3. \A r \in DbCallers : CountsOn(dbCall[r])'
  BY <1>1, <1>2, CountsStay DEF NamesFit
<1>4. /\ \A e \in DbIds : worker[e] # "off" => HasRow(e)
      /\ Sound => \A e \in DbIds : worker[e] \in {"starting", "wait"} => service[dbRow[e].slug] = e
      /\ Sound => \A s \in Slugs : object[s] # Nobody => service[s] = object[s]
  BY DEF NamesFit, WorkersHaveRows, Healthy, Sound
<1>5. \A e \in DbIds : worker'[e] # "off" => HasRow(e)
  BY <1>2, <1>4
<1>6. Sound => \A e \in DbIds : /\ worker'[e] \in {"starting", "wait"} => service[dbRow[e].slug] = e
                                /\ Leaving(e) => Leaving(e)'
  BY <1>2, <1>4 DEF Leaving
<1>7. QED BY <1>1, <1>3, <1>4, <1>5, <1>6, NamesStaySo

LEMMA ApplyNames ==
    ASSUME DbShape, DbShape', NamesFit, NEW d \in DbIds, NEW n \in 0..Len(Objects), ApplyDatabase(d, n)
    PROVE  NamesFit'
<1> DEFINE s == dbRow[d].slug
           done == {Objects[i] : i \in 1..n}
<1>1. /\ worker[d] = "apply" /\ UNCHANGED <<appRow, urlIn, injected, dbCall, dbmix>>
      /\ object' = IF done \cap {"cluster", "statefulset"} # {} THEN [object EXCEPT ![s] = d] ELSE object
      /\ service' = IF "service" \in done THEN [service EXCEPT ![s] = d] ELSE service
      /\ \/ n = Len(Objects) /\ WorkerTo(d, "starting") /\ UNCHANGED dbRow
         \/ n < Len(Objects) /\ "cluster" \in dbmix.faults /\ WorkerTo(d, "off") /\ Fail(d)
  BY DEF ApplyDatabase
<1>2. HasRow(d) /\ s \in Slugs /\ d \in SlugOwner(s)
  BY <1>1 DEF NamesFit, WorkersHaveRows, HasRow, DbShape, RowsAreNamed, SlugOwner
<1>3. \A x \in SlugOwner(s) : x = d
  BY <1>2 DEF NamesFit, OneOwner
<1>4. "service" \in done => HasService
  BY DEF HasService
<1>5. Sound => n = Len(Objects) /\ "service" \in done
  BY <1>1 DEF Sound, HasService
<1>6. /\ \A e \in DbIds : (HasRow(e) <=> HasRow(e)') /\ dbRow'[e].slug = dbRow[e].slug
      /\ \A e \in DbIds : dbRow'[e].status = dbRow[e].status \/ dbRow'[e].status = "failed"
      /\ \A e \in DbIds : dbRow[e].status = "never" <=> dbRow'[e].status = "never"
  <2>1. CASE UNCHANGED dbRow
    BY <2>1 DEF HasRow
  <2>2. CASE SetDatabaseStatus(d, "failed")
    BY <2>2, StatusGoes DEF DbStatuses
  <2>3. QED BY <1>1, <2>1, <2>2 DEF Fail
<1>7. \A e \in DbIds : worker'[e] \in {worker[e], "off"} \/ (e = d /\ worker'[e] = "starting")
  BY <1>1 DEF WorkerTo, DbShape, DbTypes
<1>8. \A t \in Slugs : service'[t] = service[t] \/ (t = s /\ service'[t] = d /\ HasService)
  BY <1>1, <1>2, <1>4 DEF DbShape, DbTypes
<1>9. \A t : SlugOwner(t)' = SlugOwner(t)
  BY <1>1, <1>6, SameOwners
<1>10. HasService' = HasService /\ (Sound' <=> Sound)
  BY <1>1 DEF HasService, Objects, Sound
<1>11. OneOwner'
  BY <1>9 DEF NamesFit, OneOwner
<1>12. ServicesAreOwners'
  BY <1>2, <1>8, <1>9, <1>10 DEF NamesFit, ServicesAreOwners
<1>13. DeployedIsServed'
  <2> SUFFICES ASSUME NEW a \in DbApps, appRow[a].deployed PROVE HasApp(a)' /\ service'[appRow[a].slug] = a
    BY <1>1 DEF DeployedIsServed
  <2>1. HasApp(a) /\ service[appRow[a].slug] = a /\ appRow[a].slug \in Slugs
    BY DEF NamesFit, DeployedIsServed, HasApp, DbShape, DbTypes
  <2>2. a \in SlugOwner(appRow[a].slug) /\ a # d
    BY DbNames DEF SlugOwner
  <2>3. QED BY <1>1, <1>3, <1>8, <2>1, <2>2 DEF HasApp
<1>14. WorkersHaveRows'
  BY <1>2, <1>6, <1>7 DEF NamesFit, WorkersHaveRows
<1>15. CallsCountOn'
  <2> SUFFICES ASSUME NEW r \in DbCallers PROVE CountsOn(dbCall[r])'
    BY DEF CallsCountOn
  <2>1. CountsOn(dbCall[r]) /\ CallFits(dbCall[r]) /\ dbCall'[r] = dbCall[r]
    BY <1>1 DEF NamesFit, CallsCountOn, DbShape
  <2>2. dbCall[r].kind \in {"createDb", "deleteDb"} /\ dbCall[r].at # "off" => dbCall[r].d \in DbIds
    BY <2>1 DEF CallFits
  <2>3. dbCall[r].kind = "deleteDb" /\ dbCall[r].at # "off" =>
            /\ worker[dbCall[r].d] = "off" /\ dbCall[r].d # d /\ worker'[dbCall[r].d] = "off"
    BY <1>1, <1>7, <2>1, <2>2 DEF CountsOn
  <2>4. dbCall[r].kind = "deleteDb" /\ dbCall[r].at \in {"apps", "row"} => service'[dbRow'[dbCall[r].d].slug] # dbCall[r].d
    <3> SUFFICES ASSUME dbCall[r].kind = "deleteDb", dbCall[r].at \in {"apps", "row"} PROVE service'[dbRow'[dbCall[r].d].slug] # dbCall[r].d
      OBVIOUS
    <3>1. service[dbRow[dbCall[r].d].slug] # dbCall[r].d /\ dbRow'[dbCall[r].d].slug = dbRow[dbCall[r].d].slug /\ dbCall[r].d # d
      BY <1>6, <2>1, <2>2, <2>3 DEF CountsOn
    <3>2. service' = service \/ service' = [service EXCEPT ![s] = d]
      BY <1>1
    <3>3. dbRow[dbCall[r].d].slug \in Slugs
      BY <2>1, <2>2 DEF CallFits, DbShape, RowsAreNamed
    <3>4. QED BY <3>1, <3>2, <3>3, <1>2 DEF DbShape, DbTypes
  <2>5. \A t : SlugOwner(t)' = SlugOwner(t) /\ \A a : HasApp(a)' <=> HasApp(a)
    BY <1>1, <1>9 DEF HasApp
  <2>6. QED BY <1>6, <2>1, <2>2, <2>3, <2>4, <2>5 DEF CountsOn
<1>16. Healthy'
  <2> SUFFICES ASSUME Sound PROVE Healthy'
    BY <1>10 DEF Healthy, Sound
  <2>1. /\ \A t \in Slugs : object[t] # Nobody => service[t] = object[t]
        /\ \A e \in DbIds : /\ worker[e] \in {"starting", "wait"} => service[dbRow[e].slug] = e
                            /\ dbRow[e].status = "running" /\ ~Leaving(e) => service[dbRow[e].slug] = e
    BY DEF NamesFit, Healthy, Sound
  <2>2. done \cap {"cluster", "statefulset"} # {}
    <3>1. "service" \in {Objects[i] : i \in 1..Len(Objects)}
      BY DEF Sound, HasService
    <3>2. dbmix.engine \in {"redis", "mysql"}
      BY <3>1 DEF Objects, BuildPostgres, DbShape, DbTypes, DbMixType
    <3>3. Objects = <<"secret", "statefulset", "service">>
      BY <3>2 DEF Objects, BuildRedis, BuildMySQL
    <3>4. "statefulset" \in done
      <4>1. Objects[2] = "statefulset" /\ Len(Objects) = 3
        BY <3>3
      <4>2. 2 \in 1..n
        BY <1>5, <4>1
      <4>3. QED BY <4>1, <4>2
    <3>5. QED BY <3>4
  <2>3. \A t \in Slugs : IF t = s THEN object'[t] = d /\ service'[t] = d ELSE object'[t] = object[t] /\ service'[t] = service[t]
    BY <1>1, <1>2, <1>5, <2>2 DEF DbShape, DbTypes
  <2>4. \A e \in DbIds : HasRow(e) /\ dbRow[e].slug = s => e = d
    BY <1>3 DEF SlugOwner
  <2>5. \A e \in DbIds : HasRow(e) => dbRow[e].slug \in Slugs
    BY DEF HasRow, DbShape, RowsAreNamed
  <2>6. \A e \in DbIds : worker[e] # "off" => HasRow(e)
    BY DEF NamesFit, WorkersHaveRows
  <2>7. ASSUME NEW e \in DbIds, worker'[e] \in {"starting", "wait"} PROVE service'[dbRow'[e].slug] = e
    BY <1>2, <1>6, <1>7, <2>1, <2>3, <2>4, <2>5, <2>6, <2>7
  <2>8. ASSUME NEW e \in DbIds, dbRow'[e].status = "running", ~Leaving(e)' PROVE service'[dbRow'[e].slug] = e
    <3>1. dbRow[e].status = "running" /\ ~Leaving(e)
      BY <1>1, <1>6, <2>8 DEF Leaving
    <3>2. HasRow(e) /\ service[dbRow[e].slug] = e
      BY <2>1, <3>1 DEF HasRow
    <3>3. QED BY <1>2, <1>6, <2>3, <2>4, <2>5, <3>2
  <2>9. \A t \in Slugs : object'[t] # Nobody => service'[t] = object'[t]
    BY <2>1, <2>3
  <2>10. QED BY <2>7, <2>8, <2>9 DEF Healthy
<1>17. QED BY <1>11, <1>12, <1>13, <1>14, <1>15, <1>16 DEF NamesFit

LEMMA ProvisionNames == ASSUME DbShape, DbShape', NamesFit, NEW d \in DbIds, Provision(d) PROVE NamesFit'
<1>1. CASE EnsureComponent(d)
  BY <1>1, WorkerNames DEF EnsureComponent, Fail
<1>2. CASE MarkStarting(d)
  <2>1. Sound => service[dbRow[d].slug] = d
    BY <1>2 DEF MarkStarting, NamesFit, Healthy, Sound
  <2>2. QED BY <1>2, <2>1, WorkerNames DEF MarkStarting
<1>3. CASE WaitReady(d)
  <2>1. Sound => service[dbRow[d].slug] = d
    BY <1>3 DEF WaitReady, NamesFit, Healthy, Sound
  <2>2. QED BY <1>3, <2>1, WorkerNames DEF WaitReady, Fail
<1>4. QED BY <1>1, <1>2, <1>3, ApplyNames DEF Provision

LEMMA RestartNames == ASSUME DbShape, DbShape', NamesFit, Restart PROVE NamesFit'
<1>1. /\ UNCHANGED <<appRow, service, object, dbmix>> /\ ~Sound
      /\ worker' = [d \in DbIds |-> "off"] /\ dbCall' = [q \in DbCallers |-> NoDbCall]
      /\ dbRow' = [d \in DbIds |-> IF MarkInterrupted(d) THEN [dbRow[d] EXCEPT !.status = "failed"] ELSE dbRow[d]]
  BY DEF Restart, Sound
<1>2. \A e \in DbIds : /\ dbRow'[e].slug = dbRow[e].slug
                       /\ dbRow'[e].status = dbRow[e].status \/ (MarkInterrupted(e) /\ dbRow'[e].status = "failed")
  BY <1>1 DEF DbShape, DbTypes
<1>3. \A e \in DbIds : (HasRow(e)' <=> HasRow(e)) /\ (dbRow[e].status = "never" <=> dbRow'[e].status = "never")
  BY <1>2 DEF HasRow, MarkInterrupted
<1>4. \A q \in DbCallers : CountsOn(dbCall[q])'
  BY <1>1, NoCallIs DEF CountsOn
<1>5. \A d \in DbIds : worker'[d] = "off"
  BY <1>1
<1>6. QED BY <1>1, <1>2, <1>3, <1>4, <1>5, NamesStaySo

LEMMA CreateAppNames ==
    ASSUME DbShape, DbShape', OneCall, Asked, NamesFit, NEW q \in DbCallers, CreateAppRow(q)
    PROVE  NamesFit'
<1>0. PICK a, s : a = dbCall[q].a /\ s = dbCall[q].s
  OBVIOUS
<1>1. /\ dbCall[q].kind = "createApp" /\ dbCall[q].at = "row" /\ DbEnds(q)
      /\ UNCHANGED <<dbRow, service, object, worker, dbmix>>
      /\ appRow' = IF \E b \in DbApps : appRow[b].slug = s THEN appRow ELSE [appRow EXCEPT ![a].slug = s]
  <2>1. "template" \notin dbmix.kinds
    BY DEF Asked
  <2>2. QED BY <1>0, <2>1 DEF CreateAppRow, DbAt, DbShape, CallFits
<1>2. a \in DbApps /\ s \in Slugs /\ SlugOwner(s) = {} /\ ~HasApp(a)
  BY <1>0, <1>1 DEF DbShape, CallFits, NamesFit, CallsCountOn, CountsOn
<1>3. appRow' = [appRow EXCEPT ![a].slug = s]
  BY <1>1, <1>2 DEF SlugOwner
<1>4. /\ appRow'[a].slug = s /\ appRow'[a].deployed = appRow[a].deployed
      /\ \A b \in DbApps : b # a => appRow'[b] = appRow[b]
  BY <1>2, <1>3 DEF DbShape, DbTypes
<1>5. \A r \in DbCallers : dbCall'[r].at = "off"
  BY <1>1, OthersRest, NoCallIs DEF DbEnds, DbShape, DbTypes
<1>6. HasService' = HasService /\ (\A e \in DbIds : ~Leaving(e)) /\ ~appRow[a].deployed
  BY <1>1, <1>2 DEF HasService, Objects, Leaving, OneCall, NamesFit, DeployedIsServed
<1>7. SlugOwner(s)' \subseteq {a} /\ \A t \in Slugs : t # s => SlugOwner(t)' = SlugOwner(t)
  <2>1. SlugOwner(s)' \subseteq {a}
    BY <1>1, <1>2, <1>4 DEF SlugOwner, HasRow
  <2>2. \A t \in Slugs : t # s => SlugOwner(t)' = SlugOwner(t)
    BY <1>1, <1>2, <1>4, DbNames DEF SlugOwner, HasRow, HasApp
  <2>3. QED BY <2>1, <2>2
<1>8. OneOwner'
  BY <1>7 DEF OneOwner, NamesFit
<1>9. ServicesAreOwners'
  BY <1>1, <1>2, <1>6, <1>7 DEF ServicesAreOwners, NamesFit
<1>10. DeployedIsServed'
  BY <1>1, <1>4, <1>6 DEF DeployedIsServed, NamesFit, HasApp
<1>11. WorkersHaveRows' /\ CallsCountOn'
  BY <1>1, <1>5 DEF WorkersHaveRows, NamesFit, HasRow, CallsCountOn, CountsOn
<1>12. Healthy'
  BY <1>1, <1>6 DEF Healthy, NamesFit
<1>13. QED BY <1>8, <1>9, <1>10, <1>11, <1>12 DEF NamesFit

LEMMA CreateDatabaseNames ==
    ASSUME DbShape, DbShape', OneCall, Asked, NamesFit, NEW q \in DbCallers, CreateDatabase(q)
    PROVE  NamesFit'
<1>0. PICK d, s : d = dbCall[q].d /\ s = dbCall[q].s
  OBVIOUS
<1>1. /\ dbCall[q].kind = "createDb" /\ dbCall[q].at = "row" /\ UNCHANGED <<appRow, service, object, worker, dbmix>>
  BY DEF CreateDatabase, DbAt
<1>2. d \in DbIds /\ s \in Slugs /\ SlugOwner(s) = {} /\ dbRow[d].status = "never"
  BY <1>0, <1>1 DEF DbShape, CallFits, NamesFit, CallsCountOn, CountsOn
<1>3. dbRow' = [dbRow EXCEPT ![d] = [slug |-> s, status |-> "creating", sealed |-> FALSE]] /\ DbGo(q, "seal")
  BY <1>0, <1>2 DEF SlugOwner, CreateDatabase
<1>4. /\ dbRow'[d].slug = s /\ dbRow'[d].status = "creating"
      /\ \A e \in DbIds : e # d => dbRow'[e] = dbRow[e]
  BY <1>2, <1>3 DEF DbShape, DbTypes
<1>5. /\ dbCall'[q].at = "seal" /\ dbCall'[q].kind = "createDb" /\ dbCall'[q].d = d
      /\ \A r \in DbCallers : r # q => dbCall'[r].at = "off"
  BY <1>0, <1>1, <1>3, OthersRest, GoIs DEF DbGo, DbShape, DbTypes
<1>6. HasService' = HasService /\ \A e \in DbIds : ~Leaving(e)
  BY <1>1 DEF HasService, Objects, Leaving, OneCall
<1>7. worker[d] = "off" /\ \A e \in DbIds : worker[e] # "off" => HasRow(e)' /\ e # d
  BY <1>2, <1>4 DEF NamesFit, WorkersHaveRows, HasRow
<1>8. SlugOwner(s)' \subseteq {d} /\ \A t \in Slugs : t # s => SlugOwner(t)' = SlugOwner(t)
  <2>1. SlugOwner(s)' \subseteq {d}
    BY <1>1, <1>2, <1>4 DEF SlugOwner, HasRow
  <2>2. \A t \in Slugs : t # s => SlugOwner(t)' = SlugOwner(t)
    BY <1>1, <1>2, <1>4 DEF SlugOwner, HasRow
  <2>3. QED BY <2>1, <2>2
<1>9. OneOwner'
  BY <1>8 DEF OneOwner, NamesFit
<1>10. ServicesAreOwners'
  BY <1>1, <1>2, <1>6, <1>8 DEF ServicesAreOwners, NamesFit
<1>11. DeployedIsServed'
  BY <1>1 DEF DeployedIsServed, NamesFit, HasApp
<1>12. WorkersHaveRows' /\ CallsCountOn'
  BY <1>1, <1>4, <1>5, <1>7 DEF WorkersHaveRows, HasRow, CallsCountOn, CountsOn
<1>13. Healthy'
  BY <1>1, <1>4, <1>6, <1>7 DEF Healthy, NamesFit
<1>14. QED BY <1>9, <1>10, <1>11, <1>12, <1>13 DEF NamesFit

\* What an app owns no database is at.
LEMMA AppsNameIsNoDatabases ==
    ASSUME DbShape, NamesFit, NEW a \in DbApps, HasApp(a)
    PROVE  /\ appRow[a].slug \in Slugs
           /\ \A e \in DbIds : HasRow(e) => dbRow[e].slug # appRow[a].slug
           /\ \A b \in DbApps : b # a => appRow[b].slug # appRow[a].slug
           /\ service[appRow[a].slug] \in {a, Nobody}
           /\ Sound => object[appRow[a].slug] = Nobody
<1>1. appRow[a].slug \in Slugs
  BY DEF HasApp, DbShape, DbTypes
<1>2. a \in SlugOwner(appRow[a].slug) /\ \A x \in SlugOwner(appRow[a].slug) : x = a
  BY <1>1 DEF SlugOwner, NamesFit, OneOwner
<1>3. /\ \A e \in DbIds : HasRow(e) => dbRow[e].slug # appRow[a].slug
      /\ \A b \in DbApps : b # a => appRow[b].slug # appRow[a].slug
  BY <1>2, DbNames DEF SlugOwner
<1>4. service[appRow[a].slug] \in {a, Nobody}
  BY <1>1, <1>2 DEF NamesFit, ServicesAreOwners
<1>5. Sound => object[appRow[a].slug] = Nobody
  <2> SUFFICES ASSUME Sound, object[appRow[a].slug] # Nobody PROVE FALSE
    OBVIOUS
  <2>1. service[appRow[a].slug] = object[appRow[a].slug] /\ object[appRow[a].slug] \in DbIds
    BY <1>1 DEF NamesFit, Healthy, Sound, DbShape, DbTypes
  <2>2. QED BY <1>4, <2>1, DbNames
<1>6. QED BY <1>1, <1>3, <1>4, <1>5

LEMMA DeployNames ==
    ASSUME DbShape, DbShape', OneCall, Asked, NamesFit, NEW q \in DbCallers, DeployApp(q)
    PROVE  NamesFit'
<1> DEFINE a == dbCall[q].a
           s == appRow[a].slug
<1>1. /\ dbCall[q].kind = "deploy" /\ dbCall[q].at = "objects" /\ DbEnds(q)
      /\ UNCHANGED <<dbRow, object, worker, dbmix>>
  BY DEF DeployApp, DbAt
<1>2. a \in DbApps
  BY <1>1 DEF DbShape, CallFits
<1>3. \A r \in DbCallers : dbCall'[r].at = "off"
  BY <1>1, OthersRest, NoCallIs DEF DbEnds, DbShape, DbTypes
<1>4. HasService' = HasService /\ (Sound' <=> Sound) /\ \A e \in DbIds : ~Leaving(e)
  BY <1>1 DEF HasService, Objects, Sound, Leaving, OneCall
<1>5. WorkersHaveRows' /\ CallsCountOn'
  BY <1>1, <1>3 DEF WorkersHaveRows, NamesFit, HasRow, CallsCountOn, CountsOn
<1>6. CASE UNCHANGED <<appRow, service>>
  <2>1. \A r \in DbCallers : r # q => dbCall'[r] = dbCall[r]
    BY HandleIsOnes DEF Handle
  <2>2. CountsOn(dbCall[q])'
    BY <1>1, EndCounts
  <2>3. QED BY <1>1, <1>6, <2>1, <2>2, RequestNames
<1>7. CASE HasApp(a) /\ appRow' = [appRow EXCEPT ![a].deployed = TRUE] /\ service' = [service EXCEPT ![s] = a]
  <2>1. /\ appRow'[a].slug = s /\ \A b \in DbApps : appRow'[b].slug = appRow[b].slug
        /\ \A b \in DbApps : b # a => appRow'[b] = appRow[b]
    BY <1>2, <1>7 DEF DbShape, DbTypes
  <2>2. /\ s \in Slugs /\ (Sound => object[s] = Nobody)
        /\ \A e \in DbIds : HasRow(e) => dbRow[e].slug # s
        /\ \A b \in DbApps : b # a => appRow[b].slug # s
    BY <1>2, <1>7, AppsNameIsNoDatabases
  <2>3. \A t \in Slugs : IF t = s THEN service'[t] = a ELSE service'[t] = service[t]
    BY <1>7, <2>2 DEF DbShape, DbTypes
  <2>4. \A t : SlugOwner(t)' = SlugOwner(t)
    BY <1>1, <2>1 DEF SlugOwner, HasRow
  <2>5. OneOwner'
    BY <2>4 DEF NamesFit, OneOwner
  <2>6. ServicesAreOwners'
    <3>1. a \in SlugOwner(s) /\ a \notin DbIds
      BY <1>2, DbNames DEF SlugOwner
    <3>2. QED BY <1>4, <2>3, <2>4, <3>1 DEF NamesFit, ServicesAreOwners
  <2>7. DeployedIsServed'
    <3> SUFFICES ASSUME NEW b \in DbApps, appRow'[b].deployed PROVE HasApp(b)' /\ service'[appRow'[b].slug] = b
      BY DEF DeployedIsServed
    <3>1. CASE b = a
      BY <1>7, <2>1, <2>2, <2>3, <3>1 DEF HasApp
    <3>2. CASE b # a
      <4>1. HasApp(b) /\ service[appRow[b].slug] = b /\ appRow[b].slug \in Slugs /\ appRow[b].slug # s
        BY <2>1, <2>2, <3>2 DEF NamesFit, DeployedIsServed, HasApp, DbShape, DbTypes
      <4>2. QED BY <2>1, <2>3, <4>1 DEF HasApp
    <3>3. QED BY <3>1, <3>2
  <2>8. Healthy'
    <3> SUFFICES ASSUME Sound PROVE Healthy'
      BY <1>4 DEF Healthy, Sound
    <3>1. \A t \in Slugs : object'[t] # Nobody => service'[t] = object'[t]
      BY <1>1, <2>2, <2>3 DEF NamesFit, Healthy, Sound
    <3>2. \A e \in DbIds : HasRow(e) /\ service[dbRow[e].slug] = e => service'[dbRow'[e].slug] = e
      BY <1>1, <2>2, <2>3 DEF HasRow, DbShape, RowsAreNamed
    <3>3. \A e \in DbIds : worker'[e] \in {"starting", "wait"} => service'[dbRow'[e].slug] = e
      BY <1>1, <3>2 DEF NamesFit, WorkersHaveRows, Healthy, Sound
    <3>4. \A e \in DbIds : dbRow'[e].status = "running" => service'[dbRow'[e].slug] = e
      BY <1>1, <1>4, <3>2 DEF NamesFit, HasRow, Healthy, Sound
    <3>5. QED BY <3>1, <3>3, <3>4 DEF Healthy
  <2>9. QED BY <1>5, <2>5, <2>6, <2>7, <2>8 DEF NamesFit
<1>8. QED BY <1>6, <1>7 DEF DeployApp

LEMMA DeleteAppNames ==
    ASSUME DbShape, DbShape', OneCall, Asked, NamesFit, NEW q \in DbCallers, DeleteAppHere(q)
    PROVE  NamesFit'
<1>0. PICK a, s : a = dbCall[q].a /\ s = appRow[a].slug
  OBVIOUS
<1>1. /\ dbCall[q].kind = "deleteApp" /\ dbCall[q].at = "objects" /\ DbEnds(q)
      /\ UNCHANGED <<dbRow, object, worker, dbmix>>
      /\ service' = [service EXCEPT ![s] = Nobody] /\ appRow' = [appRow EXCEPT ![a] = NoAppRow]
  BY <1>0 DEF DeleteAppHere, DbAt
<1>2. a \in DbApps
  BY <1>0, <1>1 DEF DbShape, CallFits
<1>3. \A r \in DbCallers : dbCall'[r].at = "off"
  BY <1>1, OthersRest, NoCallIs DEF DbEnds, DbShape, DbTypes
<1>4. HasService' = HasService /\ (Sound' <=> Sound) /\ \A e \in DbIds : ~Leaving(e)
  BY <1>1 DEF HasService, Objects, Sound, Leaving, OneCall
<1>5. WorkersHaveRows' /\ CallsCountOn'
  BY <1>1, <1>3 DEF WorkersHaveRows, NamesFit, HasRow, CallsCountOn, CountsOn
<1>6. /\ \A b \in DbApps : b # a => appRow'[b] = appRow[b]
      /\ appRow'[a].slug = Nobody /\ ~appRow'[a].deployed
  BY <1>1, <1>2 DEF DbShape, DbTypes, NoAppRow
<1>7. \A t \in Slugs : SlugOwner(t)' = SlugOwner(t) \ {a}
  BY <1>1, <1>2, <1>6, DbNames DEF SlugOwner, HasRow
<1>8. \A t \in Slugs : service'[t] = IF t = s THEN Nobody ELSE service[t]
  BY <1>1 DEF DbShape, DbTypes
<1>9. OneOwner'
  BY <1>7 DEF NamesFit, OneOwner
<1>10. ServicesAreOwners'
  <2>1. \A t \in Slugs : t # s => a \notin SlugOwner(t)
    BY <1>0, <1>2, DbNames DEF SlugOwner
  <2>2. ASSUME NEW t \in Slugs
        PROVE  /\ service'[t] # Nobody => service'[t] \in SlugOwner(t)'
               /\ service'[t] \in DbIds => HasService
    BY <1>7, <1>8, <2>1, DbNames DEF NamesFit, ServicesAreOwners
  <2>3. QED BY <1>4, <2>2 DEF ServicesAreOwners
<1>11. DeployedIsServed'
  <2> SUFFICES ASSUME NEW b \in DbApps, appRow'[b].deployed PROVE HasApp(b)' /\ service'[appRow'[b].slug] = b
    BY DEF DeployedIsServed
  <2>1. b # a /\ appRow'[b] = appRow[b]
    BY <1>6
  <2>2. HasApp(b) /\ service[appRow[b].slug] = b /\ appRow[b].slug \in Slugs
    BY <2>1 DEF NamesFit, DeployedIsServed, HasApp, DbShape, DbTypes
  <2>3. appRow[b].slug # s
    BY <1>0, <1>2, <2>1, <2>2, AppsNameIsNoDatabases DEF HasApp
  <2>4. QED BY <1>8, <2>1, <2>2, <2>3 DEF HasApp
<1>12. Healthy'
  <2> SUFFICES ASSUME Sound PROVE Healthy'
    BY <1>4 DEF Healthy, Sound
  <2>1. s \in Slugs => object[s] = Nobody /\ \A e \in DbIds : HasRow(e) => dbRow[e].slug # s
    BY <1>0, <1>2, AppsNameIsNoDatabases, DbNames DEF HasApp
  <2>2. \A t \in Slugs : object'[t] # Nobody => service'[t] = object'[t]
    BY <1>1, <1>8, <2>1 DEF NamesFit, Healthy, Sound
  <2>3. \A e \in DbIds : HasRow(e) /\ service[dbRow[e].slug] = e => service'[dbRow'[e].slug] = e
    BY <1>1, <1>8, <2>1 DEF HasRow, DbShape, RowsAreNamed
  <2>4. \A e \in DbIds : worker'[e] \in {"starting", "wait"} => service'[dbRow'[e].slug] = e
    BY <1>1, <2>3 DEF NamesFit, WorkersHaveRows, Healthy, Sound
  <2>5. \A e \in DbIds : dbRow'[e].status = "running" => service'[dbRow'[e].slug] = e
    BY <1>1, <1>4, <2>3 DEF NamesFit, HasRow, Healthy, Sound
  <2>6. QED BY <1>1, <2>2, <2>4, <2>5 DEF Healthy
<1>13. QED BY <1>5, <1>9, <1>10, <1>11, <1>12 DEF NamesFit

LEMMA DeleteObjectsNames ==
    ASSUME DbShape, DbShape', OneCall, Asked, NamesFit, NEW q \in DbCallers,
           NEW ended \in {"no", "first", "second"}, DeleteObjects(q, ended)
    PROVE  NamesFit'
<1>0. PICK d, s : d = dbCall[q].d /\ s = dbRow[d].slug
  OBVIOUS
<1>1. /\ dbCall[q].kind = "deleteDb" /\ dbCall[q].at = "objects" /\ UNCHANGED <<appRow, dbRow, worker, dbmix>>
      /\ ended = "no" \/ "cluster" \in dbmix.faults
      /\ object' = IF ended = "first" \/ ~HasRow(d) THEN object ELSE [object EXCEPT ![s] = Nobody]
      /\ service' = IF ended = "no" /\ HasRow(d) /\ HasService THEN [service EXCEPT ![s] = Nobody] ELSE service
  BY <1>0 DEF DeleteObjects, DbAt
<1>2. d \in DbIds /\ worker[d] = "off" /\ s \in Slugs
  BY <1>0, <1>1 DEF DbShape, RowsAreNamed, CallFits, NamesFit, CallsCountOn, CountsOn
<1>3. \A r \in DbCallers : r # q => dbCall'[r] = dbCall[r] /\ dbCall'[r].at = "off"
  <2>1. Handle(q)
    BY DEF Handle
  <2>2. QED BY <1>1, <2>1, HandleIsOnes, OthersRest
<1>4. CASE DbEnds(q) /\ UNCHANGED <<service, object>>
  BY <1>1, <1>3, <1>4, EndCounts, RequestNames
<1>5. CASE HasRow(d)
  <2>1. d \in SlugOwner(s) /\ \A x \in SlugOwner(s) : x = d
    BY <1>0, <1>2, <1>5 DEF SlugOwner, NamesFit, OneOwner
  <2>2. \A t \in Slugs : service'[t] = service[t] \/ (t = s /\ service'[t] = Nobody)
    BY <1>1 DEF DbShape, DbTypes
  <2>3. \A t : SlugOwner(t)' = SlugOwner(t)
    BY <1>1 DEF SlugOwner, HasRow
  <2>4. HasService' = HasService /\ (Sound' <=> Sound)
    BY <1>1 DEF HasService, Objects, Sound
  <2>5. OneOwner'
    BY <2>3 DEF NamesFit, OneOwner
  <2>6. ServicesAreOwners'
    <3>1. ASSUME NEW t \in Slugs
          PROVE  /\ service'[t] # Nobody => service'[t] \in SlugOwner(t)'
                 /\ service'[t] \in DbIds => HasService
      BY <2>2, <2>3, DbNames DEF NamesFit, ServicesAreOwners
    <3>2. QED BY <2>4, <3>1 DEF ServicesAreOwners
  <2>7. DeployedIsServed'
    <3> SUFFICES ASSUME NEW b \in DbApps, appRow[b].deployed PROVE HasApp(b)' /\ service'[appRow[b].slug] = b
      BY <1>1 DEF DeployedIsServed
    <3>1. HasApp(b) /\ service[appRow[b].slug] = b /\ appRow[b].slug \in Slugs
      BY DEF NamesFit, DeployedIsServed, HasApp, DbShape, DbTypes
    <3>2. appRow[b].slug # s
      BY <1>0, <1>2, <1>5, <3>1, AppsNameIsNoDatabases
    <3>3. QED BY <1>1, <2>2, <3>1, <3>2 DEF HasApp
  <2>8. WorkersHaveRows'
    BY <1>1 DEF WorkersHaveRows, NamesFit, HasRow
  <2>9. DbEnds(q) \/ (ended = "no" /\ \E listed \in SUBSET links : dbCall' = [dbCall EXCEPT ![q].at = "apps", ![q].left = listed])
    BY DEF DeleteObjects
  <2>10. \/ dbCall'[q].at = "off" /\ ended # "no"
         \/ dbCall'[q].kind = "deleteDb" /\ dbCall'[q].at = "apps" /\ dbCall'[q].d = d /\ ended = "no"
    <3>1. CASE ended # "no"
      <4>1. DbEnds(q)
        BY <3>1 DEF DeleteObjects
      <4>2. QED BY <3>1, <4>1, NoCallIs DEF DbEnds, DbShape, DbTypes
    <3>2. CASE ended = "no"
      <4>1. PICK listed \in SUBSET links : dbCall' = [dbCall EXCEPT ![q].at = "apps", ![q].left = listed]
        BY <1>0, <1>5, <3>2 DEF DeleteObjects
      <4>2. PICK f : f = [dbCall EXCEPT ![q].at = "apps"]
        OBVIOUS
      <4>3. f \in [DbCallers -> DbCallType] /\ f[q].at = "apps" /\ f[q].kind = "deleteDb" /\ f[q].d = d
        <5>1. dbCall \in [DbCallers -> DbCallType] /\ "apps" \in DbPlaces
          BY DEF DbShape, DbTypes, DbPlaces
        <5>2. QED BY <1>0, <1>1, <4>2, <5>1 DEF DbCallType
      <4>4. dbCall' = [f EXCEPT ![q].left = listed]
        BY <4>1, <4>2
      <4>5. QED BY <3>2, <4>3, <4>4 DEF DbCallType
    <3>3. QED BY <3>1, <3>2
  <2>11. CallsCountOn'
    <3>1. ended = "no" => service'[s] # d
      <4>1. CASE HasService
        BY <1>1, <1>2, <1>5, <4>1, DbNames DEF DbShape, DbTypes
      <4>2. CASE ~HasService
        BY <1>1, <1>2, <4>2 DEF NamesFit, ServicesAreOwners
      <4>3. QED BY <4>1, <4>2
    <3>2. CountsOn(dbCall[q])'
      BY <1>0, <1>1, <1>2, <2>10, <3>1 DEF CountsOn
    <3>3. QED BY <1>3, <3>2 DEF CallsCountOn, CountsOn
  <2>12. Healthy'
    <3> SUFFICES ASSUME Sound PROVE Healthy'
      BY <2>4 DEF Healthy, Sound
    <3>1. ended = "no" /\ HasService /\ Leaving(d)' /\ \A e \in DbIds : ~Leaving(e)
      BY <1>1, <2>10 DEF Sound, Leaving, OneCall
    <3>2. \A t \in Slugs : IF t = s THEN object'[t] = Nobody /\ service'[t] = Nobody ELSE object'[t] = object[t] /\ service'[t] = service[t]
      BY <1>1, <1>2, <1>5, <3>1 DEF DbShape, DbTypes
    <3>3. \A t \in Slugs : object'[t] # Nobody => service'[t] = object'[t]
      BY <3>2 DEF NamesFit, Healthy, Sound
    <3>4. \A e \in DbIds : HasRow(e) /\ e # d /\ service[dbRow[e].slug] = e => service'[dbRow'[e].slug] = e
      <4> SUFFICES ASSUME NEW e \in DbIds, HasRow(e), e # d, service[dbRow[e].slug] = e PROVE service'[dbRow'[e].slug] = e
        OBVIOUS
      <4>1. dbRow[e].slug \in Slugs
        BY DEF HasRow, DbShape, RowsAreNamed
      <4>2. dbRow[e].slug # s
        BY <2>1 DEF SlugOwner
      <4>3. QED BY <1>1, <3>2, <4>1, <4>2
    <3>5. \A e \in DbIds : worker'[e] \in {"starting", "wait"} => service'[dbRow'[e].slug] = e
      BY <1>1, <1>2, <3>4 DEF NamesFit, WorkersHaveRows, Healthy, Sound
    <3>6. \A e \in DbIds : dbRow'[e].status = "running" /\ ~Leaving(e)' => service'[dbRow'[e].slug] = e
      <4> SUFFICES ASSUME NEW e \in DbIds, dbRow'[e].status = "running", ~Leaving(e)' PROVE service'[dbRow'[e].slug] = e
        OBVIOUS
      <4>1. HasRow(e) /\ service[dbRow[e].slug] = e
        BY <1>1, <3>1 DEF HasRow, NamesFit, Healthy, Sound
      <4>2. e # d
        BY <3>1
      <4>3. QED BY <3>4, <4>1, <4>2
    <3>7. QED BY <3>3, <3>5, <3>6 DEF Healthy
  <2>13. QED BY <2>5, <2>6, <2>7, <2>8, <2>11, <2>12 DEF NamesFit
<1>6. QED BY <1>0, <1>1, <1>4, <1>5 DEF DeleteObjects

LEMMA DeleteRowNames ==
    ASSUME DbShape, DbShape', OneCall, Asked, NamesFit, NEW q \in DbCallers, DeleteDatabaseRow(q)
    PROVE  NamesFit'
<1>0. PICK d : d = dbCall[q].d
  OBVIOUS
<1>1. /\ dbCall[q].kind = "deleteDb" /\ dbCall[q].at = "row" /\ DbEnds(q)
      /\ UNCHANGED <<appRow, service, object, worker, dbmix>>
      /\ \/ dbRow' = IF HasRow(d) THEN [dbRow EXCEPT ![d].status = "gone"] ELSE dbRow
         \/ UNCHANGED dbRow /\ dbmix.faults # {}
  BY <1>0 DEF DeleteDatabaseRow, DbAt, MayRefuse
<1>2. d \in DbIds /\ worker[d] = "off" /\ service[dbRow[d].slug] # d
  BY <1>0, <1>1 DEF DbShape, CallFits, NamesFit, CallsCountOn, CountsOn
<1>3. CASE UNCHANGED dbRow /\ dbmix.faults # {}
  <2>1. dbCall[q].at # "off" /\ \A r \in DbCallers : r # q => dbCall'[r] = dbCall[r]
    BY HandleIsOnes DEF Handle
  <2>2. QED BY <1>1, <1>3, <2>1, EndCounts, RequestNames DEF Sound
<1>4. SUFFICES ASSUME dbRow' = IF HasRow(d) THEN [dbRow EXCEPT ![d].status = "gone"] ELSE dbRow PROVE NamesFit'
  BY <1>1, <1>3
<1>5. \A r \in DbCallers : dbCall'[r].at = "off"
  BY <1>1, OthersRest, NoCallIs DEF DbEnds, DbShape, DbTypes
<1>6. HasService' = HasService /\ \A e \in DbIds : e # d => ~Leaving(e)
  BY <1>0, <1>1 DEF HasService, Objects, Leaving, OneCall
<1>7. /\ \A e \in DbIds : e # d => dbRow'[e] = dbRow[e]
      /\ dbRow'[d].slug = dbRow[d].slug /\ dbRow'[d].status \in {"gone", "never"}
  BY <1>4, <1>2 DEF DbShape, DbTypes, HasRow
<1>8. \A e \in DbIds : HasRow(e)' <=> HasRow(e) /\ e # d
  BY <1>7 DEF HasRow
<1>9. \A t : SlugOwner(t)' = SlugOwner(t) \ {d}
  BY <1>1, <1>2, <1>7, <1>8, DbNames DEF SlugOwner
<1>10. OneOwner'
  BY <1>9 DEF NamesFit, OneOwner
<1>11. ServicesAreOwners'
  <2>1. ASSUME NEW t \in Slugs, service[t] # Nobody PROVE service[t] \in SlugOwner(t)'
    <3>1. service[t] \in SlugOwner(t)
      BY <2>1 DEF NamesFit, ServicesAreOwners
    <3>2. service[t] # d
      BY <1>2, <3>1, DbNames DEF SlugOwner
    <3>3. QED BY <1>9, <3>1, <3>2
  <2>2. QED BY <1>1, <1>6, <2>1 DEF ServicesAreOwners, NamesFit
<1>12. DeployedIsServed'
  BY <1>1 DEF DeployedIsServed, NamesFit, HasApp
<1>13. WorkersHaveRows' /\ CallsCountOn'
  BY <1>1, <1>2, <1>5, <1>8 DEF WorkersHaveRows, NamesFit, CallsCountOn, CountsOn
<1>14. Healthy'
  BY <1>1, <1>2, <1>6, <1>7 DEF Healthy, NamesFit
<1>15. QED BY <1>10, <1>11, <1>12, <1>13, <1>14 DEF NamesFit

LEMMA MixStays == DbShape /\ [DbNext]_dbVars => dbmix' = dbmix
<1> SUFFICES ASSUME DbShape, [DbNext]_dbVars PROVE dbmix' = dbmix
  OBVIOUS
<1>1. ASSUME NEW q \in DbCallers, NEW c, DbBegin(q, c) PROVE dbmix' = dbmix
  BY <1>1 DEF DbBegin
<1>2. ASSUME NEW d \in DbIds, Provision(d) PROVE dbmix' = dbmix
  BY <1>2 DEF Provision, EnsureComponent, ApplyDatabase, MarkStarting, WaitReady
<1>3. CASE Restart
  BY <1>3 DEF Restart
<1>4. QED BY <1>1, <1>2, <1>3, HandleIsOnes DEF DbNext, dbVars

LEMMA NamesKeep == DbInv /\ DbShape' /\ [DbNext]_dbVars => NameInv'
<1> SUFFICES ASSUME DbInv, DbShape', [DbNext]_dbVars, Asked' PROVE NamesFit'
  BY DEF NameInv
<1>1. dbmix' = dbmix
  BY MixStays DEF DbInv
<1>2. Asked /\ DbShape /\ OneCall /\ NamesFit
  BY <1>1 DEF DbInv, NameInv, Asked
<1>3. CASE UNCHANGED dbVars
  <2>1. UNCHANGED <<appRow, dbRow, service, object, worker, dbCall, dbmix>>
    BY <1>3 DEF dbVars
  <2>2. \A q \in DbCallers : CountsOn(dbCall[q])'
    BY <1>2, <2>1 DEF NamesFit, CallsCountOn, CountsOn, SlugOwner, HasApp, HasRow
  <2>3. /\ \A d \in DbIds : worker[d] # "off" => HasRow(d)
        /\ Sound => \A d \in DbIds : worker[d] \in {"starting", "wait"} => service[dbRow[d].slug] = d
        /\ Sound => \A s \in Slugs : object[s] # Nobody => service[s] = object[s]
    BY <1>2 DEF NamesFit, WorkersHaveRows, Healthy, Sound
  <2>4. \A d \in DbIds : (HasRow(d)' <=> HasRow(d)) /\ (Leaving(d) => Leaving(d)')
    BY <2>1 DEF HasRow, Leaving
  <2>5. QED BY <1>2, <2>1, <2>2, <2>3, <2>4, NamesStaySo
<1>4. ASSUME NEW q \in DbCallers, Handle(q) PROVE NamesFit'
  BY <1>2, <1>4, AsksNames, CreateAppNames, CreateDatabaseNames, SealNames, GetNames, DeployNames, DeleteAppNames, LinksNames,
     DeleteObjectsNames, DeleteLinkedNames, DeleteRowNames DEF Handle
<1>5. QED BY <1>2, <1>3, <1>4, BeginNames, AsksNames, ProvisionNames, RestartNames DEF DbNext

LEMMA NamesStart == DbInit => NameInv
<1> SUFFICES ASSUME DbInit PROVE NamesFit
  BY DEF NameInv
<1>1. /\ \A a \in DbApps : appRow[a].slug = Nobody /\ ~appRow[a].deployed
      /\ \A d \in DbIds : ~HasRow(d) /\ dbRow[d].status = "never" /\ worker[d] = "off"
      /\ \A s \in Slugs : service[s] = Nobody /\ object[s] = Nobody
      /\ \A q \in DbCallers : dbCall[q].at = "off"
  BY NoCallIs DEF DbInit, NoAppRow, NoDatabase, HasRow
<1>2. OneOwner
  BY <1>1, DbNames DEF OneOwner, SlugOwner
<1>3. ServicesAreOwners /\ DeployedIsServed /\ WorkersHaveRows /\ CallsCountOn /\ Healthy
  BY <1>1, DbNames DEF ServicesAreOwners, DeployedIsServed, WorkersHaveRows, CallsCountOn, CountsOn, Healthy
<1>4. QED BY <1>2, <1>3 DEF NamesFit

LEMMA NamesAreOne == DbInv => NameMeansOneThing
<1> SUFFICES ASSUME DbInv, DbQuiet, Asked
             PROVE  /\ \A s \in Slugs : service[s] # Nobody => SlugOwner(s) = {service[s]}
                    /\ \A a \in DbApps : appRow[a].deployed => service[appRow[a].slug] = a
                    /\ \A d \in DbIds : dbRow[d].status = "running" /\ HasService /\ dbmix.faults = {} => service[dbRow[d].slug] = d
  BY DEF NameMeansOneThing, Asked
<1>1. NamesFit
  BY DEF DbInv, NameInv
<1>2. \A d : ~Leaving(d)
  BY DEF DbQuiet, Leaving
<1>3. \A s \in Slugs : service[s] # Nobody => SlugOwner(s) = {service[s]}
  BY <1>1 DEF NamesFit, OneOwner, ServicesAreOwners
<1>4. QED BY <1>1, <1>2, <1>3 DEF NamesFit, DeployedIsServed, Healthy

-----------------------------------------------------------------------------
(* Connection strings.                                                     *)

\* A request that no variable waits for.
Aside(c) == ~(c.kind \in {"link", "unlink"} /\ c.at \in {"link", "sync"}) /\ ~(c.kind = "deleteDb" /\ c.at \in {"apps", "row"})

\* Requests come and go, and variables, links and apps stay.
LEMMA UrlsStay ==
    ASSUME DbShape, UrlsFit, UNCHANGED <<urlIn, links, leftover, injected, dbmix>>,
           \A d \in DbIds : HasRow(d) => HasRow(d)',
           \A a \in DbApps : (HasApp(a) => HasApp(a)') /\ appRow'[a].deployed = appRow[a].deployed,
           \A q \in DbCallers : dbCall'[q] = dbCall[q] \/ (Aside(dbCall[q]) /\ Aside(dbCall'[q]))
    PROVE  UrlsFit'
<1>1. UrlsAreLinked /\ LinksHaveRows /\ DeletionTakesUrls /\ UrlsAreInjected
  BY DEF UrlsFit
<1>2. UrlsAreLinked'
  <2>1. \A a, v, d : Linking(a, v, d) => Linking(a, v, d)'
    BY DEF Linking, DbAt, Aside
  <2>2. QED BY <1>1, <2>1 DEF UrlsAreLinked
<1>3. LinksHaveRows'
  <2>1. \A l \in links' : HasRow(l.d)'
    BY <1>1 DEF LinksHaveRows, DbShape, DbTypes, Links
  <2>2. ASSUME NEW q \in DbCallers, DbAt(q, {"link"}, "link")' PROVE HasRow(dbCall[q].d)' /\ HasApp(dbCall[q].a)'
    <3>1. dbCall'[q] = dbCall[q] /\ DbAt(q, {"link"}, "link")
      BY <2>2 DEF DbAt, Aside
    <3>2. dbCall[q].d \in DbIds /\ dbCall[q].a \in DbApps
      BY <3>1 DEF DbAt, DbShape, CallFits
    <3>3. QED BY <1>1, <3>1, <3>2 DEF LinksHaveRows
  <2>3. ASSUME NEW q \in DbCallers, DbAt(q, {"unlink"}, "link")'
        PROVE  \A v \in VarNames : urlIn'[dbCall'[q].a][v] = dbCall'[q].d => <<dbCall'[q].a, v>> \in leftover'
    <3>1. dbCall'[q] = dbCall[q] /\ DbAt(q, {"unlink"}, "link")
      BY <2>3 DEF DbAt, Aside
    <3>2. QED BY <1>1, <3>1 DEF LinksHaveRows
  <2>4. QED BY <2>1, <2>2, <2>3 DEF LinksHaveRows, HasRow, HasApp
<1>4. DeletionTakesUrls'
  <2>1. ASSUME NEW q \in DbCallers, DbAt(q, {"deleteDb"}, "apps")' \/ DbAt(q, {"deleteDb"}, "row")'
        PROVE  dbCall'[q] = dbCall[q] /\ (DbAt(q, {"deleteDb"}, "apps") \/ DbAt(q, {"deleteDb"}, "row"))
    BY <2>1 DEF DbAt, Aside
  <2>2. QED BY <1>1, <2>1 DEF DeletionTakesUrls, DbAt
<1>5. UrlsAreInjected'
  <2>1. \A a \in DbApps : ToBeSynced(a) => ToBeSynced(a)'
    BY DEF ToBeSynced, DbAt, Aside
  <2>2. QED BY <1>1, <2>1 DEF UrlsAreInjected, Injected
<1>6. QED BY <1>2, <1>3, <1>4, <1>5 DEF UrlsFit

\* The only request is q: what it is after the step, others are not.
LEMMA OnlyOne ==
    ASSUME DbShape, OneCall, NEW q \in DbCallers, Handle(q)
    PROVE  /\ dbmix' = dbmix /\ dbCall[q].at # "off"
           /\ \A r \in DbCallers : r # q => dbCall[r].at = "off" /\ dbCall'[r] = dbCall[r]
BY HandleIsOnes, OthersRest

LEMMA EndsAside == ASSUME DbShape, NEW q \in DbCallers, DbEnds(q) PROVE dbCall'[q].at = "off" /\ Aside(dbCall'[q])
BY NoCallIs DEF DbEnds, DbShape, DbTypes, Aside

LEMMA BeginUrls ==
    ASSUME DbShape, UrlsFit, NEW q \in DbCallers, NEW c \in DbCalls, DbBegin(q, c)
    PROVE  UrlsFit'
<1>1. /\ UNCHANGED <<appRow, dbRow, urlIn, links, leftover, injected, dbmix>> /\ dbCall[q].at = "off"
      /\ dbCall' = [dbCall EXCEPT ![q] = c]
  BY DEF DbBegin
<1>2. Aside(c)
  BY FirstStep DEF Aside
<1>3. \A r \in DbCallers : dbCall'[r] = dbCall[r] \/ (Aside(dbCall[r]) /\ Aside(dbCall'[r]))
  BY <1>1, <1>2 DEF Aside, DbShape, DbTypes
<1>4. QED BY <1>1, <1>3, UrlsStay DEF HasRow, HasApp

LEMMA ProvisionUrls == ASSUME DbShape, UrlsFit, NEW d \in DbIds, Provision(d) PROVE UrlsFit'
<1>1. /\ UNCHANGED <<appRow, urlIn, links, leftover, injected, dbmix, dbCall>>
      /\ UNCHANGED dbRow \/ \E status \in {"failed", "starting", "running"} : SetDatabaseStatus(d, status)
  BY DEF Provision, EnsureComponent, ApplyDatabase, MarkStarting, WaitReady, Fail
<1>2. \A e \in DbIds : HasRow(e) => HasRow(e)'
  BY <1>1, StatusGoes DEF DbStatuses, HasRow
<1>3. QED BY <1>1, <1>2, UrlsStay DEF HasApp

LEMMA QuietUrls ==
    ASSUME DbShape, OneCall, UrlsFit, NEW q \in DbCallers,
           \/ CheckSlug(q) \/ CreateAppRow(q) \/ CreateDatabase(q) \/ SealAndProvision(q) \/ GetDatabase(q)
           \/ \E force \in BOOLEAN : CheckLinks(q, force)
    PROVE  UrlsFit'
<1>1. UNCHANGED <<urlIn, links, leftover, injected, dbmix>>
  BY DEF CheckSlug, CreateAppRow, CreateDatabase, SealAndProvision, GetDatabase, CheckLinks
<1>2. /\ Aside(dbCall[q]) /\ dbCall[q].at # "off"
      /\ DbEnds(q) \/ (dbCall[q].kind # "deleteDb" /\ (DbGo(q, "row") \/ DbGo(q, "seal"))) \/ DbGo(q, "objects")
  BY DEF CheckSlug, CreateAppRow, CreateDatabase, SealAndProvision, GetDatabase, CheckLinks, DbAt, Aside
<1>3. Aside(dbCall'[q])
  <2>1. CASE DbEnds(q)
    BY <2>1, EndsAside
  <2>2. ASSUME NEW where \in {"row", "seal", "objects"}, DbGo(q, where), where = "objects" \/ dbCall[q].kind # "deleteDb"
        PROVE  Aside(dbCall'[q])
    BY <2>2, GoIs DEF Aside
  <2>3. QED BY <1>2, <2>1, <2>2
<1>4. \A r \in DbCallers : dbCall'[r] = dbCall[r] \/ (Aside(dbCall[r]) /\ Aside(dbCall'[r]))
  BY <1>2, <1>3, OnlyOne DEF Handle
<1>5. \A a \in DbApps : (HasApp(a) => HasApp(a)') /\ appRow'[a].deployed = appRow[a].deployed
  <2>1. CASE UNCHANGED appRow
    BY <2>1 DEF HasApp
  <2>2. ASSUME NEW a, NEW s, s # Nobody, appRow' = [appRow EXCEPT ![a].slug = s]
        PROVE  \A b \in DbApps : (HasApp(b) => HasApp(b)') /\ appRow'[b].deployed = appRow[b].deployed
    BY <2>2 DEF HasApp, DbShape, DbTypes
  <2>3. CASE CreateAppRow(q)
    <3>1. dbCall[q].s \in Slugs
      BY <2>3 DEF CreateAppRow, DbAt, DbShape, CallFits
    <3>2. dbCall[q].s # Nobody
      BY <3>1, DbNames
    <3>3. QED BY <2>1, <2>2, <2>3, <3>2 DEF CreateAppRow
  <2>4. CASE ~CreateAppRow(q)
    BY <2>1, <2>4 DEF CheckSlug, CreateDatabase, SealAndProvision, GetDatabase, CheckLinks
  <2>5. QED BY <2>3, <2>4
<1>6. \A d \in DbIds : HasRow(d) => HasRow(d)'
  <2>1. CASE UNCHANGED dbRow
    BY <2>1 DEF HasRow
  <2>2. CASE CreateDatabase(q)
    <3>1. UNCHANGED dbRow \/ dbRow' = [dbRow EXCEPT ![dbCall[q].d] = [slug |-> dbCall[q].s, status |-> "creating", sealed |-> FALSE]]
      BY <2>2 DEF CreateDatabase
    <3>2. ASSUME NEW d, NEW new, new.status = "creating", dbRow' = [dbRow EXCEPT ![d] = new]
          PROVE  \A e \in DbIds : HasRow(e) => HasRow(e)'
      BY <3>2 DEF HasRow, DbShape, DbTypes
    <3>3. QED BY <2>1, <3>1, <3>2
  <2>3. CASE SealAndProvision(q)
    BY <2>3 DEF SealAndProvision, HasRow, DbShape, DbTypes
  <2>4. CASE GetDatabase(q)
    <3>1. dbCall[q].d \in DbIds
      BY <2>4 DEF GetDatabase, DbAt, DbShape, CallFits
    <3>2. QED BY <2>1, <2>4, <3>1, ReadStatuses, StatusGoes DEF GetDatabase
  <2>5. CASE ~(CreateDatabase(q) \/ SealAndProvision(q) \/ GetDatabase(q))
    BY <2>1, <2>5 DEF CheckSlug, CreateAppRow, CheckLinks
  <2>6. QED BY <2>2, <2>3, <2>4, <2>5
<1>7. QED BY <1>1, <1>4, <1>5, <1>6, UrlsStay

LEMMA DeleteObjectsUrls ==
    ASSUME DbShape, DbShape', OneCall, UrlsFit, NEW q \in DbCallers, NEW ended \in {"no", "first", "second"}, DeleteObjects(q, ended)
    PROVE  UrlsFit'
<1>0. PICK d : d = dbCall[q].d
  OBVIOUS
<1>1. /\ UNCHANGED <<appRow, dbRow, urlIn, links, injected, dbmix>>
      /\ dbCall[q].kind = "deleteDb" /\ dbCall[q].at = "objects"
  BY DEF DeleteObjects, DbAt
<1>2. \A r \in DbCallers : r # q => dbCall[r].at = "off" /\ dbCall'[r] = dbCall[r]
  BY OnlyOne DEF Handle
<1>3. CASE DbEnds(q) /\ UNCHANGED leftover
  <2>1. \A r \in DbCallers : dbCall'[r] = dbCall[r] \/ (Aside(dbCall[r]) /\ Aside(dbCall'[r]))
    BY <1>1, <1>2, <1>3, EndsAside DEF Aside
  <2>2. QED BY <1>1, <1>3, <2>1, UrlsStay DEF HasRow, HasApp
<1>4. ASSUME NEW listed \in SUBSET links, dbCall' = [dbCall EXCEPT ![q].at = "apps", ![q].left = listed],
             leftover' = leftover \cup LeftBehind({l \in links : l.d = d} \ listed, d)
      PROVE  UrlsFit'
  <2>1. dbCall'[q].at = "apps" /\ dbCall'[q].kind = "deleteDb" /\ dbCall'[q].d = d /\ dbCall'[q].left = listed
    <3>1. PICK f : f = [dbCall EXCEPT ![q].at = "apps"]
      OBVIOUS
    <3>2. f \in [DbCallers -> DbCallType] /\ f[q].at = "apps" /\ f[q].kind = "deleteDb" /\ f[q].d = d
      <4>1. dbCall \in [DbCallers -> DbCallType] /\ "apps" \in DbPlaces
        BY DEF DbShape, DbTypes, DbPlaces
      <4>2. QED BY <1>0, <1>1, <3>1, <4>1 DEF DbCallType
    <3>3. dbCall' = [f EXCEPT ![q].left = listed]
      BY <1>4, <3>1
    <3>4. QED BY <3>2, <3>3 DEF DbCallType
  <2>2. UrlsAreLinked /\ \A a, v, e : ~Linking(a, v, e)
    BY <1>1, <1>2 DEF UrlsFit, Linking, DbAt
  <2>3. UrlsAreLinked'
    <3>1. leftover \subseteq leftover'
      BY <1>4
    <3>2. QED BY <1>1, <2>2, <3>1 DEF UrlsAreLinked
  <2>4. LinksHaveRows'
    <3>1. \A l \in links' : HasRow(l.d)'
      BY <1>1 DEF UrlsFit, LinksHaveRows, HasRow
    <3>2. \A r \in DbCallers : ~DbAt(r, {"link"}, "link")' /\ ~DbAt(r, {"unlink"}, "link")'
      BY <1>2, <2>1 DEF DbAt
    <3>3. QED BY <3>1, <3>2 DEF LinksHaveRows
  <2>5. DeletionTakesUrls'
    <3>1. ASSUME NEW a \in DbApps, NEW v \in VarNames, urlIn[a][v] = d, <<a, v>> \notin leftover'
          PROVE  [d |-> urlIn[a][v], a |-> a, v |-> v] \in listed
      <4> DEFINE l == [d |-> urlIn[a][v], a |-> a, v |-> v]
      <4>1. d # Nobody
        BY <1>0, <1>1, DbNames DEF DbShape, CallFits
      <4>2. l \in {k \in links : k.d = d}
        BY <1>4, <2>2, <3>1, <4>1 DEF UrlsAreLinked
      <4>3. l \in {k \in links : k.d = d} \ listed => <<a, v>> \in LeftBehind({k \in links : k.d = d} \ listed, d)
        BY <3>1 DEF LeftBehind
      <4>4. QED BY <1>4, <3>1, <4>2, <4>3
    <3>2. \A r \in DbCallers : DbAt(r, {"deleteDb"}, "apps")' \/ DbAt(r, {"deleteDb"}, "row")' => r = q /\ ~DbAt(r, {"deleteDb"}, "row")'
      BY <1>2, <2>1 DEF DbAt
    <3>3. QED BY <1>1, <2>1, <3>1, <3>2 DEF DeletionTakesUrls
  <2>6. UrlsAreInjected'
    <3>1. \A a : ~ToBeSynced(a)
      BY <1>1, <1>2 DEF ToBeSynced
    <3>2. QED BY <1>1, <3>1 DEF UrlsFit, UrlsAreInjected, HasApp, Injected
  <2>7. QED BY <2>3, <2>4, <2>5, <2>6 DEF UrlsFit
<1>5. QED
  <2>1. \/ DbEnds(q) /\ UNCHANGED leftover
        \/ \E listed \in SUBSET links : /\ dbCall' = [dbCall EXCEPT ![q].at = "apps", ![q].left = listed]
                                        /\ leftover' = leftover \cup LeftBehind({l \in links : l.d = d} \ listed, d)
    BY <1>0 DEF DeleteObjects
  <2>2. QED BY <1>3, <1>4, <2>1

\* When no request is in progress, all there is to it is the links and what the cluster has.
LEMMA FitWhenOff ==
    ASSUME \A r \in DbCallers : dbCall'[r].at = "off", UrlsAreLinked', \A l \in links' : HasRow(l.d)', UrlsAreInjected'
    PROVE  UrlsFit'
BY DEF UrlsFit, LinksHaveRows, DeletionTakesUrls, DbAt

LEMMA DeployUrls ==
    ASSUME DbShape, DbShape', OneCall, UrlsFit, NEW q \in DbCallers, DeployApp(q)
    PROVE  UrlsFit'
<1>0. PICK a : a = dbCall[q].a
  OBVIOUS
<1>1. /\ UNCHANGED <<dbRow, urlIn, links, leftover, dbmix>> /\ dbCall[q].kind = "deploy" /\ dbCall[q].at = "objects" /\ DbEnds(q)
  BY DEF DeployApp, DbAt
<1>2. \A r \in DbCallers : r # q => dbCall[r].at = "off" /\ dbCall'[r] = dbCall[r]
  BY OnlyOne DEF Handle
<1>3. \A r \in DbCallers : dbCall'[r].at = "off"
  BY <1>1, <1>2, EndsAside
<1>4. UrlsAreLinked /\ (\A b, v, e : ~Linking(b, v, e)) /\ (\A b : ~ToBeSynced(b))
  BY <1>1, <1>2 DEF UrlsFit, Linking, DbAt, ToBeSynced
<1>5. UrlsAreLinked' /\ \A l \in links' : HasRow(l.d)'
  BY <1>1, <1>4 DEF UrlsAreLinked, UrlsFit, LinksHaveRows, HasRow
<1>6. UrlsAreInjected'
  <2>1. CASE UNCHANGED <<appRow, injected>>
    BY <1>1, <1>4, <2>1 DEF UrlsFit, UrlsAreInjected, HasApp, Injected
  <2>2. CASE HasApp(a) /\ appRow' = [appRow EXCEPT ![a].deployed = TRUE] /\ injected' = [injected EXCEPT ![a] = Patched(a, urlIn[a])]
    <3>1. /\ \A b \in DbApps : b # a => appRow'[b] = appRow[b] /\ injected'[b] = injected[b]
          /\ \A b \in DbApps : appRow'[b].slug = appRow[b].slug /\ (b = a => injected'[b] = Patched(a, urlIn[a]) /\ appRow'[b].deployed)
      BY <2>2 DEF DbShape, DbTypes
    <3>2. \A b \in DbApps : b = a => Injected(b)'
      <4>1. \A v \in VarNames : urlIn[a][v] # Nobody => Patched(a, urlIn[a])[v] = urlIn[a][v]
        BY DEF Patched
      <4>2. QED BY <1>1, <3>1, <4>1 DEF Injected
    <3>3. \A b \in DbApps : b # a => (Injected(b)' <=> Injected(b))
      BY <1>1, <3>1 DEF Injected
    <3>4. QED BY <1>1, <1>4, <2>2, <3>1, <3>2, <3>3 DEF UrlsFit, UrlsAreInjected, HasApp
  <2>3. QED BY <1>0, <2>1, <2>2 DEF DeployApp
<1>7. QED BY <1>3, <1>5, <1>6, FitWhenOff

LEMMA DeleteAppUrls ==
    ASSUME DbShape, DbShape', OneCall, UrlsFit, NEW q \in DbCallers, DeleteAppHere(q)
    PROVE  UrlsFit'
<1>0. PICK a : a = dbCall[q].a
  OBVIOUS
<1>1. /\ UNCHANGED <<dbRow, dbmix>> /\ dbCall[q].kind = "deleteApp" /\ dbCall[q].at = "objects" /\ DbEnds(q)
      /\ injected' = [injected EXCEPT ![a] = NoUrls] /\ appRow' = [appRow EXCEPT ![a] = NoAppRow]
      /\ urlIn' = [urlIn EXCEPT ![a] = NoUrls] /\ links' = {l \in links : l.a # a} /\ leftover' = {x \in leftover : x[1] # a}
  BY <1>0 DEF DeleteAppHere, DbAt
<1>2. \A r \in DbCallers : r # q => dbCall[r].at = "off" /\ dbCall'[r] = dbCall[r]
  BY OnlyOne DEF Handle
<1>3. \A r \in DbCallers : dbCall'[r].at = "off"
  BY <1>1, <1>2, EndsAside
<1>4. UrlsAreLinked /\ (\A b, v, e : ~Linking(b, v, e)) /\ (\A b : ~ToBeSynced(b))
  BY <1>1, <1>2 DEF UrlsFit, Linking, DbAt, ToBeSynced
<1>5. \A b \in DbApps : /\ b # a => appRow'[b] = appRow[b] /\ injected'[b] = injected[b] /\ urlIn'[b] = urlIn[b]
                        /\ b = a => ~appRow'[b].deployed /\ injected'[b] = NoUrls /\ urlIn'[b] = NoUrls
  BY <1>1 DEF DbShape, DbTypes, NoAppRow
<1>6. UrlsAreLinked'
  <2> SUFFICES ASSUME NEW b \in DbApps, NEW v \in VarNames, urlIn'[b][v] # Nobody, <<b, v>> \notin leftover'
               PROVE  [d |-> urlIn'[b][v], a |-> b, v |-> v] \in links'
    BY DEF UrlsAreLinked
  <2>1. b # a /\ urlIn'[b] = urlIn[b]
    BY <1>5 DEF NoUrls
  <2>2. <<b, v>> \notin leftover
    BY <1>1, <2>1
  <2>3. [d |-> urlIn[b][v], a |-> b, v |-> v] \in links
    BY <1>4, <2>1, <2>2 DEF UrlsAreLinked
  <2>4. QED BY <1>1, <2>1, <2>3
<1>7. \A l \in links' : HasRow(l.d)'
  BY <1>1 DEF UrlsFit, LinksHaveRows, HasRow
<1>8. UrlsAreInjected'
  BY <1>1, <1>4, <1>5 DEF UrlsFit, UrlsAreInjected, HasApp, Injected
<1>9. QED BY <1>3, <1>6, <1>7, <1>8, FitWhenOff

LEMMA LinkVariableUrls ==
    ASSUME DbShape, DbShape', OneCall, UrlsFit, NEW q \in DbCallers, LinkVariable(q)
    PROVE  UrlsFit'
<1>0. PICK a, v, d : a = dbCall[q].a /\ v = dbCall[q].v /\ d = dbCall[q].d
  OBVIOUS
<1>1. /\ UNCHANGED <<appRow, dbRow, links, injected, dbmix>> /\ dbCall[q].kind = "link" /\ dbCall[q].at = "variable"
  BY DEF LinkVariable, DbAt
<1>2. \A r \in DbCallers : r # q => dbCall[r].at = "off" /\ dbCall'[r] = dbCall[r]
  BY OnlyOne DEF Handle
<1>3. UrlsAreLinked /\ (\A b, w, e : ~Linking(b, w, e)) /\ (\A b : ~ToBeSynced(b))
  BY <1>1, <1>2 DEF UrlsFit, Linking, DbAt, ToBeSynced
<1>4. CASE DbEnds(q) /\ UNCHANGED <<urlIn, leftover>>
  <2>1. \A r \in DbCallers : dbCall'[r] = dbCall[r] \/ (Aside(dbCall[r]) /\ Aside(dbCall'[r]))
    BY <1>1, <1>2, <1>4, EndsAside DEF Aside
  <2>2. QED BY <1>1, <1>4, <2>1, UrlsStay DEF HasRow, HasApp
<1>5. CASE /\ Credentials(d) /\ HasApp(a) /\ urlIn' = [urlIn EXCEPT ![a][v] = d]
           /\ leftover' = leftover \ {<<a, v>>} /\ DbGo(q, "link")
  <2>1. dbCall'[q].at = "link" /\ dbCall'[q].kind = "link" /\ dbCall'[q].a = a /\ dbCall'[q].v = v /\ dbCall'[q].d = d
    BY <1>0, <1>1, <1>5, GoIs
  <2>2. a \in DbApps /\ v \in VarNames /\ d \in DbIds /\ HasRow(d)
    BY <1>0, <1>1, <1>5 DEF DbShape, CallFits, Credentials
  <2>3. \A b \in DbApps : /\ b # a => urlIn'[b] = urlIn[b]
                          /\ \A w \in VarNames : urlIn'[b][w] = IF b = a /\ w = v THEN d ELSE urlIn[b][w]
    BY <1>5, <2>2 DEF DbShape, DbTypes
  <2>4. UrlsAreLinked'
    <3> SUFFICES ASSUME NEW b \in DbApps, NEW w \in VarNames, urlIn'[b][w] # Nobody, <<b, w>> \notin leftover'
                 PROVE  ([d |-> urlIn[b][w], a |-> b, v |-> w] \in links \/ Linking(b, w, urlIn[b][w]))'
      BY DEF UrlsAreLinked
    <3>1. CASE b = a /\ w = v
      BY <2>1, <2>3, <3>1 DEF Linking, DbAt
    <3>2. CASE ~(b = a /\ w = v)
      <4>1. urlIn'[b][w] = urlIn[b][w] /\ <<b, w>> \notin leftover
        BY <1>5, <2>3, <3>2
      <4>2. QED BY <1>1, <1>3, <4>1 DEF UrlsAreLinked
    <3>3. QED BY <3>1, <3>2
  <2>5. LinksHaveRows'
    <3>1. \A l \in links' : HasRow(l.d)'
      BY <1>1 DEF UrlsFit, LinksHaveRows, HasRow
    <3>2. \A r \in DbCallers : (DbAt(r, {"link"}, "link")' => r = q) /\ ~DbAt(r, {"unlink"}, "link")'
      BY <1>2, <2>1 DEF DbAt
    <3>3. QED BY <1>1, <1>5, <2>1, <2>2, <3>1, <3>2 DEF LinksHaveRows, HasRow, HasApp
  <2>6. DeletionTakesUrls'
    BY <1>2, <2>1 DEF DeletionTakesUrls, DbAt
  <2>7. UrlsAreInjected'
    <3>1. ToBeSynced(a)'
      BY <2>1 DEF ToBeSynced, DbAt
    <3>2. \A b \in DbApps : ToBeSynced(b)' \/ urlIn'[b] = urlIn[b]
      BY <2>3, <3>1
    <3>3. QED BY <1>1, <1>3, <3>2 DEF UrlsFit, UrlsAreInjected, HasApp, Injected
  <2>8. QED BY <2>4, <2>5, <2>6, <2>7 DEF UrlsFit
<1>6. QED BY <1>0, <1>4, <1>5 DEF LinkVariable

LEMMA LinkDatabaseUrls ==
    ASSUME DbShape, DbShape', OneCall, UrlsFit, NEW q \in DbCallers, LinkDatabase(q)
    PROVE  UrlsFit'
<1>0. PICK a, v, d : a = dbCall[q].a /\ v = dbCall[q].v /\ d = dbCall[q].d
  OBVIOUS
<1> DEFINE old == {l \in links : l.d = d /\ l.a = a}
<1>1. /\ UNCHANGED <<appRow, dbRow, urlIn, injected, dbmix>> /\ DbAt(q, {"link"}, "link")
      /\ dbCall[q].kind = "link" /\ dbCall[q].at = "link"
  BY DEF LinkDatabase, DbAt
<1>2. \A r \in DbCallers : r # q => dbCall[r].at = "off" /\ dbCall'[r] = dbCall[r]
  BY OnlyOne DEF Handle
<1>3. UrlsAreLinked /\ (\A b, w, e : Linking(b, w, e) => b = a /\ w = v /\ e = d) /\ (\A b : ToBeSynced(b) => b = a)
  BY <1>0, <1>1, <1>2 DEF UrlsFit, Linking, DbAt, ToBeSynced
<1>4. a \in DbApps /\ v \in VarNames /\ d \in DbIds /\ HasRow(d) /\ HasApp(a)
  BY <1>0, <1>1 DEF DbShape, CallFits, UrlsFit, LinksHaveRows
<1>5. /\ links' = (links \ old) \cup {[d |-> d, a |-> a, v |-> v]}
      /\ leftover' = leftover \cup {<<l.a, l.v>> : l \in {k \in old : k.v # v /\ urlIn[k.a][k.v] = d}}
      /\ DbGo(q, "sync")
  BY <1>0, <1>4 DEF LinkDatabase, LeftBehind
<1>6. dbCall'[q].at = "sync" /\ dbCall'[q].kind = "link" /\ dbCall'[q].a = a
  BY <1>0, <1>1, <1>5, GoIs
<1>7. UrlsAreLinked'
  <2> SUFFICES ASSUME NEW b \in DbApps, NEW w \in VarNames, urlIn[b][w] # Nobody, <<b, w>> \notin leftover'
               PROVE  [d |-> urlIn[b][w], a |-> b, v |-> w] \in links'
    BY <1>1 DEF UrlsAreLinked
  <2> DEFINE l == [d |-> urlIn[b][w], a |-> b, v |-> w]
  <2>1. l \in links \/ Linking(b, w, urlIn[b][w])
    BY <1>3, <1>5 DEF UrlsAreLinked
  <2>2. CASE Linking(b, w, urlIn[b][w])
    BY <1>3, <1>5, <2>2
  <2>3. CASE l \in links /\ ~(b = a /\ urlIn[b][w] = d)
    BY <1>5, <2>3
  <2>4. CASE l \in links /\ b = a /\ urlIn[b][w] = d
    <3>1. l \in old /\ l.a = b /\ l.v = w
      BY <2>4
    <3>2. w = v
      BY <1>5, <2>4, <3>1
    <3>3. QED BY <1>5, <2>4, <3>2
  <2>5. QED BY <2>1, <2>2, <2>3, <2>4
<1>8. LinksHaveRows'
  <2>1. \A l \in links' : HasRow(l.d)'
    BY <1>1, <1>4, <1>5 DEF UrlsFit, LinksHaveRows, HasRow
  <2>2. \A r \in DbCallers : ~DbAt(r, {"link"}, "link")' /\ ~DbAt(r, {"unlink"}, "link")'
    BY <1>2, <1>6 DEF DbAt
  <2>3. QED BY <2>1, <2>2 DEF LinksHaveRows
<1>9. DeletionTakesUrls'
  BY <1>2, <1>6 DEF DeletionTakesUrls, DbAt
<1>10. UrlsAreInjected'
  <2>1. ToBeSynced(a)'
    BY <1>6 DEF ToBeSynced, DbAt
  <2>2. \A b \in DbApps : ToBeSynced(b)' \/ ~ToBeSynced(b)
    BY <1>3, <2>1
  <2>3. QED BY <1>1, <2>2 DEF UrlsFit, UrlsAreInjected, HasApp, Injected
<1>11. QED BY <1>7, <1>8, <1>9, <1>10 DEF UrlsFit

LEMMA UnlinkVariableUrls ==
    ASSUME DbShape, DbShape', OneCall, UrlsFit, NEW q \in DbCallers, UnlinkVariable(q)
    PROVE  UrlsFit'
<1>0. PICK a, d : a = dbCall[q].a /\ d = dbCall[q].d
  OBVIOUS
<1> DEFINE names == {l.v : l \in {k \in links : k.a = a /\ k.d = d}}
<1>1. /\ UNCHANGED <<appRow, dbRow, links, injected, leftover, dbmix>>
      /\ dbCall[q].kind = "unlink" /\ dbCall[q].at = "variable" /\ DbGo(q, "link")
      /\ urlIn' = [urlIn EXCEPT ![a] = [v \in VarNames |-> IF v \in names THEN Nobody ELSE @[v]]]
  BY <1>0 DEF UnlinkVariable, DbAt
<1>2. \A r \in DbCallers : r # q => dbCall[r].at = "off" /\ dbCall'[r] = dbCall[r]
  BY OnlyOne DEF Handle
<1>3. UrlsAreLinked /\ (\A b, w, e : ~Linking(b, w, e)) /\ (\A b : ~ToBeSynced(b))
  BY <1>1, <1>2 DEF UrlsFit, Linking, DbAt, ToBeSynced
<1>4. a \in DbApps /\ d \in DbIds
  BY <1>0, <1>1 DEF DbShape, CallFits
<1>5. dbCall'[q].at = "link" /\ dbCall'[q].kind = "unlink" /\ dbCall'[q].a = a /\ dbCall'[q].d = d
  BY <1>0, <1>1, GoIs
<1>6. \A b \in DbApps : /\ b # a => urlIn'[b] = urlIn[b]
                        /\ \A w \in VarNames : urlIn'[b][w] = IF b = a /\ w \in names THEN Nobody ELSE urlIn[b][w]
  <2>1. PICK mine : mine = [v \in VarNames |-> IF v \in names THEN Nobody ELSE urlIn[a][v]]
    OBVIOUS
  <2>2. urlIn' = [urlIn EXCEPT ![a] = mine]
    BY <1>1, <1>4, <2>1 DEF DbShape, DbTypes
  <2>3. QED BY <1>4, <2>1, <2>2 DEF DbShape, DbTypes
<1>7. UrlsAreLinked'
  <2> SUFFICES ASSUME NEW b \in DbApps, NEW w \in VarNames, urlIn'[b][w] # Nobody, <<b, w>> \notin leftover
               PROVE  [d |-> urlIn'[b][w], a |-> b, v |-> w] \in links
    BY <1>1 DEF UrlsAreLinked
  <2>1. urlIn'[b][w] = urlIn[b][w]
    BY <1>6
  <2>2. QED BY <1>3, <2>1 DEF UrlsAreLinked
<1>8. LinksHaveRows'
  <2>1. \A l \in links' : HasRow(l.d)'
    BY <1>1 DEF UrlsFit, LinksHaveRows, HasRow
  <2>2. \A r \in DbCallers : ~DbAt(r, {"link"}, "link")' /\ (DbAt(r, {"unlink"}, "link")' => r = q)
    BY <1>2, <1>5 DEF DbAt
  <2>3. ASSUME NEW w \in VarNames, urlIn'[a][w] = d PROVE <<a, w>> \in leftover
    <3> SUFFICES ASSUME <<a, w>> \notin leftover PROVE FALSE
      OBVIOUS
    <3>1. d # Nobody
      BY <1>4, DbNames
    <3>2. urlIn[a][w] = d /\ w \notin names
      BY <1>4, <1>6, <2>3, <3>1
    <3>3. [d |-> d, a |-> a, v |-> w] \in links
      BY <1>3, <1>4, <3>1, <3>2 DEF UrlsAreLinked
    <3>4. QED BY <3>2, <3>3
  <2>4. QED BY <1>1, <1>5, <2>1, <2>2, <2>3 DEF LinksHaveRows
<1>9. DeletionTakesUrls'
  BY <1>2, <1>5 DEF DeletionTakesUrls, DbAt
<1>10. UrlsAreInjected'
  <2>1. ASSUME NEW b \in DbApps PROVE ToBeSynced(b)' \/ urlIn'[b] = urlIn[b]
    <3>1. CASE b # a
      BY <1>6, <3>1
    <3>2. CASE b = a /\ \E l \in links : l.d = d /\ l.a = a
      BY <1>1, <1>5, <3>2 DEF ToBeSynced, DbAt
    <3>3. CASE b = a /\ ~\E l \in links : l.d = d /\ l.a = a
      <4>1. \A w \in VarNames : urlIn'[a][w] = urlIn[a][w]
        BY <1>4, <1>6, <3>3
      <4>2. urlIn[a] \in [VarNames -> DbIds \cup {Nobody}] /\ urlIn'[a] \in [VarNames -> DbIds \cup {Nobody}]
        BY <1>4 DEF DbShape, DbTypes
      <4>3. QED BY <3>3, <4>1, <4>2
    <3>4. QED BY <3>1, <3>2, <3>3
  <2>2. QED BY <1>1, <1>3, <2>1 DEF UrlsFit, UrlsAreInjected, HasApp, Injected
<1>11. QED BY <1>7, <1>8, <1>9, <1>10 DEF UrlsFit

LEMMA UnlinkDatabaseUrls ==
    ASSUME DbShape, DbShape', OneCall, UrlsFit, NEW q \in DbCallers, UnlinkDatabase(q)
    PROVE  UrlsFit'
<1>0. PICK a, d : a = dbCall[q].a /\ d = dbCall[q].d
  OBVIOUS
<1> DEFINE mine == {l \in links : l.d = d /\ l.a = a}
<1>1. /\ UNCHANGED <<appRow, dbRow, urlIn, injected, leftover, dbmix>> /\ DbAt(q, {"unlink"}, "link")
      /\ dbCall[q].kind = "unlink" /\ dbCall[q].at = "link"
      /\ links' = links \ mine /\ IF mine = {} THEN DbEnds(q) ELSE DbGo(q, "sync")
  BY <1>0 DEF UnlinkDatabase, DbAt
<1>2. \A r \in DbCallers : r # q => dbCall[r].at = "off" /\ dbCall'[r] = dbCall[r]
  BY OnlyOne DEF Handle
<1>3. UrlsAreLinked /\ (\A b, w, e : ~Linking(b, w, e)) /\ (\A b : ToBeSynced(b) => b = a /\ mine # {})
  BY <1>0, <1>1, <1>2 DEF UrlsFit, Linking, DbAt, ToBeSynced
<1>4. a \in DbApps /\ \A w \in VarNames : urlIn[a][w] = d => <<a, w>> \in leftover
  BY <1>0, <1>1 DEF DbShape, CallFits, UrlsFit, LinksHaveRows
<1>5. dbCall'[q].at \in {"sync", "off"} /\ (mine # {} => dbCall'[q].at = "sync" /\ dbCall'[q].kind = "unlink" /\ dbCall'[q].a = a)
  <2>1. CASE mine = {}
    BY <1>1, <2>1, EndsAside
  <2>2. CASE mine # {}
    BY <1>0, <1>1, <2>2, GoIs
  <2>3. QED BY <2>1, <2>2
<1>6. UrlsAreLinked'
  <2> SUFFICES ASSUME NEW b \in DbApps, NEW w \in VarNames, urlIn[b][w] # Nobody, <<b, w>> \notin leftover
               PROVE  [d |-> urlIn[b][w], a |-> b, v |-> w] \in links'
    BY <1>1 DEF UrlsAreLinked
  <2>1. [d |-> urlIn[b][w], a |-> b, v |-> w] \in links
    BY <1>3 DEF UrlsAreLinked
  <2>2. ~(b = a /\ urlIn[b][w] = d)
    BY <1>4
  <2>3. QED BY <1>1, <2>1, <2>2
<1>7. LinksHaveRows'
  <2>1. \A l \in links' : HasRow(l.d)'
    BY <1>1 DEF UrlsFit, LinksHaveRows, HasRow
  <2>2. \A r \in DbCallers : ~DbAt(r, {"link"}, "link")' /\ ~DbAt(r, {"unlink"}, "link")'
    BY <1>2, <1>5 DEF DbAt
  <2>3. QED BY <2>1, <2>2 DEF LinksHaveRows
<1>8. DeletionTakesUrls'
  BY <1>2, <1>5 DEF DeletionTakesUrls, DbAt
<1>9. UrlsAreInjected'
  <2>1. \A b \in DbApps : ToBeSynced(b) => ToBeSynced(b)'
    BY <1>3, <1>5 DEF ToBeSynced, DbAt
  <2>2. QED BY <1>1, <2>1 DEF UrlsFit, UrlsAreInjected, HasApp, Injected
<1>10. QED BY <1>6, <1>7, <1>8, <1>9 DEF UrlsFit

\* An app's Sync brings its variables to the cluster, and to no other app's.
LEMMA SyncBrings ==
    ASSUME DbShape, NEW a \in DbApps, NEW urls, SyncApp(a, urls), "cluster" \notin dbmix.faults, appRow[a].deployed => HasApp(a)
    PROVE  /\ \A b \in DbApps : b # a => injected'[b] = injected[b]
           /\ appRow[a].deployed => \A v \in VarNames : urls[v] # Nobody => injected'[a][v] = urls[v]
<1>1. /\ \A b \in DbApps : b # a => injected'[b] = injected[b]
      /\ appRow[a].deployed => injected'[a] = Patched(a, urls)
  BY DEF SyncApp, DbShape, DbTypes
<1>2. QED BY <1>1 DEF Patched

LEMMA SyncUrls ==
    ASSUME DbShape, DbShape', OneCall, UrlsFit, NEW q \in DbCallers, SyncAfterLink(q)
    PROVE  UrlsFit'
<1>0. PICK a : a = dbCall[q].a
  OBVIOUS
<1>1. /\ UNCHANGED <<appRow, dbRow, urlIn, links, leftover, dbmix>> /\ DbEnds(q)
      /\ dbCall[q].kind \in {"link", "unlink"} /\ dbCall[q].at = "sync" /\ SyncApp(a, urlIn[a])
  BY <1>0 DEF SyncAfterLink, DbAt
<1>2. \A r \in DbCallers : r # q => dbCall[r].at = "off" /\ dbCall'[r] = dbCall[r]
  BY OnlyOne DEF Handle
<1>3. \A r \in DbCallers : dbCall'[r].at = "off"
  BY <1>1, <1>2, EndsAside
<1>4. UrlsAreLinked /\ (\A b, w, e : ~Linking(b, w, e)) /\ (\A b : ToBeSynced(b) => b = a)
  BY <1>0, <1>1, <1>2 DEF UrlsFit, Linking, DbAt, ToBeSynced
<1>5. UrlsAreLinked' /\ \A l \in links' : HasRow(l.d)'
  BY <1>1, <1>4 DEF UrlsAreLinked, UrlsFit, LinksHaveRows, HasRow
<1>6. UrlsAreInjected'
  <2> SUFFICES ASSUME "cluster" \notin dbmix.faults, NEW b \in DbApps
               PROVE  appRow[b].deployed => HasApp(b) /\ Injected(b)'
    BY <1>1 DEF UrlsAreInjected, HasApp
  <2>1. a \in DbApps
    BY <1>0, <1>1 DEF DbShape, CallFits
  <2>2. \A c \in DbApps : appRow[c].deployed => HasApp(c)
    BY DEF UrlsFit, UrlsAreInjected
  <2>3. /\ b # a => injected'[b] = injected[b]
        /\ appRow[a].deployed => \A v \in VarNames : urlIn[a][v] # Nobody => injected'[a][v] = urlIn[a][v]
    BY <1>1, <2>1, <2>2, SyncBrings
  <2>4. QED BY <1>1, <1>4, <2>2, <2>3 DEF UrlsFit, UrlsAreInjected, Injected
<1>7. QED BY <1>3, <1>5, <1>6, FitWhenOff

LEMMA DeleteLinkedUrls ==
    ASSUME DbShape, DbShape', OneCall, UrlsFit, NEW q \in DbCallers, DeleteLinkedVariable(q)
    PROVE  UrlsFit'
<1>0. PICK d, left : d = dbCall[q].d /\ left = dbCall[q].left
  OBVIOUS
<1>1. /\ UNCHANGED <<appRow, dbRow, links, dbmix>> /\ DbAt(q, {"deleteDb"}, "apps")
      /\ dbCall[q].kind = "deleteDb" /\ dbCall[q].at = "apps"
  BY DEF DeleteLinkedVariable, DbAt
<1>2. \A r \in DbCallers : r # q => dbCall[r].at = "off" /\ dbCall'[r] = dbCall[r]
  BY OnlyOne DEF Handle
<1>3. UrlsAreLinked /\ (\A b, w, e : ~Linking(b, w, e)) /\ (\A b : ~ToBeSynced(b))
  BY <1>1, <1>2 DEF UrlsFit, Linking, DbAt, ToBeSynced
<1>4. \A b \in DbApps, w \in VarNames : urlIn[b][w] = d /\ <<b, w>> \notin leftover => [d |-> urlIn[b][w], a |-> b, v |-> w] \in left
  BY <1>0, <1>1 DEF UrlsFit, DeletionTakesUrls
<1>5. CASE left = {} /\ DbGo(q, "row") /\ UNCHANGED <<urlIn, leftover, injected>>
  <2>1. dbCall'[q].at = "row" /\ dbCall'[q].kind = "deleteDb" /\ dbCall'[q].d = d /\ dbCall'[q].left = left
    BY <1>0, <1>1, <1>5, GoIs
  <2>2. UrlsAreLinked'
    BY <1>1, <1>3, <1>5 DEF UrlsAreLinked
  <2>3. LinksHaveRows'
    <3>1. \A r \in DbCallers : ~DbAt(r, {"link"}, "link")' /\ ~DbAt(r, {"unlink"}, "link")'
      BY <1>2, <2>1 DEF DbAt
    <3>2. QED BY <1>1, <3>1 DEF UrlsFit, LinksHaveRows, HasRow
  <2>4. DeletionTakesUrls'
    <3>1. \A r \in DbCallers : DbAt(r, {"deleteDb"}, "apps")' \/ DbAt(r, {"deleteDb"}, "row")' => r = q
      BY <1>2, <2>1 DEF DbAt
    <3>2. QED BY <1>1, <1>4, <1>5, <2>1, <3>1 DEF DeletionTakesUrls
  <2>5. UrlsAreInjected'
    BY <1>1, <1>3, <1>5 DEF UrlsFit, UrlsAreInjected, HasApp, Injected
  <2>6. QED BY <2>2, <2>3, <2>4, <2>5 DEF UrlsFit
<1>6. ASSUME NEW l \in left, SyncApp(l.a, urlIn'[l.a]), dbCall' = [dbCall EXCEPT ![q].left = left \ {l}],
             \/ urlIn' = [urlIn EXCEPT ![l.a][l.v] = Nobody] /\ UNCHANGED leftover
             \/ UNCHANGED urlIn /\ leftover' = leftover \cup LeftBehind({l}, d)
      PROVE  UrlsFit'
  <2>1. dbCall'[q].at = "apps" /\ dbCall'[q].kind = "deleteDb" /\ dbCall'[q].d = d /\ dbCall'[q].left = left \ {l}
    BY <1>0, <1>1, <1>6 DEF DbShape, DbTypes, DbCallType
  <2>2. l \in Links /\ l.a \in DbApps /\ l.v \in VarNames /\ l = [d |-> l.d, a |-> l.a, v |-> l.v]
    BY <1>0, <1>6 DEF DbShape, DbTypes, DbCallType, Links
  <2>3. /\ \A b \in DbApps : /\ b # l.a => urlIn'[b] = urlIn[b]
                             /\ \A w \in VarNames : urlIn'[b][w] # Nobody => urlIn'[b][w] = urlIn[b][w]
        /\ leftover \subseteq leftover' /\ (urlIn'[l.a][l.v] = d => <<l.a, l.v>> \in leftover')
    <3>1. CASE urlIn' = [urlIn EXCEPT ![l.a][l.v] = Nobody] /\ UNCHANGED leftover
      <4>1. d # Nobody
        BY <1>0, <1>1, DbNames DEF DbShape, CallFits
      <4>2. \A b \in DbApps : /\ b # l.a => urlIn'[b] = urlIn[b]
                              /\ \A w \in VarNames : urlIn'[b][w] = IF b = l.a /\ w = l.v THEN Nobody ELSE urlIn[b][w]
        BY <2>2, <3>1 DEF DbShape, DbTypes
      <4>3. QED BY <2>2, <3>1, <4>1, <4>2
    <3>2. CASE UNCHANGED urlIn /\ leftover' = leftover \cup LeftBehind({l}, d)
      BY <3>2 DEF LeftBehind
    <3>3. QED BY <1>6, <3>1, <3>2
  <2>4. UrlsAreLinked'
    <3> SUFFICES ASSUME NEW b \in DbApps, NEW w \in VarNames, urlIn'[b][w] # Nobody, <<b, w>> \notin leftover
                 PROVE  [d |-> urlIn'[b][w], a |-> b, v |-> w] \in links
      BY <1>1, <2>3 DEF UrlsAreLinked
    <3>1. urlIn'[b][w] = urlIn[b][w]
      BY <2>3
    <3>2. QED BY <1>3, <3>1 DEF UrlsAreLinked
  <2>5. LinksHaveRows'
    <3>1. \A r \in DbCallers : ~DbAt(r, {"link"}, "link")' /\ ~DbAt(r, {"unlink"}, "link")'
      BY <1>2, <2>1 DEF DbAt
    <3>2. QED BY <1>1, <3>1 DEF UrlsFit, LinksHaveRows, HasRow
  <2>6. DeletionTakesUrls'
    <3>1. \A r \in DbCallers : DbAt(r, {"deleteDb"}, "apps")' \/ DbAt(r, {"deleteDb"}, "row")' => r = q /\ ~DbAt(r, {"deleteDb"}, "row")'
      BY <1>2, <2>1 DEF DbAt
    <3>2. ASSUME NEW b \in DbApps, NEW w \in VarNames, urlIn'[b][w] = d, <<b, w>> \notin leftover'
          PROVE  [d |-> urlIn'[b][w], a |-> b, v |-> w] \in left \ {l}
      <4>1. d # Nobody
        BY <1>0, <1>1, DbNames DEF DbShape, CallFits
      <4>2. urlIn[b][w] = d /\ ~(b = l.a /\ w = l.v) /\ <<b, w>> \notin leftover
        BY <2>3, <3>2, <4>1
      <4>3. [d |-> d, a |-> b, v |-> w] \in left /\ [d |-> d, a |-> b, v |-> w] # l
        BY <1>4, <3>2, <4>2
      <4>4. QED BY <3>2, <4>3
    <3>3. QED BY <1>1, <2>1, <3>1, <3>2 DEF DeletionTakesUrls
  <2>7. UrlsAreInjected'
    <3> SUFFICES ASSUME "cluster" \notin dbmix.faults, NEW b \in DbApps
                 PROVE  appRow[b].deployed => HasApp(b) /\ Injected(b)'
      BY <1>1 DEF UrlsAreInjected, HasApp
    <3>1. \A c \in DbApps : appRow[c].deployed => HasApp(c)
      BY DEF UrlsFit, UrlsAreInjected
    <3>2. /\ b # l.a => injected'[b] = injected[b]
          /\ appRow[l.a].deployed => \A v \in VarNames : urlIn'[l.a][v] # Nobody => injected'[l.a][v] = urlIn'[l.a][v]
      BY <1>6, <2>2, <3>1, SyncBrings
    <3>3. QED BY <1>3, <2>3, <3>1, <3>2 DEF UrlsFit, UrlsAreInjected, Injected
  <2>8. QED BY <2>4, <2>5, <2>6, <2>7 DEF UrlsFit
<1>7. QED
  <2>1. CASE left = {}
    BY <1>0, <1>5, <2>1 DEF DeleteLinkedVariable
  <2>2. CASE left # {}
    <3>1. PICK l \in left : /\ SyncApp(l.a, urlIn'[l.a]) /\ dbCall' = [dbCall EXCEPT ![q].left = @ \ {l}]
                           /\ \/ urlIn' = [urlIn EXCEPT ![l.a][l.v] = Nobody] /\ UNCHANGED leftover
                              \/ UNCHANGED urlIn /\ leftover' = leftover \cup LeftBehind({l}, d)
      BY <1>0, <2>2 DEF DeleteLinkedVariable
    <3>2. dbCall' = [dbCall EXCEPT ![q].left = left \ {l}]
      BY <1>0, <3>1 DEF DbShape, DbTypes, DbCallType
    <3>3. QED BY <1>6, <3>1, <3>2
  <2>3. QED BY <2>1, <2>2

LEMMA DeleteRowUrls ==
    ASSUME DbShape, DbShape', OneCall, UrlsFit, NEW q \in DbCallers, DeleteDatabaseRow(q)
    PROVE  UrlsFit'
<1>0. PICK d : d = dbCall[q].d
  OBVIOUS
<1>1. /\ UNCHANGED <<appRow, urlIn, injected, leftover, dbmix>> /\ DbEnds(q) /\ DbAt(q, {"deleteDb"}, "row")
      /\ dbCall[q].kind = "deleteDb" /\ dbCall[q].at = "row"
      /\ \/ /\ dbRow' = IF HasRow(d) THEN [dbRow EXCEPT ![d].status = "gone"] ELSE dbRow
            /\ links' = {l \in links : l.d # d}
         \/ UNCHANGED <<dbRow, links>>
  BY <1>0 DEF DeleteDatabaseRow, DbAt
<1>2. \A r \in DbCallers : r # q => dbCall[r].at = "off" /\ dbCall'[r] = dbCall[r]
  BY OnlyOne DEF Handle
<1>3. \A r \in DbCallers : dbCall'[r].at = "off"
  BY <1>1, <1>2, EndsAside
<1>4. UrlsAreLinked /\ (\A b, w, e : ~Linking(b, w, e)) /\ (\A b : ~ToBeSynced(b))
  BY <1>1, <1>2 DEF UrlsFit, Linking, DbAt, ToBeSynced
<1>5. \A b \in DbApps, w \in VarNames : <<b, w>> \notin leftover => urlIn[b][w] # d
  BY <1>0, <1>1 DEF UrlsFit, DeletionTakesUrls
<1>6. UrlsAreLinked'
  <2> SUFFICES ASSUME NEW b \in DbApps, NEW w \in VarNames, urlIn[b][w] # Nobody, <<b, w>> \notin leftover
               PROVE  [d |-> urlIn[b][w], a |-> b, v |-> w] \in links'
    BY <1>1 DEF UrlsAreLinked
  <2>1. [d |-> urlIn[b][w], a |-> b, v |-> w] \in links
    BY <1>4 DEF UrlsAreLinked
  <2>2. QED BY <1>1, <1>5, <2>1
<1>7. \A l \in links' : HasRow(l.d)'
  BY <1>1 DEF UrlsFit, LinksHaveRows, HasRow, DbShape, DbTypes, Links
<1>8. UrlsAreInjected'
  BY <1>1, <1>4 DEF UrlsFit, UrlsAreInjected, HasApp, Injected
<1>9. QED BY <1>3, <1>6, <1>7, <1>8, FitWhenOff

LEMMA UrlsKeep == DbInv /\ DbShape' /\ [DbNext]_dbVars => UrlInv'
<1> SUFFICES ASSUME DbInv, DbShape', [DbNext]_dbVars, Whole' PROVE UrlsFit'
  BY DEF UrlInv
<1>1. dbmix' = dbmix /\ DbShape
  BY MixStays DEF DbInv
<1>2. Whole /\ OneCall /\ UrlsFit
  BY <1>1 DEF DbInv, UrlInv, Whole
<1>3. CASE UNCHANGED dbVars
  BY <1>1, <1>2, <1>3, UrlsStay DEF dbVars, HasRow, HasApp
<1>4. ASSUME NEW q \in DbCallers, Handle(q) PROVE UrlsFit'
  BY <1>1, <1>2, <1>4, QuietUrls, DeployUrls, DeleteAppUrls, LinkVariableUrls, LinkDatabaseUrls, UnlinkVariableUrls, UnlinkDatabaseUrls,
     SyncUrls, DeleteObjectsUrls, DeleteLinkedUrls, DeleteRowUrls DEF Handle
<1>5. ~Restart /\ \A q \in DbCallers : ~RequestCut(q)
  BY <1>2 DEF Whole, Restart, RequestCut
<1>6. QED BY <1>1, <1>2, <1>3, <1>4, <1>5, BeginUrls, ProvisionUrls DEF DbNext

LEMMA UrlsStart == DbInit => UrlInv
<1> SUFFICES ASSUME DbInit PROVE UrlsFit
  BY DEF UrlInv
<1>1. /\ \A a \in DbApps : ~appRow[a].deployed /\ injected[a] = NoUrls
      /\ \A a \in DbApps, v \in VarNames : urlIn[a][v] = Nobody
      /\ \A q \in DbCallers : dbCall[q].at = "off"
      /\ links = {}
  BY NoCallIs DEF DbInit, NoAppRow, NoUrls
<1>2. UrlsAreLinked /\ LinksHaveRows /\ DeletionTakesUrls /\ UrlsAreInjected
  BY <1>1 DEF UrlsAreLinked, LinksHaveRows, DeletionTakesUrls, UrlsAreInjected, DbAt
<1>3. QED BY <1>2 DEF UrlsFit

LEMMA UrlsAreSomething == DbInv => NoUrlToNothing
<1> SUFFICES ASSUME DbInv, DbQuiet, Whole, NEW a \in DbApps, NEW v \in VarNames, urlIn[a][v] # Nobody, <<a, v>> \notin leftover
             PROVE  /\ HasRow(urlIn[a][v])
                    /\ "cluster" \notin dbmix.faults /\ appRow[a].deployed => injected[a][v] = urlIn[a][v]
  BY DEF NoUrlToNothing, Whole
<1>1. UrlsAreLinked /\ LinksHaveRows /\ UrlsAreInjected
  BY DEF DbInv, UrlInv, UrlsFit
<1>2. (\A b, w, d : ~Linking(b, w, d)) /\ (\A b : ~ToBeSynced(b))
  BY DEF DbQuiet, Linking, DbAt, ToBeSynced
<1>3. HasRow(urlIn[a][v])
  <2> DEFINE l == [d |-> urlIn[a][v], a |-> a, v |-> v]
  <2>1. l \in links /\ l.d = urlIn[a][v]
    BY <1>1, <1>2 DEF UrlsAreLinked
  <2>2. QED BY <1>1, <2>1 DEF LinksHaveRows
<1>4. "cluster" \notin dbmix.faults /\ appRow[a].deployed => injected[a][v] = urlIn[a][v]
  BY <1>1, <1>2 DEF UrlsAreInjected, Injected
<1>5. QED BY <1>3, <1>4

LEMMA DbInvKeeps == DbSpec => []DbInv
<1>1. DbInit => DbInv
  <2>1. DbInit => (~dbmix.overlap => OneCall)
    BY NoCallIs DEF DbInit, OneCall
  <2>2. QED BY <2>1, ShapeStarts, NamesStart, UrlsStart DEF DbInv
<1>2. DbInv /\ [DbNext]_dbVars => DbInv'
  <2> SUFFICES ASSUME DbInv, [DbNext]_dbVars PROVE DbInv'
    OBVIOUS
  <2>1. DbShape'
    BY ShapeKeeps DEF DbInv
  <2>2. (~dbmix.overlap => OneCall)'
    BY OneCallStays DEF DbInv
  <2>3. QED BY <2>1, <2>2, NamesKeep, UrlsKeep DEF DbInv
<1>3. QED BY <1>1, <1>2, PTL DEF DbSpec

(* NameMeansOneThing, for every set of apps, databases, names and callers  *)
(* and every engine: whoever asks for a name first has it, and no          *)
(* provisioning, deployment, deletion or restart gives its Service to      *)
(* another (SlugOwnerInEnvironment, provision, Delete).                    *)
THEOREM NamesMeanOneThing == DbSpec => []NameMeansOneThing
BY DbInvKeeps, NamesAreOne, PTL

(* NoUrlToNothing, likewise: behind every variable that Link, Unlink and   *)
(* Delete leave in an app there is a database, and the deployed app runs   *)
(* with it, unless nobody cleared the variable: its link got another name, *)
(* or the statement was refused.                                           *)
THEOREM UrlsMeanSomething == DbSpec => []NoUrlToNothing
BY DbInvKeeps, UrlsAreSomething, PTL

-----------------------------------------------------------------------------
(***************************************************************************)
(* The previews of pull requests.                                          *)
(***************************************************************************)
Repos == {p.repo : p \in Pulls}
Numbers == {p.number : p \in Pulls}
Refs == {<<"pr", n>> : n \in Numbers}
PSlugs == ProjectSlugs \cup {Nowhere}
ESlugs == EnvSlugs \cup Refs \cup {<<"branch", "">>, <<"production">>, Nowhere}
Actions == {"opened", "open", "synchronize", "update", "push", "labeled", "closed", "merge", "branchDeleted"}
Levels == {"restricted", "baseline", "none"}
\* The pull request that r, an app or what a delivery says, is of.
Pulled(r) == {p \in Pulls : p.repo = r.repo /\ p.number = r.number}

\* No secret where the pull request is of a fork, in a preview and in what is to become one.
PreviewAppType == {x \in [repo : Repos, vars : SUBSET {"plain", "secret"}, number : Numbers] :
                      "secret" \in x.vars => \E p \in Pulled(x) : p.head = p.repo}
EventType == {ev \in [kind : {"push", "opened", "closed", "deleted", "unsupported"}, repo : Repos, number : Numbers, fork : BOOLEAN] :
                 ~ev.fork => \E p \in Pulled(ev) : p.head = p.repo}
MailType == {m \in [host : {"github", "gitlab", "gitea"}, action : Actions, repo : Repos, number : Numbers,
                    head : {p.head : p \in Pulls}, base : Repos, signed : BOOLEAN] :
                m.base = m.repo /\ \E p \in Pulled(m) : m.head = p.head}
EnvType == [on : BOOLEAN, born : BOOLEAN, project : PSlugs, slug : ESlugs, kind : {"standard", "preview"},
            level : Levels, fresh : BOOLEAN, deployed : BOOLEAN, apps : SUBSET PreviewAppType]
LeftType == [e : EnvIds, n : {NamespaceFor(p, s) : p \in PSlugs, s \in ESlugs}]
EnvCallType == [kind : EnvKinds \cup {"preview", "cleanup", "none"},
                at : {"off", "project", "row", "list", "level", "namespace", "namespaces", "post", "pushed", "app", "deploy"},
                e : EnvIds \cup {"none"}, project : PSlugs, slug : ESlugs, level : Levels,
                event : SUBSET EventType, left : SUBSET LeftType]
EnvMixType == [kinds : SUBSET EnvKinds, faults : SUBSET EnvFaults, refusals : Nat,
               overlap : BOOLEAN, asks : Nat, events : Nat, host : {"github", "gitlab", "gitea"},
               shared : SUBSET {"sharedPlain", "sharedSecret"}]

CallHasEvent(c) == c.kind = "preview" /\ c.at # "off" => c.event # {}
EnvShape ==
    /\ projects \subseteq PSlugs
    /\ envs \in [EnvIds -> EnvType]
    /\ pull \in [Pulls -> {"new", "open", "closed"}]
    /\ mail \in Seq(MailType)
    /\ envCall \in [EnvCallers -> EnvCallType]
    /\ \A q \in EnvCallers : CallHasEvent(envCall[q])
    /\ emix \in EnvMixType

\* As long as the host is all that acts, and nothing went wrong with its deliveries.
Calm == ~emix.overlap /\ emix.kinds = {} /\ emix.faults \subseteq {"repeat"}
Home == CHOOSE e \in EnvIds : TRUE
Ref(p) == <<"pr", p.number>>
PreviewsOf(p) == FindPreview(envs[Home].project, Ref(p))

HomeStands ==
    /\ envs[Home].on /\ envs[Home].kind = "standard" /\ envs[Home].slug = <<"production">>
    /\ envs[Home].project \in projects /\ hooks = 1 /\ pass.at = "off"
RowsAreOurs ==
    /\ \A e \in EnvIds : envs[e].fresh /\ (envs[e].on => envs[e].born)
    /\ \A e \in Rows \ {Home} : envs[e].kind = "preview" /\ envs[e].project = envs[Home].project /\ envs[e].slug \in Refs
    /\ \A d, e \in Rows \ {Home} : envs[d].slug = envs[e].slug => d = e
OneEnvCall == \A q, r \in EnvCallers : envCall[q].at # "off" /\ envCall[r].at # "off" => q = r
EnvCallFits(c) ==
    c.at # "off" =>
        /\ c.kind \in {"preview", "cleanup"} /\ c.project = envs[Home].project
        /\ c.kind = "preview" /\ c.at = "row" => c.slug \in Refs /\ FindPreview(c.project, c.slug) = {}
        /\ c.kind = "cleanup" => /\ c.at = "namespaces" /\ c.e \in FindPreview(c.project, c.slug)
                                 /\ \A x \in c.left : x.e \in FindPreview(c.project, c.slug)

\* A preview is there, or about to be made, and not about to be removed.
Making(p) == \E q \in EnvCallers : EnvAt(q, {"preview"}, "row") /\ envCall[q].slug = Ref(p)
Removing(p) == \E q \in EnvCallers : EnvAt(q, {"cleanup"}, "namespaces") /\ envCall[q].slug = Ref(p)
Settled(p) == Making(p) \/ (PreviewsOf(p) # {} /\ ~Removing(p))

\* The last delivery under way that is about a pull request says how it is; when there is none,
\* the preview does.
Tells(m, p) == m.number = p.number /\ EventKind(m) \in {"opened", "closed"}
LastTells ==
    \A p \in Pulls : \A i \in 1..Len(mail) :
        Tells(mail[i], p) /\ (\A j \in (i + 1)..Len(mail) : ~Tells(mail[j], p)) => (pull[p] = "open" <=> EventKind(mail[i]) = "opened")
NoneTells == \A p \in Pulls : (\A i \in 1..Len(mail) : ~Tells(mail[i], p)) => (pull[p] = "open" <=> Settled(p))
MailIsWhole == \A i \in 1..Len(mail) : mail[i].signed

CalmFit == /\ HomeStands /\ RowsAreOurs /\ OneEnvCall /\ (\A q \in EnvCallers : EnvCallFits(envCall[q]))
           /\ LastTells /\ NoneTells /\ MailIsWhole
EnvInv == EnvShape /\ (Calm => CalmFit)

LEMMA NoEnvIsTyped == NoEnv \in EnvType /\ NoEnvCall \in EnvCallType /\ CallHasEvent(NoEnvCall)
BY DEF NoEnv, NoEnvCall, EnvType, EnvCallType, CallHasEvent, Nowhere, PSlugs, ESlugs, Levels

\* One call in the table is replaced.
LEMMA CallsSet ==
    ASSUME NEW F \in [EnvCallers -> EnvCallType], NEW q \in EnvCallers, NEW c \in EnvCallType,
           \A r \in EnvCallers : CallHasEvent(F[r]), CallHasEvent(c)
    PROVE  /\ [F EXCEPT ![q] = c] \in [EnvCallers -> EnvCallType]
           /\ \A r \in EnvCallers : CallHasEvent([F EXCEPT ![q] = c][r])
<1>1. [F EXCEPT ![q] = c] \in [EnvCallers -> EnvCallType]  OBVIOUS
<1>2. ASSUME NEW r \in EnvCallers  PROVE CallHasEvent([F EXCEPT ![q] = c][r])
  <2>1. CASE r = q  BY <2>1
  <2>2. CASE r # q  BY <2>2
  <2>3. QED  BY <2>1, <2>2
<1>3. QED  BY <1>1, <1>2

LEMMA CallTableFits ==
    ASSUME EnvShape, NEW q \in EnvCallers, NEW c \in EnvCallType, CallHasEvent(c),
           envCall' = [envCall EXCEPT ![q] = c]
    PROVE  envCall' \in [EnvCallers -> EnvCallType] /\ \A r \in EnvCallers : CallHasEvent(envCall'[r])
<1>1. envCall \in [EnvCallers -> EnvCallType] /\ \A r \in EnvCallers : CallHasEvent(envCall[r])  BY DEF EnvShape
<1>2. QED  BY <1>1, CallsSet

\* A request comes to its end, or goes on to its next step.
LEMMA EndsFits ==
    ASSUME EnvShape, NEW q \in EnvCallers, EnvEnds(q)
    PROVE  envCall' \in [EnvCallers -> EnvCallType] /\ \A r \in EnvCallers : CallHasEvent(envCall'[r])
BY NoEnvIsTyped, CallTableFits DEF EnvEnds

LEMMA GoFits ==
    ASSUME EnvShape, NEW q \in EnvCallers, EnvGo(q, "deploy") \/ EnvGo(q, "row") \/ EnvGo(q, "namespace")
               \/ EnvGo(q, "app") \/ EnvGo(q, "post"), envCall[q].at # "off"
    PROVE  envCall' \in [EnvCallers -> EnvCallType] /\ \A r \in EnvCallers : CallHasEvent(envCall'[r])
<1>1. PICK w \in {"deploy", "row", "namespace", "app", "post"} : envCall' = [envCall EXCEPT ![q].at = w]
  BY DEF EnvGo
<1>2. envCall[q] \in EnvCallType /\ CallHasEvent(envCall[q])  BY DEF EnvShape
<1>3. PICK c : c = [envCall[q] EXCEPT !.at = w]  OBVIOUS
<1>4. c \in EnvCallType /\ CallHasEvent(c)  BY <1>2, <1>3 DEF EnvCallType, CallHasEvent
<1>5. envCall' = [envCall EXCEPT ![q] = c]  BY <1>1, <1>3
<1>6. QED  BY <1>4, <1>5, CallTableFits

\* A row is made, and rows go.
LEMMA RowFits ==
    ASSUME EnvShape, NEW e, NEW p \in PSlugs, NEW s \in ESlugs, NEW k \in {"standard", "preview"},
           CreateEnvironment(e, p, s, k)
    PROVE  envs' \in [EnvIds -> EnvType]
<1>1. PICK r : r = [NoEnv EXCEPT !.on = TRUE, !.born = TRUE, !.project = p, !.slug = s, !.kind = k]  OBVIOUS
<1>2. r \in EnvType  BY <1>1 DEF NoEnv, EnvType, Levels
<1>3. envs' = [envs EXCEPT ![e] = r]  BY <1>1 DEF CreateEnvironment
<1>4. QED  BY <1>2, <1>3 DEF EnvShape

LEMMA GoneFits ==
    ASSUME EnvShape, NEW S, DeleteEnvironment(S)
    PROVE  envs' \in [EnvIds -> EnvType]
<1>1. PICK r : r = [NoEnv EXCEPT !.born = TRUE]  OBVIOUS
<1>2. r \in EnvType  BY <1>1, NoEnvIsTyped DEF EnvType
<1>3. envs' = [e \in EnvIds |-> IF e \in S THEN r ELSE envs[e]]  BY <1>1 DEF DeleteEnvironment
<1>4. QED  BY <1>2, <1>3 DEF EnvShape

LEMMA ReadFits ==
    ASSUME EnvShape, NEW S \in SUBSET EnvIds
    PROVE  Read(S) \in SUBSET LeftType
<1>1. \A e \in S : envs[e].project \in PSlugs /\ envs[e].slug \in ESlugs  BY DEF EnvShape, EnvType
<1>2. QED  BY <1>1 DEF Read, LeftType, NamespaceOf

LEMMA RefusalFits == ASSUME EnvShape, NEW no, Refused(no) \/ Answered(no)
                     PROVE  /\ emix' \in EnvMixType /\ emix'.faults = emix.faults /\ emix'.kinds = emix.kinds
                            /\ emix'.overlap = emix.overlap
<1>1. CASE Answered(no)  BY <1>1 DEF EnvShape, Answered
<1>2. CASE Refused(no)
  <2>1. emix \in EnvMixType  BY DEF EnvShape
  <2>2. emix' = [emix EXCEPT !.refusals = @ - 1] /\ emix.refusals > 0  BY <1>2 DEF Refused
  <2>3. QED  BY <2>1, <2>2 DEF EnvMixType
<1>3. QED  BY <1>1, <1>2

LEMMA PullsAreTyped ==
    \A p \in Pulls : p.repo \in Repos /\ p.number \in Numbers /\ <<"pr", p.number>> \in ESlugs
BY DEF Repos, Numbers, Refs, ESlugs

\* The types, action by action.
LEMMA RequestsFit ==
    ASSUME EnvShape, NEW c \in EnvRequests
    PROVE  c \in EnvCallType /\ CallHasEvent(c)
<1>0. projects \subseteq PSlugs /\ EnvSlugs \subseteq ESlugs /\ <<"production">> \in ESlugs /\ Nowhere \in PSlugs
      /\ Nowhere \in ESlugs /\ ProjectSlugs \subseteq PSlugs
  BY DEF EnvShape, PSlugs, ESlugs
<1>1. ASSUME NEW k \in EnvKinds, NEW w \in {"project", "row", "list"}, NEW p \in PSlugs, NEW s \in ESlugs,
             c = [kind |-> k, at |-> w, e |-> "none", project |-> p, slug |-> s, level |-> "none", event |-> {}, left |-> {}]
      PROVE  c \in EnvCallType /\ CallHasEvent(c)
  BY <1>1 DEF EnvCallType, CallHasEvent, EnvKinds, Levels
<1>2. CASE c \in HandleCreateProject
  <2>1. PICK p \in ProjectSlugs : c = [NoEnvCall EXCEPT !.kind = "createProject", !.at = "project", !.project = p, !.slug = <<"production">>]
    BY <1>2 DEF HandleCreateProject
  <2>2. c = [kind |-> "createProject", at |-> "project", e |-> "none", project |-> p, slug |-> <<"production">>,
             level |-> "none", event |-> {}, left |-> {}]
    BY <2>1 DEF NoEnvCall
  <2>3. QED  BY <2>2, <1>0, <1>1 DEF EnvKinds
<1>3. CASE c \in HandleCreateEnvironment
  <2> DEFINE C(p, s) == [NoEnvCall EXCEPT !.kind = "createEnv", !.at = "row", !.project = p, !.slug = s]
  <2>1. HandleCreateEnvironment = {C(p, s) : p \in projects, s \in EnvSlugs}  BY DEF HandleCreateEnvironment
  <2> HIDE DEF C
  <2>2. \E p \in projects, s \in EnvSlugs : c = C(p, s)  BY <1>3, <2>1
  <2>3. PICK p \in projects, s \in EnvSlugs : c = [NoEnvCall EXCEPT !.kind = "createEnv", !.at = "row", !.project = p, !.slug = s]
    BY <2>2 DEF C
  <2>4. c = [kind |-> "createEnv", at |-> "row", e |-> "none", project |-> p, slug |-> s,
             level |-> "none", event |-> {}, left |-> {}]
    BY <2>3 DEF NoEnvCall
  <2>5. QED  BY <2>4, <1>0, <1>1 DEF EnvKinds
<1>4. CASE c \in HandleDeleteProject
  <2>1. PICK p \in projects : c = [NoEnvCall EXCEPT !.kind = "deleteProject", !.at = "list", !.project = p]
    BY <1>4 DEF HandleDeleteProject
  <2>2. c = [kind |-> "deleteProject", at |-> "list", e |-> "none", project |-> p, slug |-> Nowhere,
             level |-> "none", event |-> {}, left |-> {}]
    BY <2>1 DEF NoEnvCall
  <2>3. QED  BY <2>2, <1>0, <1>1 DEF EnvKinds
<1>5. CASE c \in HandleUpdateEnvironment
  <2> DEFINE C(e, l) == [NoEnvCall EXCEPT !.kind = "updateEnv", !.at = "level", !.e = e, !.project = envs[e].project,
                                         !.slug = envs[e].slug, !.level = l]
  <2>1. HandleUpdateEnvironment = {C(e, l) : e \in Rows, l \in {"restricted", "baseline"}}  BY DEF HandleUpdateEnvironment
  <2> HIDE DEF C
  <2>2. \E e \in Rows, l \in {"restricted", "baseline"} : c = C(e, l)  BY <1>5, <2>1
  <2>3. PICK e \in Rows, l \in {"restricted", "baseline"} :
            c = [NoEnvCall EXCEPT !.kind = "updateEnv", !.at = "level", !.e = e, !.project = envs[e].project,
                                  !.slug = envs[e].slug, !.level = l]
    BY <2>2 DEF C
  <2>4. e \in EnvIds /\ envs[e].project \in PSlugs /\ envs[e].slug \in ESlugs  BY DEF Rows, EnvShape, EnvType
  <2>5. c = [kind |-> "updateEnv", at |-> "level", e |-> e, project |-> envs[e].project, slug |-> envs[e].slug,
             level |-> l, event |-> {}, left |-> {}]
    BY <2>3 DEF NoEnvCall
  <2>6. QED  BY <2>4, <2>5 DEF EnvCallType, CallHasEvent, EnvKinds, Levels
<1>6. CASE c \in HandleDeleteEnvironment
  <2>1. PICK e \in Rows : c = [NoEnvCall EXCEPT !.kind = "deleteEnv", !.at = "namespaces", !.left = {[e |-> e, n |-> NamespaceOf(e)]}]
    BY <1>6 DEF HandleDeleteEnvironment
  <2>2. {[e |-> e, n |-> NamespaceOf(e)]} = Read({e}) /\ {e} \in SUBSET EnvIds  BY DEF Read, Rows
  <2>3. Read({e}) \in SUBSET LeftType  BY <2>2, ReadFits
  <2>4. c = [kind |-> "deleteEnv", at |-> "namespaces", e |-> "none", project |-> Nowhere, slug |-> Nowhere,
             level |-> "none", event |-> {}, left |-> Read({e})]
    BY <2>1, <2>2 DEF NoEnvCall
  <2>5. QED  BY <2>3, <2>4, <1>0 DEF EnvCallType, CallHasEvent, EnvKinds, Levels
<1>7. CASE c \in EnsureWebhookFor
  <2>1. c = [kind |-> "hook", at |-> "list", e |-> "none", project |-> Nowhere, slug |-> Nowhere,
             level |-> "none", event |-> {}, left |-> {}]
    BY <1>7 DEF EnsureWebhookFor, NoEnvCall
  <2>2. QED  BY <2>1, <1>0, <1>1 DEF EnvKinds
<1>8. QED  BY <1>2, <1>3, <1>4, <1>5, <1>6, <1>7 DEF EnvRequests

LEMMA BeginShape == ASSUME EnvShape, NEW q \in EnvCallers, NEW c \in EnvRequests, EnvBegin(q, c)  PROVE EnvShape'
<1>1. envCall' = [envCall EXCEPT ![q] = c] /\ UNCHANGED <<projects, envs, pull, mail, emix>>  BY DEF EnvBegin
<1>2. c \in EnvCallType /\ CallHasEvent(c)  BY RequestsFit
<1>3. envCall' \in [EnvCallers -> EnvCallType] /\ \A r \in EnvCallers : CallHasEvent(envCall'[r])  BY <1>1, <1>2, CallTableFits
<1>4. QED  BY <1>1, <1>3 DEF EnvShape

LEMMA CreateProjectShape == ASSUME EnvShape, NEW q \in EnvCallers, CreateProject(q)  PROVE EnvShape'
<1>0. envCall[q] \in EnvCallType /\ envCall[q].at = "project" /\ UNCHANGED <<envs, pull, mail, emix>>
      /\ projects' = projects \cup {envCall[q].project} /\ (EnvEnds(q) \/ EnvGo(q, "row"))
  BY DEF EnvShape, CreateProject, EnvAt
<1>1. envCall' \in [EnvCallers -> EnvCallType] /\ \A r \in EnvCallers : CallHasEvent(envCall'[r])
  BY <1>0, EndsFits, GoFits
<1>2. QED  BY <1>0, <1>1 DEF EnvShape, EnvCallType

LEMMA EnvironmentRowShape == ASSUME EnvShape, NEW q \in EnvCallers, CreateEnvironmentRow(q)  PROVE EnvShape'
<1>0. envCall[q] \in EnvCallType /\ envCall[q].at = "row" /\ envCall[q].kind \in {"createProject", "createEnv"}
      /\ UNCHANGED <<projects, pull, mail, emix>>
  BY DEF EnvShape, CreateEnvironmentRow, EnvAt
<1>1. CASE SlugIsFree(envCall[q].project, envCall[q].slug) /\ envCall[q].project \in projects
  <2>1. PICK e \in Unborn : /\ CreateEnvironment(e, envCall[q].project, envCall[q].slug, "standard")
                            /\ envCall' = [envCall EXCEPT ![q].at = "namespace", ![q].e = e, ![q].level = "restricted"]
    BY <1>1 DEF CreateEnvironmentRow
  <2>2. e \in EnvIds  BY DEF Unborn
  <2>3. PICK c : c = [envCall[q] EXCEPT !.at = "namespace", !.e = e, !.level = "restricted"]  OBVIOUS
  <2>4. c \in EnvCallType /\ CallHasEvent(c)  BY <1>0, <2>2, <2>3 DEF EnvCallType, CallHasEvent, Levels
  <2>5. envCall' = [envCall EXCEPT ![q] = c]  BY <2>1, <2>3
  <2>6. envCall' \in [EnvCallers -> EnvCallType] /\ \A r \in EnvCallers : CallHasEvent(envCall'[r])  BY <2>4, <2>5, CallTableFits
  <2>7. envCall[q].project \in PSlugs /\ envCall[q].slug \in ESlugs  BY <1>0 DEF EnvCallType
  <2>8. envs' \in [EnvIds -> EnvType]  BY <2>1, <2>7, RowFits
  <2>9. QED  BY <1>0, <2>6, <2>8 DEF EnvShape
<1>2. CASE ~(SlugIsFree(envCall[q].project, envCall[q].slug) /\ envCall[q].project \in projects)
  <2>1. EnvEnds(q) /\ UNCHANGED envs  BY <1>2 DEF CreateEnvironmentRow
  <2>2. envCall' \in [EnvCallers -> EnvCallType] /\ \A r \in EnvCallers : CallHasEvent(envCall'[r])  BY <2>1, EndsFits
  <2>3. QED  BY <1>0, <2>1, <2>2 DEF EnvShape
<1>3. QED  BY <1>1, <1>2

LEMMA UpdateLevelShape == ASSUME EnvShape, NEW q \in EnvCallers, UpdateLevel(q)  PROVE EnvShape'
<1>0. envCall[q] \in EnvCallType /\ envCall[q].at = "level" /\ UNCHANGED <<projects, pull, mail, emix>>
      /\ SetEnvironmentPodSecurity(envCall[q].e, envCall[q].level) /\ (EnvEnds(q) \/ EnvGo(q, "namespace"))
  BY DEF EnvShape, UpdateLevel, EnvAt
<1>1. envCall' \in [EnvCallers -> EnvCallType] /\ \A r \in EnvCallers : CallHasEvent(envCall'[r])
  BY <1>0, EndsFits, GoFits
<1>2. envCall[q].level \in Levels  BY <1>0 DEF EnvCallType
<1>3. envs' \in [EnvIds -> EnvType]
  <2>1. PICK r : r = [envs[envCall[q].e] EXCEPT !.level = envCall[q].level]  OBVIOUS
  <2>2. envs' = envs \/ envs' = [envs EXCEPT ![envCall[q].e] = r]  BY <1>0, <2>1 DEF SetEnvironmentPodSecurity
  <2>3. envCall[q].e \in EnvIds => r \in EnvType  BY <1>2, <2>1 DEF EnvShape, EnvType
  <2>4. QED  BY <2>2, <2>3 DEF EnvShape
<1>4. QED  BY <1>0, <1>1, <1>3 DEF EnvShape

LEMMA ApplyNamespaceShape == ASSUME EnvShape, NEW q \in EnvCallers, NEW no, ApplyNamespace(q, no)  PROVE EnvShape'
<1>1. EnvEnds(q) /\ UNCHANGED <<projects, envs, pull, mail>> /\ (Refused(no) \/ Answered(no))  BY DEF ApplyNamespace
<1>2. envCall' \in [EnvCallers -> EnvCallType] /\ \A r \in EnvCallers : CallHasEvent(envCall'[r])  BY <1>1, EndsFits
<1>3. emix' \in EnvMixType  BY <1>1, RefusalFits
<1>4. QED  BY <1>1, <1>2, <1>3 DEF EnvShape

LEMMA ListEnvironmentsShape == ASSUME EnvShape, NEW q \in EnvCallers, ListEnvironments(q)  PROVE EnvShape'
<1>1. PICK es : es = {e \in Rows : envs[e].project = envCall[q].project}  OBVIOUS
<1>2. envCall' = [envCall EXCEPT ![q].at = "namespaces", ![q].left = Read(es)] /\ UNCHANGED <<projects, envs, pull, mail, emix>>
      /\ envCall[q].kind = "deleteProject"
  BY <1>1 DEF ListEnvironments, EnvAt
<1>3. es \in SUBSET EnvIds  BY <1>1 DEF Rows
<1>4. Read(es) \in SUBSET LeftType  BY <1>3, ReadFits
<1>5. PICK c : c = [envCall[q] EXCEPT !.at = "namespaces", !.left = Read(es)]  OBVIOUS
<1>6. envCall[q] \in EnvCallType  BY DEF EnvShape
<1>7. c \in EnvCallType /\ CallHasEvent(c)  BY <1>2, <1>4, <1>5, <1>6 DEF EnvCallType, CallHasEvent
<1>8. envCall' = [envCall EXCEPT ![q] = c]  BY <1>2, <1>5
<1>9. envCall' \in [EnvCallers -> EnvCallType] /\ \A r \in EnvCallers : CallHasEvent(envCall'[r])  BY <1>7, <1>8, CallTableFits
<1>10. QED  BY <1>2, <1>9 DEF EnvShape

LEMMA DeleteNamespaceShape == ASSUME EnvShape, NEW q \in EnvCallers, NEW no, DeleteNamespaceOf(q, no)  PROVE EnvShape'
<1>1. PICK x \in envCall[q].left : envCall' = [envCall EXCEPT ![q].left = @ \ {x}, ![q].e = x.e]
  BY DEF DeleteNamespaceOf
<1>2. envCall[q].kind \in {"deleteProject", "deleteEnv", "cleanup"} /\ UNCHANGED <<projects, envs, pull, mail>>
      /\ (Refused(no) \/ Answered(no))
  BY DEF DeleteNamespaceOf, EnvAt
<1>3. envCall[q] \in EnvCallType  BY DEF EnvShape
<1>4. x.e \in EnvIds /\ envCall[q].left \ {x} \in SUBSET LeftType  BY <1>1, <1>3 DEF EnvCallType, LeftType
<1>5. PICK c : c = [envCall[q] EXCEPT !.left = envCall[q].left \ {x}, !.e = x.e]  OBVIOUS
<1>6. c \in EnvCallType /\ CallHasEvent(c)  BY <1>2, <1>3, <1>4, <1>5 DEF EnvCallType, CallHasEvent
<1>7. envCall' = [envCall EXCEPT ![q] = c]  BY <1>1, <1>5
<1>8. envCall' \in [EnvCallers -> EnvCallType] /\ \A r \in EnvCallers : CallHasEvent(envCall'[r])  BY <1>6, <1>7, CallTableFits
<1>9. emix' \in EnvMixType  BY <1>2, RefusalFits
<1>10. QED  BY <1>2, <1>8, <1>9 DEF EnvShape

LEMMA DeleteRowsShape == ASSUME EnvShape, NEW q \in EnvCallers, DeleteRows(q)  PROVE EnvShape'
<1>1. EnvEnds(q) /\ UNCHANGED <<pull, mail, emix>> /\ projects' \subseteq projects  BY DEF DeleteRows
<1>2. \E S : DeleteEnvironment(S)  BY DEF DeleteRows
<1>3. envs' \in [EnvIds -> EnvType]  BY <1>2, GoneFits
<1>4. envCall' \in [EnvCallers -> EnvCallType] /\ \A r \in EnvCallers : CallHasEvent(envCall'[r])  BY <1>1, EndsFits
<1>5. QED  BY <1>1, <1>3, <1>4 DEF EnvShape

LEMMA HookShape == ASSUME EnvShape, NEW q \in EnvCallers, EnsureWebhook(q) \/ PostHook(q)  PROVE EnvShape'
<1>1. (EnvEnds(q) \/ EnvGo(q, "post")) /\ envCall[q].at \in {"list", "post"} /\ UNCHANGED <<projects, envs, pull, mail, emix>>
  BY DEF EnsureWebhook, PostHook, EnvAt
<1>2. envCall' \in [EnvCallers -> EnvCallType] /\ \A r \in EnvCallers : CallHasEvent(envCall'[r])  BY <1>1, EndsFits, GoFits
<1>3. QED  BY <1>1, <1>2 DEF EnvShape

LEMMA PreviewRowShape == ASSUME EnvShape, NEW q \in EnvCallers, PreviewRow(q)  PROVE EnvShape'
<1>0. envCall[q] \in EnvCallType /\ envCall[q].at = "row" /\ envCall[q].kind = "preview" /\ CallHasEvent(envCall[q])
      /\ UNCHANGED <<projects, pull, mail, emix>>
  BY DEF EnvShape, PreviewRow, EnvAt
<1>1. CASE SlugIsFree(envCall[q].project, envCall[q].slug) /\ envCall[q].project \in projects
  <2>1. PICK e \in Unborn : /\ CreateEnvironment(e, envCall[q].project, envCall[q].slug, "preview")
                            /\ envCall' = [envCall EXCEPT ![q].at = "namespace", ![q].e = e]
    BY <1>1 DEF PreviewRow
  <2>2. e \in EnvIds  BY DEF Unborn
  <2>3. PICK c : c = [envCall[q] EXCEPT !.at = "namespace", !.e = e]  OBVIOUS
  <2>4. c \in EnvCallType /\ CallHasEvent(c)  BY <1>0, <2>2, <2>3 DEF EnvCallType, CallHasEvent
  <2>5. envCall' = [envCall EXCEPT ![q] = c]  BY <2>1, <2>3
  <2>6. envCall' \in [EnvCallers -> EnvCallType] /\ \A r \in EnvCallers : CallHasEvent(envCall'[r])  BY <2>4, <2>5, CallTableFits
  <2>7. envCall[q].project \in PSlugs /\ envCall[q].slug \in ESlugs  BY <1>0 DEF EnvCallType
  <2>8. envs' \in [EnvIds -> EnvType]  BY <2>1, <2>7, RowFits
  <2>9. QED  BY <1>0, <2>6, <2>8 DEF EnvShape
<1>2. CASE ~(SlugIsFree(envCall[q].project, envCall[q].slug) /\ envCall[q].project \in projects)
  <2>1. EnvEnds(q) /\ UNCHANGED envs  BY <1>2 DEF PreviewRow
  <2>2. envCall' \in [EnvCallers -> EnvCallType] /\ \A r \in EnvCallers : CallHasEvent(envCall'[r])  BY <2>1, EndsFits
  <2>3. QED  BY <1>0, <2>1, <2>2 DEF EnvShape
<1>3. QED  BY <1>1, <1>2

LEMMA PreviewNamespaceShape == ASSUME EnvShape, NEW q \in EnvCallers, NEW no, PreviewNamespace(q, no)  PROVE EnvShape'
<1>1. (EnvEnds(q) \/ EnvGo(q, "app")) /\ UNCHANGED <<projects, envs, pull, mail>> /\ (Refused(no) \/ Answered(no))
      /\ envCall[q].at = "namespace"
  BY DEF PreviewNamespace, EnvAt
<1>2. envCall' \in [EnvCallers -> EnvCallType] /\ \A r \in EnvCallers : CallHasEvent(envCall'[r])  BY <1>1, EndsFits, GoFits
<1>3. emix' \in EnvMixType  BY <1>1, RefusalFits
<1>4. QED  BY <1>1, <1>2, <1>3 DEF EnvShape

\* A copy for a fork has no secret.
LEMMA CopyFits ==
    ASSUME NEW ev \in EventType
    PROVE  [repo |-> ev.repo, vars |-> Copied(ev.fork), number |-> ev.number] \in PreviewAppType
<1>1. PICK x : x = [repo |-> ev.repo, vars |-> Copied(ev.fork), number |-> ev.number]  OBVIOUS
<1>2. Copied(ev.fork) \in SUBSET {"plain", "secret"} /\ ("secret" \in Copied(ev.fork) => ~ev.fork)
  BY DEF Copied, EventType
<1>3. x \in [repo : Repos, vars : SUBSET {"plain", "secret"}, number : Numbers]  BY <1>1, <1>2 DEF EventType
<1>4. Pulled(x) = Pulled(ev)  BY <1>1 DEF Pulled
<1>5. "secret" \in x.vars => \E p \in Pulled(x) : p.head = p.repo  BY <1>1, <1>2, <1>4 DEF EventType
<1>6. QED  BY <1>1, <1>3, <1>5 DEF PreviewAppType

LEMMA PreviewAppShape == ASSUME EnvShape, NEW q \in EnvCallers, PreviewApp(q)  PROVE EnvShape'
<1>0. envCall[q] \in EnvCallType /\ envCall[q].at = "app" /\ envCall[q].kind = "preview" /\ CallHasEvent(envCall[q])
      /\ UNCHANGED <<projects, pull, mail, emix>> /\ (EnvEnds(q) \/ EnvGo(q, "deploy"))
  BY DEF EnvShape, PreviewApp, EnvAt
<1>1. envCall' \in [EnvCallers -> EnvCallType] /\ \A r \in EnvCallers : CallHasEvent(envCall'[r])  BY <1>0, EndsFits, GoFits
<1>2. PICK ev : ev = CHOOSE x \in envCall[q].event : TRUE  OBVIOUS
<1>3. envCall[q].event # {} /\ envCall[q].event \subseteq EventType  BY <1>0 DEF CallHasEvent, EnvCallType
<1>4. ev \in EventType  BY <1>2, <1>3
<1>5. PICK new : new = {[repo |-> ev.repo, vars |-> Copied(ev.fork), number |-> ev.number]}  OBVIOUS
<1>6. new \subseteq PreviewAppType  BY <1>4, <1>5, CopyFits
<1>7. envs' = envs \/ envs' = [envs EXCEPT ![envCall[q].e].apps = @ \cup new]  BY <1>2, <1>5 DEF PreviewApp
<1>8. envs' \in [EnvIds -> EnvType]
  <2>1. PICK r : r = [envs[envCall[q].e] EXCEPT !.apps = @ \cup new]  OBVIOUS
  <2>2. envs' = envs \/ envs' = [envs EXCEPT ![envCall[q].e] = r]  BY <1>7, <2>1
  <2>3. envCall[q].e \in EnvIds => r \in EnvType  BY <1>6, <2>1 DEF EnvShape, EnvType
  <2>4. QED  BY <2>2, <2>3 DEF EnvShape
<1>9. QED  BY <1>0, <1>1, <1>8 DEF EnvShape

LEMMA PushedShape == ASSUME EnvShape, NEW q \in EnvCallers, Pushed(q)  PROVE EnvShape'
<1>0. envCall[q] \in EnvCallType /\ envCall[q].at = "pushed" /\ CallHasEvent(envCall[q])
      /\ UNCHANGED <<projects, envs, pull, mail, emix>>
  BY DEF EnvShape, Pushed, EnvAt
<1>1. CASE EnvEnds(q)
  <2>1. envCall' \in [EnvCallers -> EnvCallType] /\ \A r \in EnvCallers : CallHasEvent(envCall'[r])  BY <1>1, EndsFits
  <2>2. QED  BY <1>0, <2>1 DEF EnvShape
<1>2. CASE ~EnvEnds(q)
  <2>1. PICK e \in EnvIds : envCall' = [envCall EXCEPT ![q].at = "deploy", ![q].e = e]  BY <1>2 DEF Pushed, Rows
  <2>2. PICK c : c = [envCall[q] EXCEPT !.at = "deploy", !.e = e]  OBVIOUS
  <2>3. c \in EnvCallType /\ CallHasEvent(c)  BY <1>0, <2>2 DEF EnvCallType, CallHasEvent
  <2>4. envCall' = [envCall EXCEPT ![q] = c]  BY <2>1, <2>2
  <2>5. envCall' \in [EnvCallers -> EnvCallType] /\ \A r \in EnvCallers : CallHasEvent(envCall'[r])  BY <2>3, <2>4, CallTableFits
  <2>6. QED  BY <1>0, <2>5 DEF EnvShape
<1>3. QED  BY <1>1, <1>2

LEMMA PreviewDeployShape == ASSUME EnvShape, NEW q \in EnvCallers, NEW no, PreviewDeploy(q, no)  PROVE EnvShape'
<1>1. EnvEnds(q) /\ UNCHANGED <<projects, pull, mail>> /\ (Refused(no) \/ Answered(no) \/ UNCHANGED emix)
      /\ (envs' = envs \/ envs' = [envs EXCEPT ![envCall[q].e].fresh = TRUE, ![envCall[q].e].deployed = TRUE])
  BY DEF PreviewDeploy
<1>2. envCall' \in [EnvCallers -> EnvCallType] /\ \A r \in EnvCallers : CallHasEvent(envCall'[r])  BY <1>1, EndsFits
<1>3. emix' \in EnvMixType  BY <1>1, RefusalFits DEF EnvShape
<1>4. envs' \in [EnvIds -> EnvType]
  <2>1. PICK r : r = [envs[envCall[q].e] EXCEPT !.fresh = TRUE, !.deployed = TRUE]  OBVIOUS
  <2>2. envs' = envs \/ envs' = [envs EXCEPT ![envCall[q].e] = r]  BY <1>1, <2>1
  <2>3. ASSUME envCall[q].e \in EnvIds  PROVE r \in EnvType
    <3>1. envs[envCall[q].e] \in EnvType  BY <2>3 DEF EnvShape
    <3>2. QED  BY <2>1, <3>1 DEF EnvType
  <2>4. QED  BY <2>2, <2>3 DEF EnvShape
<1>5. QED  BY <1>1, <1>2, <1>3, <1>4 DEF EnvShape

LEMMA WatchShape == ASSUME EnvShape, (\E e \in EnvIds : Age(e)) \/ Watch  PROVE EnvShape'
<1>1. ASSUME NEW e \in EnvIds, Age(e)  PROVE EnvShape'
  <2>1. PICK r : r = [envs[e] EXCEPT !.fresh = FALSE]  OBVIOUS
  <2>2. envs' = [envs EXCEPT ![e].fresh = FALSE] /\ UNCHANGED <<projects, pull, mail, envCall, emix>>  BY <1>1 DEF Age
  <2>3. r \in EnvType  BY <2>1 DEF EnvShape, EnvType
  <2>4. envs' = [envs EXCEPT ![e] = r]  BY <2>1, <2>2
  <2>5. QED  BY <2>2, <2>3, <2>4 DEF EnvShape
<1>2. CASE ReclaimPreviews  BY <1>2 DEF ReclaimPreviews, EnvShape
<1>3. ASSUME NEW no, ReclaimOne(no)  PROVE EnvShape'
  <2>1. UNCHANGED <<projects, pull, mail, envCall>> /\ (Refused(no) \/ Answered(no))
        /\ (envs' = envs \/ \E S : DeleteEnvironment(S))
    BY <1>3 DEF ReclaimOne
  <2>2. emix' \in EnvMixType  BY <2>1, RefusalFits
  <2>3. envs' \in [EnvIds -> EnvType]  BY <2>1, GoneFits DEF EnvShape
  <2>4. QED  BY <2>1, <2>2, <2>3 DEF EnvShape
<1>4. QED  BY <1>1, <1>2, <1>3 DEF Watch

\* The deliveries: one is taken out, and one comes to the end.
LEMMA Joined ==
    ASSUME NEW T, NEW s \in Seq(T), NEW t \in Seq(T)
    PROVE  /\ s \o t \in Seq(T) /\ Len(s \o t) = Len(s) + Len(t)
           /\ \A k \in 1..Len(s) : (s \o t)[k] = s[k]
           /\ \A k \in 1..Len(t) : (s \o t)[Len(s) + k] = t[k]
OBVIOUS

LEMMA WithoutFits ==
    ASSUME EnvShape, NEW i \in 1..Len(mail)
    PROVE  /\ Without(i) \in Seq(MailType) /\ Len(Without(i)) = Len(mail) - 1
           /\ \A j \in 1..(Len(mail) - 1) : Without(i)[j] = IF j < i THEN mail[j] ELSE mail[j + 1]
<1>0. mail \in Seq(MailType) /\ Len(mail) \in Nat  BY DEF EnvShape
<1>1. PICK s, t : s = SubSeq(mail, 1, i - 1) /\ t = SubSeq(mail, i + 1, Len(mail))  OBVIOUS
<1>2. s \in Seq(MailType) /\ Len(s) = i - 1 /\ \A j \in 1..(i - 1) : s[j] = mail[j]  BY <1>0, <1>1
<1>3. t \in Seq(MailType) /\ Len(t) = Len(mail) - i /\ \A j \in 1..(Len(mail) - i) : t[j] = mail[i + j]  BY <1>0, <1>1
<1>4. Without(i) = s \o t  BY <1>1 DEF Without
<1>5. Without(i) \in Seq(MailType) /\ Len(Without(i)) = Len(mail) - 1
  <2>1. s \o t \in Seq(MailType) /\ Len(s \o t) = Len(s) + Len(t)  BY <1>2, <1>3, Joined
  <2>2. QED  BY <2>1, <1>0, <1>2, <1>3, <1>4
<1>6. ASSUME NEW j \in 1..(Len(mail) - 1)  PROVE Without(i)[j] = IF j < i THEN mail[j] ELSE mail[j + 1]
  <2>1. CASE j < i
    <3>1. j \in 1..Len(s) /\ s[j] = mail[j]  BY <2>1, <1>0, <1>2
    <3>2. (s \o t)[j] = s[j]  BY <3>1, <1>2, <1>3, Joined
    <3>3. QED  BY <2>1, <3>1, <3>2, <1>4
  <2>2. CASE ~(j < i)
    <3>1. PICK k : k = j - (i - 1)  OBVIOUS
    <3>2. k \in 1..Len(t) /\ Len(s) + k = j /\ i + k = j + 1 /\ k \in 1..(Len(mail) - i)  BY <2>2, <3>1, <1>0, <1>2, <1>3
    <3>3. (s \o t)[Len(s) + k] = t[k]  BY <3>2, <1>2, <1>3, Joined
    <3>4. QED  BY <2>2, <3>2, <3>3, <1>3, <1>4
  <2>3. QED  BY <2>1, <2>2
<1>7. QED  BY <1>5, <1>6

\* What the host says of a pull request is of its repository.
LEMMA PayloadFits ==
    ASSUME EnvShape, NEW p \in Pulls, NEW action \in Actions
    PROVE  Payload(p, action) \in MailType
<1>1. p.repo \in Repos /\ p.number \in Numbers /\ p.head \in {x.head : x \in Pulls}  BY DEF Repos, Numbers
<1>2. emix.host \in {"github", "gitlab", "gitea"}  BY DEF EnvShape, EnvMixType
<1>3. PICK m : m = [host |-> emix.host, action |-> action, repo |-> p.repo, number |-> p.number,
                    head |-> p.head, base |-> p.repo, signed |-> TRUE]
  OBVIOUS
<1>4. p \in Pulled(m) /\ m.head = p.head /\ m.base = m.repo  BY <1>3 DEF Pulled
<1>5. m \in MailType  BY <1>1, <1>2, <1>3, <1>4 DEF MailType
<1>6. QED  BY <1>3, <1>5 DEF Payload

LEMMA SendFits ==
    ASSUME EnvShape, NEW p \in Pulls, NEW action \in Actions, Send(p, action)
    PROVE  /\ mail' \in Seq(MailType)
           /\ \E n \in 0..2 : /\ (hooks = 1 => n = 1) /\ Len(mail') = Len(mail) + n
                              /\ \A j \in 1..Len(mail) : mail'[j] = mail[j]
                              /\ \A j \in (Len(mail) + 1)..(Len(mail) + n) : mail'[j] = Payload(p, action)
<1>0. mail \in Seq(MailType) /\ Len(mail) \in Nat  BY DEF EnvShape
<1>1. PICK n \in 0..2 : n = IF hooks = 0 THEN 0 ELSE IF hooks > 1 THEN 2 ELSE 1  OBVIOUS
<1>2. PICK m \in MailType : m = Payload(p, action)  BY PayloadFits
<1>3. PICK t : t = [i \in 1..n |-> m]  OBVIOUS
<1>4. t \in Seq(MailType) /\ Len(t) = n /\ \A i \in 1..n : t[i] = m  BY <1>3
<1>5. mail' = mail \o t  BY <1>1, <1>2, <1>3 DEF Send
<1>6. /\ mail \o t \in Seq(MailType) /\ Len(mail \o t) = Len(mail) + Len(t)
      /\ \A j \in 1..Len(mail) : (mail \o t)[j] = mail[j]
      /\ \A k \in 1..Len(t) : (mail \o t)[Len(mail) + k] = t[k]
  BY <1>0, <1>4, Joined
<1>7. ASSUME NEW j \in (Len(mail) + 1)..(Len(mail) + n)  PROVE mail'[j] = Payload(p, action)
  <2>1. PICK k : k = j - Len(mail)  OBVIOUS
  <2>2. k \in 1..n /\ k \in 1..Len(t) /\ Len(mail) + k = j  BY <2>1, <1>0, <1>4
  <2>3. (mail \o t)[Len(mail) + k] = t[k]  BY <2>2, <1>6
  <2>4. QED  BY <2>2, <2>3, <1>2, <1>4, <1>5
<1>8. mail' \in Seq(MailType) /\ Len(mail') = Len(mail) + n /\ \A j \in 1..Len(mail) : mail'[j] = mail[j]
  BY <1>4, <1>5, <1>6
<1>9. QED  BY <1>1, <1>7, <1>8

\* The host's turns.
LEMMA HostTurnShape ==
    ASSUME EnvShape, NEW p \in Pulls, NEW from, NEW to \in {"open", "closed"}, NEW action \in Actions,
           HostTurn(p, from, to, action)
    PROVE  EnvShape'
<1>1. Send(p, action) /\ UNCHANGED <<projects, envs, envCall>> /\ pull' = [pull EXCEPT ![p] = to]
      /\ emix' = [emix EXCEPT !.events = @ - 1] /\ emix.events > 0
  BY DEF HostTurn
<1>2. mail' \in Seq(MailType)  BY <1>1, SendFits
<1>3. pull' \in [Pulls -> {"new", "open", "closed"}]  BY <1>1 DEF EnvShape
<1>4. emix' \in EnvMixType
  <2>1. emix \in EnvMixType  BY DEF EnvShape
  <2>2. QED  BY <2>1, <1>1 DEF EnvMixType
<1>5. QED  BY <1>1, <1>2, <1>3, <1>4 DEF EnvShape

LEMMA HostShape == ASSUME EnvShape, NEW p \in Pulls, HostActs(p)  PROVE EnvShape'
<1>1. {Opened, Updated, Closed, "push", "labeled", "branchDeleted"} \subseteq Actions  BY DEF Opened, Updated, Closed, Actions
<1>2. CASE HostTurn(p, {"new", "closed"}, "open", Opened)  BY <1>1, <1>2, HostTurnShape
<1>3. CASE HostTurn(p, {"open"}, "open", Updated)  BY <1>1, <1>3, HostTurnShape
<1>4. CASE HostTurn(p, {"open"}, "open", "push")  BY <1>1, <1>4, HostTurnShape
<1>5. CASE HostTurn(p, {"open"}, "open", "labeled")  BY <1>1, <1>5, HostTurnShape
<1>6. CASE HostTurn(p, {"open"}, "closed", Closed)  BY <1>1, <1>6, HostTurnShape
<1>7. CASE HostTurn(p, {"closed"}, "closed", "branchDeleted")  BY <1>1, <1>7, HostTurnShape
<1>8. QED  BY <1>2, <1>3, <1>4, <1>5, <1>6, <1>7 DEF HostActs

LEMMA MailFaultShape == ASSUME EnvShape, NEW i \in 1..Len(mail), MailFault(i)  PROVE EnvShape'
<1>0. mail \in Seq(MailType) /\ mail[i] \in MailType  BY DEF EnvShape
<1>1. PICK m : m = [mail[i] EXCEPT !.signed = FALSE]  OBVIOUS
<1>2. mail' = Without(i) \/ mail' = Append(mail, mail[i]) \/ mail' = [mail EXCEPT ![i] = m]  BY <1>1 DEF MailFault
<1>3. m \in MailType
  <2>1. Pulled(m) = Pulled(mail[i])  BY <1>0, <1>1 DEF Pulled, MailType
  <2>2. m \in [host : {"github", "gitlab", "gitea"}, action : Actions, repo : Repos, number : Numbers,
               head : {p.head : p \in Pulls}, base : Repos, signed : BOOLEAN]
    BY <1>0, <1>1 DEF MailType
  <2>3. m.base = m.repo /\ m.head = mail[i].head  BY <1>0, <1>1 DEF MailType
  <2>4. QED  BY <1>0, <2>1, <2>2, <2>3 DEF MailType
<1>4. [mail EXCEPT ![i] = m] \in Seq(MailType)
  <2>1. PICK t : t = [j \in 1..Len(mail) |-> IF j = i THEN m ELSE mail[j]]  OBVIOUS
  <2>2. Len(mail) \in Nat /\ \A j \in 1..Len(mail) : mail[j] \in MailType  BY <1>0
  <2>3. t \in [1..Len(mail) -> MailType]  BY <1>3, <2>1, <2>2
  <2>4. t \in Seq(MailType)  BY <2>2, <2>3
  <2>5. t = [mail EXCEPT ![i] = m]  BY <1>0, <2>1
  <2>6. QED  BY <2>4, <2>5
<1>5. mail' \in Seq(MailType)  
  <2>1. Without(i) \in Seq(MailType)  BY WithoutFits
  <2>2. Append(mail, mail[i]) \in Seq(MailType)  BY <1>0
  <2>3. QED  BY <1>2, <1>4, <2>1, <2>2
<1>6. emix' \in EnvMixType
  <2>1. emix \in EnvMixType  BY DEF EnvShape
  <2>2. PICK f : f = (emix.faults \ {"lose", "repeat", "secret"}) \cup {"struck"}  OBVIOUS
  <2>3. f \in SUBSET EnvFaults  BY <2>1, <2>2 DEF EnvMixType, EnvFaults
  <2>4. emix' = [emix EXCEPT !.faults = f]  BY <2>2 DEF MailFault
  <2>5. QED  BY <2>1, <2>3, <2>4 DEF EnvMixType
<1>7. QED  BY <1>5, <1>6 DEF EnvShape, MailFault

\* What a delivery says, and what is started for it.
LEMMA ParseFits ==
    ASSUME NEW m \in MailType
    PROVE  /\ ParseWebhook(m) \in EventType /\ ParseWebhook(m).kind = EventKind(m)
           /\ ParseWebhook(m).number = m.number /\ ParseWebhook(m).repo = m.repo
<1>1. PICK ev : ev = ParseWebhook(m)  OBVIOUS
<1>2. ev = [kind |-> EventKind(m), repo |-> m.repo, number |-> m.number, fork |-> IsFork(m)]  BY <1>1 DEF ParseWebhook
<1>3. EventKind(m) \in {"push", "opened", "closed", "deleted", "unsupported"}
  <2>1. ParseGitHub(m) \in {"push", "opened", "closed", "deleted", "unsupported"}  BY DEF ParseGitHub
  <2>2. ParseGitLab(m) \in {"push", "opened", "closed", "deleted", "unsupported"}  BY DEF ParseGitLab
  <2>3. QED  BY <2>1, <2>2 DEF EventKind
<1>4. IsFork(m) \in BOOLEAN  BY DEF IsFork
<1>5. ~IsFork(m) => m.head = m.base  BY DEF IsFork
<1>6. Pulled(ev) = Pulled(m)  BY <1>2 DEF Pulled
<1>7. m.base = m.repo /\ \E p \in Pulled(m) : m.head = p.head  BY DEF MailType
<1>8. ~ev.fork => \E p \in Pulled(ev) : p.head = p.repo  BY <1>2, <1>5, <1>6, <1>7 DEF Pulled
<1>9. ev \in [kind : {"push", "opened", "closed", "deleted", "unsupported"}, repo : Repos, number : Numbers, fork : BOOLEAN]
  BY <1>2, <1>3, <1>4 DEF MailType
<1>10. QED  BY <1>1, <1>2, <1>8, <1>9 DEF EventType

\* The previews a delivery is about, and the one that is taken of them.
There(ev, s) == FindPreview(envs[s].project, PreviewRef(ev))
First(S) == IF S = {} THEN "none" ELSE CHOOSE x \in S : TRUE

\* A started call, by the kind of its event.
LEMMA DispatchIs ==
    ASSUME EnvShape, NEW ev \in EventType, NEW s \in EnvIds, NEW d, d = Dispatch(ev, s)
    PROVE  /\ ev.kind = "push" =>
              d = [kind |-> "preview", at |-> "pushed", e |-> First(There(ev, s)), project |-> envs[s].project,
                    slug |-> PreviewRef(ev), level |-> "none", event |-> {ev}, left |-> {}]
           /\ ev.kind = "opened" /\ There(ev, s) = {} =>
              d = [kind |-> "preview", at |-> "row", e |-> First(There(ev, s)), project |-> envs[s].project,
                    slug |-> PreviewRef(ev), level |-> "none", event |-> {ev}, left |-> {}]
           /\ ev.kind = "opened" /\ There(ev, s) # {} =>
              d = [kind |-> "preview", at |-> "app", e |-> First(There(ev, s)), project |-> envs[s].project,
                    slug |-> PreviewRef(ev), level |-> "none", event |-> {ev}, left |-> {}]
           /\ ev.kind \in {"closed", "deleted"} /\ There(ev, s) # {} =>
              d = [kind |-> "cleanup", at |-> "namespaces", e |-> First(There(ev, s)), project |-> envs[s].project,
                    slug |-> PreviewRef(ev), level |-> "none", event |-> {ev}, left |-> Read(There(ev, s))]
           /\ ev.kind \notin {"push", "opened", "closed", "deleted"} \/ (ev.kind \in {"closed", "deleted"} /\ There(ev, s) = {}) =>
              d = NoEnvCall
<1>0. PICK e, there : e = First(There(ev, s)) /\ there = There(ev, s)  OBVIOUS
<1>1. PICK c : c = [NoEnvCall EXCEPT !.kind = "preview", !.project = envs[s].project, !.slug = PreviewRef(ev),
                                     !.event = {ev}, !.e = e]
  OBVIOUS
<1>2. c = [kind |-> "preview", at |-> "off", e |-> e, project |-> envs[s].project, slug |-> PreviewRef(ev),
           level |-> "none", event |-> {ev}, left |-> {}]
  BY <1>1 DEF NoEnvCall
<1>3. d = CASE ev.kind = "push" -> [c EXCEPT !.at = "pushed"]
            [] ev.kind = "opened" -> [c EXCEPT !.at = IF there = {} THEN "row" ELSE "app"]
            [] ev.kind \in {"closed", "deleted"} /\ there # {} ->
                  [c EXCEPT !.kind = "cleanup", !.at = "namespaces", !.left = Read(there)]
            [] OTHER -> NoEnvCall
  BY <1>0, <1>1 DEF Dispatch, There, First
<1>4. ASSUME ev.kind = "push"
      PROVE  d = [kind |-> "preview", at |-> "pushed", e |-> First(There(ev, s)), project |-> envs[s].project,
                    slug |-> PreviewRef(ev), level |-> "none", event |-> {ev}, left |-> {}]
  <2>1. d = [c EXCEPT !.at = "pushed"]  BY <1>0, <1>3, <1>4
  <2>2. QED  BY <1>0, <1>2, <2>1
<1>5. ASSUME ev.kind = "opened" /\ There(ev, s) = {}
      PROVE  d = [kind |-> "preview", at |-> "row", e |-> First(There(ev, s)), project |-> envs[s].project,
                    slug |-> PreviewRef(ev), level |-> "none", event |-> {ev}, left |-> {}]
  <2>1. d = [c EXCEPT !.at = "row"]  BY <1>0, <1>3, <1>5
  <2>2. QED  BY <1>0, <1>2, <2>1
<1>6. ASSUME ev.kind = "opened" /\ There(ev, s) # {}
      PROVE  d = [kind |-> "preview", at |-> "app", e |-> First(There(ev, s)), project |-> envs[s].project,
                    slug |-> PreviewRef(ev), level |-> "none", event |-> {ev}, left |-> {}]
  <2>1. d = [c EXCEPT !.at = "app"]  BY <1>0, <1>3, <1>6
  <2>2. QED  BY <1>0, <1>2, <2>1
<1>7. ASSUME ev.kind \in {"closed", "deleted"} /\ There(ev, s) # {}
      PROVE  d = [kind |-> "cleanup", at |-> "namespaces", e |-> First(There(ev, s)), project |-> envs[s].project,
                    slug |-> PreviewRef(ev), level |-> "none", event |-> {ev}, left |-> Read(There(ev, s))]
  <2>1. d = [c EXCEPT !.kind = "cleanup", !.at = "namespaces", !.left = Read(there)]  BY <1>0, <1>3, <1>7
  <2>2. QED  BY <1>0, <1>2, <2>1
<1>8. ASSUME ev.kind \notin {"push", "opened", "closed", "deleted"} \/ (ev.kind \in {"closed", "deleted"} /\ There(ev, s) = {})
      PROVE  d = NoEnvCall
  BY <1>0, <1>3, <1>8
<1>9. QED  BY <1>4, <1>5, <1>6, <1>7, <1>8

LEMMA DispatchFits ==
    ASSUME EnvShape, NEW ev \in EventType, NEW s \in EnvIds
    PROVE  Dispatch(ev, s) \in EnvCallType /\ CallHasEvent(Dispatch(ev, s))
<1>1. PICK d : d = Dispatch(ev, s)  OBVIOUS
<1>2. PICK e, there : e = First(There(ev, s)) /\ there = There(ev, s)  OBVIOUS
<1>3. there \in SUBSET EnvIds  BY <1>2 DEF There, FindPreview, Rows
<1>4. e \in EnvIds \cup {"none"}  BY <1>2, <1>3 DEF First
<1>5. Read(there) \in SUBSET LeftType  BY <1>3, ReadFits
<1>6. envs[s].project \in PSlugs  BY DEF EnvShape, EnvType
<1>7. PreviewRef(ev) \in ESlugs  BY DEF PreviewRef, ESlugs, Refs, EventType
<1>8. CASE d = NoEnvCall  BY <1>1, <1>8, NoEnvIsTyped
<1>9. ASSUME NEW k \in {"preview", "cleanup"}, NEW w \in {"pushed", "row", "app", "namespaces"}, NEW l \in {{}, Read(there)},
             d = [kind |-> k, at |-> w, e |-> e, project |-> envs[s].project, slug |-> PreviewRef(ev),
                  level |-> "none", event |-> {ev}, left |-> l]
      PROVE  d \in EnvCallType /\ CallHasEvent(d)
  <2>1. d \in EnvCallType  BY <1>4, <1>5, <1>6, <1>7, <1>9 DEF EnvCallType, Levels
  <2>2. CallHasEvent(d)  BY <1>9 DEF CallHasEvent
  <2>3. QED  BY <2>1, <2>2
<1>10. \E k \in {"preview", "cleanup"}, w \in {"pushed", "row", "app", "namespaces"}, l \in {{}, Read(there)} :
          d = [kind |-> k, at |-> w, e |-> e, project |-> envs[s].project, slug |-> PreviewRef(ev),
               level |-> "none", event |-> {ev}, left |-> l] \/ d = NoEnvCall
  <2>1. CASE ev.kind = "push"  BY <1>1, <1>2, <2>1, DispatchIs
  <2>2. CASE ev.kind = "opened" /\ There(ev, s) = {}  BY <1>1, <1>2, <2>2, DispatchIs
  <2>3. CASE ev.kind = "opened" /\ There(ev, s) # {}  BY <1>1, <1>2, <2>3, DispatchIs
  <2>4. CASE ev.kind \in {"closed", "deleted"} /\ There(ev, s) # {}  BY <1>1, <1>2, <2>4, DispatchIs
  <2>5. CASE ev.kind \notin {"push", "opened", "closed", "deleted"} \/ (ev.kind \in {"closed", "deleted"} /\ There(ev, s) = {})
    BY <1>1, <1>2, <2>5, DispatchIs
  <2>6. QED  BY <2>1, <2>2, <2>3, <2>4, <2>5
<1>11. QED  BY <1>1, <1>8, <1>9, <1>10

LEMMA ReceiveShape == ASSUME EnvShape, NEW q \in EnvCallers, NEW i \in 1..Len(mail), Receive(q, i)  PROVE EnvShape'
<1>1. UNCHANGED <<projects, envs, pull, emix>> /\ mail' = Without(i)  BY DEF Receive
<1>2. mail[i] \in MailType  BY DEF EnvShape
<1>3. mail' \in Seq(MailType)  BY <1>1, WithoutFits
<1>4. CASE UNCHANGED envCall  BY <1>1, <1>3, <1>4 DEF EnvShape
<1>5. CASE ~UNCHANGED envCall
  <2>1. PICK s \in SourceEnvs : envCall' = [envCall EXCEPT ![q] = Dispatch(ParseWebhook(mail[i]), s)]  BY <1>5 DEF Receive
  <2>2. s \in EnvIds  BY DEF SourceEnvs, Rows
  <2>3. ParseWebhook(mail[i]) \in EventType  BY <1>2, ParseFits
  <2>4. Dispatch(ParseWebhook(mail[i]), s) \in EnvCallType /\ CallHasEvent(Dispatch(ParseWebhook(mail[i]), s))
    BY <2>2, <2>3, DispatchFits
  <2>5. envCall' \in [EnvCallers -> EnvCallType] /\ \A r \in EnvCallers : CallHasEvent(envCall'[r])  BY <2>1, <2>4, CallTableFits
  <2>6. QED  BY <1>1, <1>3, <2>5 DEF EnvShape
<1>6. QED  BY <1>4, <1>5

LEMMA EnvShapeStarts == EnvInit => EnvShape
<1> SUFFICES ASSUME EnvInit  PROVE EnvShape  OBVIOUS
<1>1. emix \in EnvMixType  BY EnvMixesAssumption DEF EnvInit, EnvMixType
<1>2. pull \in [Pulls -> {"new", "open", "closed"}] /\ mail = <<>> /\ envCall = [q \in EnvCallers |-> NoEnvCall]
  BY DEF EnvInit
<1>3. mail \in Seq(MailType)  BY <1>2
<1>4. envCall \in [EnvCallers -> EnvCallType] /\ \A q \in EnvCallers : CallHasEvent(envCall[q])  BY <1>2, NoEnvIsTyped
<1>5. CASE "createProject" \in emix.kinds
  <2>1. projects = {} /\ envs = [e \in EnvIds |-> NoEnv]  BY <1>5 DEF EnvInit
  <2>2. QED  BY <2>1, <1>1, <1>2, <1>3, <1>4, NoEnvIsTyped DEF EnvShape
<1>6. CASE "createProject" \notin emix.kinds
  <2>1. PICK p \in {x \in ProjectSlugs : Len(x) = 1}, e \in {CHOOSE x \in EnvIds : TRUE} :
            /\ projects = {p}
            /\ envs = [x \in EnvIds |-> IF x = e THEN [NoEnv EXCEPT !.on = TRUE, !.born = TRUE, !.project = p,
                                                            !.slug = <<"production">>] ELSE NoEnv]
    BY <1>6, Zenon DEF EnvInit
  <2>2. PICK r : r = [NoEnv EXCEPT !.on = TRUE, !.born = TRUE, !.project = p, !.slug = <<"production">>]  OBVIOUS
  <2>3. r \in EnvType  BY <2>2 DEF NoEnv, EnvType, PSlugs, ESlugs, Levels
  <2>4. envs = [x \in EnvIds |-> IF x = e THEN r ELSE NoEnv]  BY <2>1, <2>2
  <2>5. envs \in [EnvIds -> EnvType] /\ projects \subseteq PSlugs  BY <2>1, <2>3, <2>4, NoEnvIsTyped DEF PSlugs
  <2>6. QED  BY <2>5, <1>1, <1>2, <1>3, <1>4 DEF EnvShape
<1>7. QED  BY <1>5, <1>6

LEMMA HandleShape == ASSUME EnvShape, NEW q \in EnvCallers, EnvHandle(q)  PROVE EnvShape'
BY CreateProjectShape, EnvironmentRowShape, UpdateLevelShape, ListEnvironmentsShape, DeleteRowsShape, HookShape,
   PreviewRowShape, PreviewAppShape, PushedShape, ApplyNamespaceShape, DeleteNamespaceShape, PreviewNamespaceShape,
   PreviewDeployShape DEF EnvHandle

LEMMA EnvShapeStep == EnvShape /\ [EnvNext]_envVars => EnvShape'
<1> SUFFICES ASSUME EnvShape, [EnvNext]_envVars  PROVE EnvShape'  OBVIOUS
<1>1. CASE UNCHANGED envVars  BY <1>1 DEF envVars, EnvShape
<1>2. ASSUME NEW q \in EnvCallers, \E c \in EnvRequests : EnvBegin(q, c)  PROVE EnvShape'  BY <1>2, BeginShape
<1>3. ASSUME NEW q \in EnvCallers, EnvHandle(q)  PROVE EnvShape'  BY <1>3, HandleShape
<1>4. ASSUME NEW q \in EnvCallers, \E i \in 1..Len(mail) : Receive(q, i)  PROVE EnvShape'  BY <1>4, ReceiveShape
<1>5. CASE \E p \in Pulls : HostActs(p)  BY <1>5, HostShape
<1>6. CASE \E i \in 1..Len(mail) : MailFault(i)  BY <1>6, MailFaultShape
<1>7. CASE (\E e \in EnvIds : Age(e)) \/ Watch  BY <1>7, WatchShape
<1>8. QED  BY <1>1, <1>2, <1>3, <1>4, <1>5, <1>6, <1>7 DEF EnvNext

LEMMA ForksByTypes == EnvShape => ForkGetsNoAppSecrets
<1> SUFFICES ASSUME EnvShape, NEW e \in Rows, NEW x \in envs[e].apps, NEW p \in Pulls,
                    p.repo = x.repo, p.number = x.number, p.head # p.repo, ~(x.vars \cap SecretOnes = {})
             PROVE  FALSE
  BY DEF ForkGetsNoAppSecrets, OfAFork, PreviewVariables
<1>1. x \in PreviewAppType  BY DEF EnvShape, EnvType, Rows
<1>2. PICK y \in Pulled(x) : y.head = y.repo  BY <1>1 DEF PreviewAppType, SecretOnes
<1>3. y = p  BY EnvNamesAssumption DEF Pulled
<1>4. QED  BY <1>2, <1>3

(* ForkGetsNoAppSecrets: whatever is asked for, lost, repeated, late or    *)
(* refused, no preview's copy of an app has one of its secrets where its   *)
(* pull request's head is not our own (copyPreviewVariables); what secrets *)
(* it is deployed with are the project's shared ones (runtimeVariables).   *)
THEOREM ForksGetNoAppSecrets == EnvSpec => []ForkGetsNoAppSecrets
<1>1. EnvInit => EnvShape  BY EnvShapeStarts
<1>2. EnvShape /\ [EnvNext]_envVars => EnvShape'  BY EnvShapeStep
<1>3. EnvShape => ForkGetsNoAppSecrets  BY ForksByTypes
<1>4. QED  BY <1>1, <1>2, <1>3, PTL DEF EnvSpec

-----------------------------------------------------------------------------
(* When the host is all that acts.                                         *)

\* Within a project, one pull request has the number: the previews of a project are named by it.
OneNumberEach == \A p, x \in Pulls : p.number = x.number => p = x

LEMMA CalmStays == EnvShape /\ [EnvNext]_envVars /\ Calm' => Calm
<1> SUFFICES ASSUME EnvShape, [EnvNext]_envVars, Calm'  PROVE Calm  OBVIOUS
<1>0. emix \in EnvMixType  BY DEF EnvShape
<1>1. emix'.overlap = emix.overlap /\ emix'.kinds = emix.kinds /\ emix'.faults = emix.faults
  <2>1. CASE UNCHANGED emix  BY <2>1
  <2>2. ASSUME NEW no, Refused(no) \/ Answered(no)
        PROVE emix'.overlap = emix.overlap /\ emix'.kinds = emix.kinds /\ emix'.faults = emix.faults
    BY <2>2, RefusalFits
  <2>3. ASSUME NEW p \in Pulls, HostActs(p)
        PROVE emix'.overlap = emix.overlap /\ emix'.kinds = emix.kinds /\ emix'.faults = emix.faults
    <3>1. emix' = [emix EXCEPT !.events = @ - 1]  BY <2>3 DEF HostActs, HostTurn
    <3>2. QED  BY <3>1, <1>0 DEF EnvMixType
  <2>4. ASSUME NEW i \in 1..Len(mail), MailFault(i)  PROVE FALSE
    <3>1. emix' = [emix EXCEPT !.faults = (@ \ {"lose", "repeat", "secret"}) \cup {"struck"}]  BY <2>4 DEF MailFault
    <3>2. "struck" \in emix'.faults  BY <3>1, <1>0 DEF EnvMixType
    <3>3. QED  BY <3>2 DEF Calm
  <2>5. ASSUME NEW q \in EnvCallers, EnvHandle(q)
        PROVE UNCHANGED emix \/ \E no : Refused(no) \/ Answered(no)
    BY <2>5 DEF EnvHandle, CreateProject, CreateEnvironmentRow, UpdateLevel, ListEnvironments, DeleteRows, EnsureWebhook,
                PostHook, PreviewRow, PreviewApp, Pushed, ApplyNamespace, DeleteNamespaceOf, PreviewNamespace, PreviewDeploy
  <2>6. Watch => UNCHANGED emix \/ \E no : Refused(no) \/ Answered(no)  BY DEF Watch, ReclaimPreviews, ReclaimOne
  <2>7. (\E q \in EnvCallers : (\E c \in EnvRequests : EnvBegin(q, c)) \/ \E i \in 1..Len(mail) : Receive(q, i))
          \/ (\E e \in EnvIds : Age(e)) => UNCHANGED emix
    BY DEF EnvBegin, Receive, Age
  <2>8. CASE UNCHANGED envVars  BY <2>1, <2>8 DEF envVars
  <2>9. QED  BY <2>1, <2>2, <2>3, <2>4, <2>5, <2>6, <2>7, <2>8 DEF EnvNext
<1>2. QED  BY <1>1 DEF Calm

\* The rows stand as they did, but for what is in them and that they are fresh.
RowsStand ==
    /\ \A e \in EnvIds : /\ envs'[e].on = envs[e].on /\ envs'[e].born = envs[e].born /\ envs'[e].kind = envs[e].kind
                         /\ envs'[e].project = envs[e].project /\ envs'[e].slug = envs[e].slug /\ envs'[e].fresh
    /\ UNCHANGED <<projects, hooks, pass>>

LEMMA HomeIsThere == Home \in EnvIds
BY EnvNamesAssumption DEF Home

LEMMA Standing ==
    ASSUME HomeStands, RowsAreOurs, RowsStand
    PROVE  /\ HomeStands' /\ RowsAreOurs' /\ envs'[Home].project = envs[Home].project
           /\ \A pr, s : FindPreview(pr, s)' = FindPreview(pr, s)
<1>1. Rows' = Rows /\ Rows \subseteq EnvIds  BY DEF Rows, RowsStand
<1>2. HomeStands' /\ envs'[Home].project = envs[Home].project  BY HomeIsThere DEF HomeStands, RowsStand
<1>3. RowsAreOurs'  BY <1>1, HomeIsThere DEF RowsAreOurs, RowsStand
<1>4. ASSUME NEW pr, NEW s  PROVE FindPreview(pr, s)' = FindPreview(pr, s)  BY <1>1 DEF FindPreview, RowsStand
<1>5. QED  BY <1>2, <1>3, <1>4

\* What is there for each pull request stays.
LEMMA TellsStay ==
    ASSUME LastTells, NoneTells, MailIsWhole, UNCHANGED <<mail, pull>>, \A p \in Pulls : Settled(p)' <=> Settled(p)
    PROVE  LastTells' /\ NoneTells' /\ MailIsWhole'
<1>1. LastTells'  BY DEF LastTells, Tells, EventKind, ParseGitHub, ParseGitLab
<1>2. NoneTells'  BY DEF NoneTells, Tells, EventKind, ParseGitHub, ParseGitLab
<1>3. MailIsWhole'  BY DEF MailIsWhole
<1>4. QED  BY <1>1, <1>2, <1>3

\* The one call there is goes on.
NoOtherCall(q) == \A r \in EnvCallers \ {q} : envCall[r].at = "off"

LEMMA OneIsOnly == ASSUME OneEnvCall, NEW q \in EnvCallers, envCall[q].at # "off"  PROVE NoOtherCall(q)
BY DEF OneEnvCall, NoOtherCall

LEMMA NoOtherCallIs ==
    ASSUME NEW q \in EnvCallers, NoOtherCall(q), NEW p
    PROVE  /\ Making(p) <=> envCall[q].kind = "preview" /\ envCall[q].at = "row" /\ envCall[q].slug = Ref(p)
           /\ Removing(p) <=> envCall[q].kind = "cleanup" /\ envCall[q].at = "namespaces" /\ envCall[q].slug = Ref(p)
BY DEF NoOtherCall, Making, Removing, EnvAt

LEMMA CallTurns ==
    ASSUME EnvShape, NEW q \in EnvCallers, NoOtherCall(q), NEW c, envCall' = [envCall EXCEPT ![q] = c]
    PROVE  /\ OneEnvCall' /\ envCall'[q] = c /\ \A r \in EnvCallers \ {q} : envCall'[r].at = "off"
           /\ EnvCallFits(c)' => \A r \in EnvCallers : EnvCallFits(envCall[r])'
           /\ \A p : /\ Making(p)' <=> c.kind = "preview" /\ c.at = "row" /\ c.slug = Ref(p)
                     /\ Removing(p)' <=> c.kind = "cleanup" /\ c.at = "namespaces" /\ c.slug = Ref(p)
<1>1. envCall'[q] = c /\ \A r \in EnvCallers \ {q} : envCall'[r].at = "off"  BY DEF EnvShape, NoOtherCall
<1>2. OneEnvCall'  BY <1>1 DEF OneEnvCall
<1>3. ASSUME EnvCallFits(c)', NEW r \in EnvCallers  PROVE EnvCallFits(envCall[r])'
  <2>1. CASE r = q  BY <1>1, <1>3, <2>1 DEF EnvCallFits
  <2>2. CASE r # q  BY <1>1, <2>2 DEF EnvCallFits
  <2>3. QED  BY <2>1, <2>2
<1>4. ASSUME NEW p
      PROVE  /\ Making(p)' <=> c.kind = "preview" /\ c.at = "row" /\ c.slug = Ref(p)
             /\ Removing(p)' <=> c.kind = "cleanup" /\ c.at = "namespaces" /\ c.slug = Ref(p)
  BY <1>1 DEF Making, Removing, EnvAt, Ref
<1>5. QED  BY <1>1, <1>2, <1>3, <1>4

\* A step that neither makes nor removes a row, of a preview's call that is about to do neither.
LEMMA StandingStep ==
    ASSUME EnvShape, CalmFit, NEW q \in EnvCallers, envCall[q].kind = "preview", envCall[q].at \in {"namespace", "app", "pushed", "deploy"},
           RowsStand, UNCHANGED <<mail, pull>>,
           NEW c, envCall' = [envCall EXCEPT ![q] = c],
           c.at = "off" \/ (c.kind = "preview" /\ c.at \in {"app", "deploy"} /\ c.project = envCall[q].project)
    PROVE  CalmFit'
<1>1. NoOtherCall(q)  BY OneIsOnly DEF CalmFit
<1>2. /\ HomeStands' /\ RowsAreOurs' /\ envs'[Home].project = envs[Home].project
      /\ \A pr, s : FindPreview(pr, s)' = FindPreview(pr, s)
  BY Standing DEF CalmFit
<1>3. EnvCallFits(envCall[q])  BY DEF CalmFit
<1>4. EnvCallFits(c)'  BY <1>2, <1>3 DEF EnvCallFits
<1>5. OneEnvCall' /\ \A r \in EnvCallers : EnvCallFits(envCall[r])'  BY <1>1, <1>4, CallTurns
<1>6. ASSUME NEW p \in Pulls  PROVE Settled(p)' <=> Settled(p)
  <2>1. ~Making(p) /\ ~Removing(p)  BY <1>1, NoOtherCallIs
  <2>2. ~Making(p)' /\ ~Removing(p)'  BY <1>1, CallTurns
  <2>3. PreviewsOf(p)' = PreviewsOf(p)  BY <1>2 DEF PreviewsOf, Ref
  <2>4. QED  BY <2>1, <2>2, <2>3 DEF Settled
<1>7. LastTells' /\ NoneTells' /\ MailIsWhole'  BY <1>6, TellsStay DEF CalmFit
<1>8. QED  BY <1>2, <1>5, <1>7 DEF CalmFit

LEMMA AllFresh == ASSUME EnvShape, CalmFit  PROVE \A e \in EnvIds : envs[e].fresh /\ envs[e] \in EnvType
BY DEF CalmFit, RowsAreOurs, EnvShape

LEMMA PreviewNamespaceCalm == ASSUME EnvShape, CalmFit, NEW q \in EnvCallers, NEW no, PreviewNamespace(q, no)  PROVE CalmFit'
<1>1. PICK c : envCall' = [envCall EXCEPT ![q] = c] /\ (c = NoEnvCall \/ c = [envCall[q] EXCEPT !.at = "app"])
  <2>1. EnvEnds(q) \/ EnvGo(q, "app")  BY DEF PreviewNamespace
  <2>2. QED  BY <2>1 DEF EnvEnds, EnvGo
<1>2. envCall[q].kind = "preview" /\ envCall[q].at = "namespace" /\ UNCHANGED <<projects, envs, pull, hooks, mail, pass>>
  BY DEF PreviewNamespace, EnvAt
<1>3. RowsStand  BY <1>2, AllFresh DEF RowsStand
<1>4. envCall[q] \in EnvCallType  BY DEF EnvShape
<1>5. c.at = "off" \/ (c.kind = "preview" /\ c.at = "app" /\ c.project = envCall[q].project)
  BY <1>1, <1>2, <1>4 DEF NoEnvCall, EnvCallType
<1>6. QED  BY <1>1, <1>2, <1>3, <1>5, StandingStep

LEMMA PushedCalm == ASSUME EnvShape, CalmFit, NEW q \in EnvCallers, Pushed(q)  PROVE CalmFit'
<1>1. PICK c, e : envCall' = [envCall EXCEPT ![q] = c] /\ (c = NoEnvCall \/ c = [envCall[q] EXCEPT !.at = "deploy", !.e = e])
  <2>1. CASE EnvEnds(q)  BY <2>1 DEF EnvEnds
  <2>2. CASE ~EnvEnds(q)
    <3>1. PICK e : envCall' = [envCall EXCEPT ![q].at = "deploy", ![q].e = e]  BY <2>2 DEF Pushed
    <3>2. PICK c : c = [envCall[q] EXCEPT !.at = "deploy", !.e = e]  OBVIOUS
    <3>3. envCall' = [envCall EXCEPT ![q] = c]  BY <3>1, <3>2
    <3>4. QED  BY <3>2, <3>3
  <2>3. QED  BY <2>1, <2>2
<1>2. envCall[q].kind = "preview" /\ envCall[q].at = "pushed" /\ UNCHANGED <<projects, envs, pull, hooks, mail, pass>>
  BY DEF Pushed, EnvAt
<1>3. RowsStand  BY <1>2, AllFresh DEF RowsStand
<1>4. envCall[q] \in EnvCallType  BY DEF EnvShape
<1>5. c.at = "off" \/ (c.kind = "preview" /\ c.at = "deploy" /\ c.project = envCall[q].project)
  <2>1. CASE c = NoEnvCall  BY <2>1 DEF NoEnvCall
  <2>2. CASE c = [envCall[q] EXCEPT !.at = "deploy", !.e = e]
    <3>1. c.kind = envCall[q].kind /\ c.at = "deploy" /\ c.project = envCall[q].project  BY <2>2, <1>4 DEF EnvCallType
    <3>2. QED  BY <3>1, <1>2
  <2>3. QED  BY <1>1, <2>1, <2>2
<1>6. QED  BY <1>1, <1>2, <1>3, <1>5, StandingStep

LEMMA PreviewAppCalm == ASSUME EnvShape, CalmFit, NEW q \in EnvCallers, PreviewApp(q)  PROVE CalmFit'
<1>1. PICK c : envCall' = [envCall EXCEPT ![q] = c] /\ (c = NoEnvCall \/ c = [envCall[q] EXCEPT !.at = "deploy"])
  <2>1. EnvEnds(q) \/ EnvGo(q, "deploy")  BY DEF PreviewApp
  <2>2. QED  BY <2>1 DEF EnvEnds, EnvGo
<1>2. envCall[q].kind = "preview" /\ envCall[q].at = "app" /\ UNCHANGED <<projects, pull, hooks, mail, pass>>
  BY DEF PreviewApp, EnvAt
<1>3. RowsStand
  <2>1. PICK new : envs' = envs \/ envs' = [envs EXCEPT ![envCall[q].e].apps = @ \cup new]  BY DEF PreviewApp
  <2>2. PICK r : r = [envs[envCall[q].e] EXCEPT !.apps = @ \cup new]  OBVIOUS
  <2>3. envs' = envs \/ envs' = [envs EXCEPT ![envCall[q].e] = r]  BY <2>1, <2>2
  <2>4. ASSUME NEW e \in EnvIds
        PROVE  /\ envs'[e].on = envs[e].on /\ envs'[e].born = envs[e].born /\ envs'[e].kind = envs[e].kind
               /\ envs'[e].project = envs[e].project /\ envs'[e].slug = envs[e].slug /\ envs'[e].fresh
    <3>1. envs[e].fresh /\ envs[e] \in EnvType  BY AllFresh
    <3>2. CASE envs'[e] = envs[e]  BY <3>1, <3>2
    <3>3. CASE envs'[e] # envs[e]
      <4>1. e = envCall[q].e /\ envs'[e] = r  BY <2>3, <3>3 DEF EnvShape
      <4>2. QED  BY <2>2, <3>1, <4>1 DEF EnvType
    <3>4. QED  BY <3>2, <3>3
  <2>5. QED  BY <1>2, <2>4 DEF RowsStand
<1>4. envCall[q] \in EnvCallType  BY DEF EnvShape
<1>5. c.at = "off" \/ (c.kind = "preview" /\ c.at = "deploy" /\ c.project = envCall[q].project)
  BY <1>1, <1>2, <1>4 DEF NoEnvCall, EnvCallType
<1>6. QED  BY <1>1, <1>2, <1>3, <1>5, StandingStep

LEMMA PreviewDeployCalm == ASSUME EnvShape, CalmFit, NEW q \in EnvCallers, NEW no, PreviewDeploy(q, no)  PROVE CalmFit'
<1>1. envCall' = [envCall EXCEPT ![q] = NoEnvCall]  BY DEF PreviewDeploy, EnvEnds
<1>2. envCall[q].kind = "preview" /\ envCall[q].at = "deploy" /\ UNCHANGED <<projects, pull, hooks, mail, pass>>
  BY DEF PreviewDeploy, EnvAt
<1>3. RowsStand
  <2>1. envs' = envs \/ envs' = [envs EXCEPT ![envCall[q].e].fresh = TRUE, ![envCall[q].e].deployed = TRUE]  BY DEF PreviewDeploy
  <2>2. PICK r : r = [envs[envCall[q].e] EXCEPT !.fresh = TRUE, !.deployed = TRUE]  OBVIOUS
  <2>3. envs' = envs \/ envs' = [envs EXCEPT ![envCall[q].e] = r]  BY <2>1, <2>2
  <2>4. ASSUME NEW e \in EnvIds
        PROVE  /\ envs'[e].on = envs[e].on /\ envs'[e].born = envs[e].born /\ envs'[e].kind = envs[e].kind
               /\ envs'[e].project = envs[e].project /\ envs'[e].slug = envs[e].slug /\ envs'[e].fresh
    <3>1. envs[e].fresh /\ envs[e] \in EnvType  BY AllFresh
    <3>2. CASE envs'[e] = envs[e]  BY <3>1, <3>2
    <3>3. CASE envs'[e] # envs[e]
      <4>1. e = envCall[q].e /\ envs'[e] = r  BY <2>3, <3>3 DEF EnvShape
      <4>2. QED  BY <2>2, <3>1, <4>1 DEF EnvType
    <3>4. QED  BY <3>2, <3>3
  <2>5. QED  BY <1>2, <2>4 DEF RowsStand
<1>4. NoEnvCall.at = "off"  BY DEF NoEnvCall
<1>5. QED  BY <1>1, <1>2, <1>3, <1>4, StandingStep

\* The namespaces of a project's previews are each of one pull request, and none is production's.
LEMMA NamesApart ==
    ASSUME NEW pr \in PSlugs, NEW n \in Numbers, NEW m \in Numbers
    PROVE  /\ NamespaceFor(pr, <<"pr", n>>) # NamespaceFor(pr, <<"production">>)
           /\ NamespaceFor(pr, <<"pr", n>>) = NamespaceFor(pr, <<"pr", m>>) => n = m
<1> PICK S : S = STRING  OBVIOUS
<1>1. PICK T : T = S \cup {"pr", "production"} \cup Numbers  OBVIOUS
<1>2. pr \in Seq(T)
  <2>1. CASE pr = <<>>  BY <2>1
  <2>2. CASE pr \in ProjectSlugs
    <3>1. pr \in Seq(S)  BY <2>2, EnvNamesAssumption
    <3>2. Len(pr) \in Nat /\ pr \in [1..Len(pr) -> S]  BY <3>1
    <3>3. pr \in [1..Len(pr) -> T]  BY <3>2, <1>1
    <3>4. QED  BY <3>2, <3>3
  <2>3. QED  BY <2>1, <2>2 DEF PSlugs, Nowhere
<1>3. <<"pr", n>> \in Seq(T) /\ <<"pr", m>> \in Seq(T) /\ <<"production">> \in Seq(T)  BY <1>1
<1>4. Len(pr) \in Nat  BY <1>2
<1>5. Len(pr \o <<"pr", n>>) = Len(pr) + 2 /\ Len(pr \o <<"production">>) = Len(pr) + 1
  <2>1. Len(<<"pr", n>>) = 2 /\ Len(<<"production">>) = 1  OBVIOUS
  <2>2. Len(pr \o <<"pr", n>>) = Len(pr) + Len(<<"pr", n>>)  BY <1>2, <1>3, Joined
  <2>3. Len(pr \o <<"production">>) = Len(pr) + Len(<<"production">>)  BY <1>2, <1>3, Joined
  <2>4. QED  BY <2>1, <2>2, <2>3
<1>6. (pr \o <<"pr", n>>)[Len(pr) + 2] = n /\ (pr \o <<"pr", m>>)[Len(pr) + 2] = m
  <2>1. ASSUME NEW k \in Numbers  PROVE (pr \o <<"pr", k>>)[Len(pr) + 2] = k
    <3>1. <<"pr", k>> \in Seq(T)  BY <1>1
    <3>2. Len(<<"pr", k>>) = 2 /\ <<"pr", k>>[2] = k  OBVIOUS
    <3>3. (pr \o <<"pr", k>>)[Len(pr) + 2] = <<"pr", k>>[2]  BY <3>1, <3>2, <1>2, Joined
    <3>4. QED  BY <3>2, <3>3
  <2>2. QED  BY <2>1
<1>7. QED  BY <1>4, <1>5, <1>6 DEF NamespaceFor

LEMMA RefsApart == \A p, x : Ref(p) = Ref(x) <=> p.number = x.number
BY DEF Ref

LEMMA PreviewRowCalm == ASSUME EnvShape, CalmFit, NEW q \in EnvCallers, PreviewRow(q)  PROVE CalmFit'
<1>1. envCall[q].kind = "preview" /\ envCall[q].at = "row" /\ UNCHANGED <<projects, pull, hooks, mail, pass>>
      /\ envCall[q] \in EnvCallType
  BY DEF PreviewRow, EnvAt, EnvShape
<1>2. PICK pr, s : pr = envCall[q].project /\ s = envCall[q].slug  OBVIOUS
<1>3. pr = envs[Home].project /\ s \in Refs /\ FindPreview(pr, s) = {}
  BY <1>1, <1>2 DEF CalmFit, EnvCallFits
<1>4. PICK n \in Numbers : s = <<"pr", n>>  BY <1>3 DEF Refs
<1>5. pr \in PSlugs  BY <1>1, <1>2 DEF EnvCallType
<1>6. SlugIsFree(pr, s) /\ pr \in projects
  <2>1. ASSUME NEW e \in Rows  PROVE NamespaceOf(e) # NamespaceFor(pr, s)
    <3>1. CASE e = Home
      <4>1. NamespaceOf(e) = NamespaceFor(pr, <<"production">>)  BY <3>1, <1>3 DEF NamespaceOf, CalmFit, HomeStands
      <4>2. QED  BY <4>1, <1>4, <1>5, NamesApart
    <3>2. CASE e # Home
      <4>1. envs[e].kind = "preview" /\ envs[e].project = pr /\ envs[e].slug \in Refs  BY <3>2, <1>3 DEF CalmFit, RowsAreOurs
      <4>2. PICK m \in Numbers : envs[e].slug = <<"pr", m>>  BY <4>1 DEF Refs
      <4>3. envs[e].slug # s  BY <4>1, <1>3 DEF FindPreview
      <4>4. NamespaceOf(e) = NamespaceFor(pr, <<"pr", m>>)  BY <4>1, <4>2 DEF NamespaceOf
      <4>5. QED  BY <4>2, <4>3, <4>4, <1>4, <1>5, NamesApart
    <3>3. QED  BY <3>1, <3>2
  <2>2. QED  BY <2>1, <1>3 DEF SlugIsFree, CalmFit, HomeStands
<1>7. PICK e \in Unborn : /\ CreateEnvironment(e, pr, s, "preview")
                          /\ envCall' = [envCall EXCEPT ![q].at = "namespace", ![q].e = e]
  BY <1>2, <1>6 DEF PreviewRow
<1>8. e \in EnvIds /\ ~envs[e].born
  <2>1. PICK left : left = {x \in EnvIds : ~envs[x].born}  OBVIOUS
  <2>2. left # {} /\ e = CHOOSE x \in left : TRUE  BY <2>1 DEF Unborn
  <2>3. e \in left  BY <2>2
  <2>4. QED  BY <2>1, <2>3
<1>9. e \notin Rows /\ e # Home  BY <1>8, HomeIsThere DEF CalmFit, RowsAreOurs, HomeStands, Rows
<1>10. PICK r : r = [NoEnv EXCEPT !.on = TRUE, !.born = TRUE, !.project = pr, !.slug = s, !.kind = "preview"]  OBVIOUS
<1>11. envs' = [envs EXCEPT ![e] = r]  BY <1>7, <1>10 DEF CreateEnvironment
<1>12. r.on /\ r.born /\ r.project = pr /\ r.slug = s /\ r.kind = "preview" /\ r.fresh  BY <1>10 DEF NoEnv
<1>13. envs'[e] = r /\ \A x \in EnvIds \ {e} : envs'[x] = envs[x]  BY <1>8, <1>11 DEF EnvShape
<1>14. Rows' = Rows \cup {e}  BY <1>8, <1>12, <1>13 DEF Rows
<1>15. HomeStands' /\ envs'[Home] = envs[Home]  BY <1>1, <1>9, <1>13, HomeIsThere DEF CalmFit, HomeStands
<1>16. RowsAreOurs'
  <2>1. \A x \in EnvIds : envs'[x].fresh /\ (envs'[x].on => envs'[x].born)  BY <1>12, <1>13 DEF CalmFit, RowsAreOurs
  <2>2. \A x \in Rows' \ {Home} : envs'[x].kind = "preview" /\ envs'[x].project = envs'[Home].project /\ envs'[x].slug \in Refs
    BY <1>3, <1>12, <1>13, <1>14, <1>15 DEF CalmFit, RowsAreOurs, Rows
  <2>3. \A x \in Rows \ {Home} : envs[x].slug # s  BY <1>3 DEF CalmFit, RowsAreOurs, FindPreview
  <2>4. \A d, x \in Rows' \ {Home} : envs'[d].slug = envs'[x].slug => d = x
    BY <2>3, <1>12, <1>13, <1>14 DEF CalmFit, RowsAreOurs, Rows
  <2>5. QED  BY <2>1, <2>2, <2>4 DEF RowsAreOurs
<1>17. PICK c : c = [envCall[q] EXCEPT !.at = "namespace", !.e = e]  OBVIOUS
<1>18. envCall' = [envCall EXCEPT ![q] = c]  BY <1>7, <1>17
<1>19. c.kind = "preview" /\ c.at = "namespace" /\ c.project = pr  BY <1>1, <1>2, <1>17 DEF EnvCallType
<1>20. NoOtherCall(q)  BY <1>1, OneIsOnly DEF CalmFit
<1>21. EnvCallFits(c)'  BY <1>3, <1>15, <1>19 DEF EnvCallFits
<1>22. OneEnvCall' /\ \A x \in EnvCallers : EnvCallFits(envCall[x])'  BY <1>18, <1>20, <1>21, CallTurns
<1>23. ASSUME NEW p \in Pulls  PROVE Settled(p)' <=> Settled(p)
  <2>1. (Making(p) <=> s = Ref(p)) /\ ~Removing(p)  BY <1>1, <1>2, <1>20, NoOtherCallIs
  <2>2. ~Making(p)' /\ ~Removing(p)'  BY <1>18, <1>19, <1>20, CallTurns
  <2>3. CASE s = Ref(p)
    <3>1. e \in PreviewsOf(p)'  BY <2>3, <1>3, <1>12, <1>13, <1>14, <1>15 DEF PreviewsOf, FindPreview, Ref
    <3>2. QED  BY <3>1, <2>1, <2>2, <2>3 DEF Settled
  <2>4. CASE s # Ref(p)
    <3>1. PreviewsOf(p)' = PreviewsOf(p)  BY <2>4, <1>12, <1>13, <1>14, <1>15, <1>9 DEF PreviewsOf, FindPreview, Ref, Rows
    <3>2. QED  BY <3>1, <2>1, <2>2, <2>4 DEF Settled
  <2>5. QED  BY <2>3, <2>4
<1>24. LastTells' /\ NoneTells' /\ MailIsWhole'  BY <1>1, <1>23, TellsStay DEF CalmFit
<1>25. QED  BY <1>15, <1>16, <1>22, <1>24 DEF CalmFit

LEMMA DeleteNamespaceCalm == ASSUME EnvShape, CalmFit, NEW q \in EnvCallers, NEW no, DeleteNamespaceOf(q, no)  PROVE CalmFit'
<1>1. PICK x \in envCall[q].left : envCall' = [envCall EXCEPT ![q].left = @ \ {x}, ![q].e = x.e]
  BY DEF DeleteNamespaceOf
<1>2. envCall[q].at = "namespaces" /\ envCall[q] \in EnvCallType /\ EnvCallFits(envCall[q])
      /\ UNCHANGED <<projects, envs, pull, hooks, mail, pass>> /\ envCall[q].kind # "preview"
  BY DEF DeleteNamespaceOf, EnvAt, EnvShape, CalmFit
<1>3. envCall[q].kind = "cleanup" /\ envCall[q].project = envs[Home].project
      /\ \A y \in envCall[q].left : y.e \in FindPreview(envCall[q].project, envCall[q].slug)
  BY <1>2 DEF EnvCallFits
<1>4. PICK l : l = envCall[q].left \ {x}  OBVIOUS
<1>5. PICK c : c = [envCall[q] EXCEPT !.left = l, !.e = x.e]  OBVIOUS
<1>6. envCall' = [envCall EXCEPT ![q] = c]  BY <1>1, <1>4, <1>5
<1>7. c.kind = "cleanup" /\ c.at = "namespaces" /\ c.project = envCall[q].project /\ c.slug = envCall[q].slug
      /\ c.e = x.e /\ c.left = l
  BY <1>2, <1>3, <1>5 DEF EnvCallType
<1>8. RowsStand  BY <1>2, AllFresh DEF RowsStand
<1>9. /\ HomeStands' /\ RowsAreOurs' /\ envs'[Home].project = envs[Home].project
      /\ \A pr, s : FindPreview(pr, s)' = FindPreview(pr, s)
  BY <1>8, Standing DEF CalmFit
<1>10. NoOtherCall(q)  BY <1>2, OneIsOnly DEF CalmFit
<1>11. EnvCallFits(c)'  BY <1>1, <1>3, <1>4, <1>7, <1>9 DEF EnvCallFits
<1>12. OneEnvCall' /\ \A y \in EnvCallers : EnvCallFits(envCall[y])'  BY <1>6, <1>10, <1>11, CallTurns
<1>13. ASSUME NEW p \in Pulls  PROVE Settled(p)' <=> Settled(p)
  <2>1. ~Making(p) /\ (Removing(p) <=> envCall[q].slug = Ref(p))  BY <1>2, <1>3, <1>10, NoOtherCallIs
  <2>2. ~Making(p)' /\ (Removing(p)' <=> envCall[q].slug = Ref(p))
    <3>1. ~Making(p)'  BY <1>6, <1>7, <1>10, CallTurns
    <3>2. Removing(p)' <=> c.kind = "cleanup" /\ c.at = "namespaces" /\ c.slug = Ref(p)  BY <1>6, <1>10, CallTurns
    <3>3. QED  BY <3>1, <3>2, <1>7
  <2>3. PreviewsOf(p)' = PreviewsOf(p)  BY <1>9 DEF PreviewsOf, Ref
  <2>4. QED  BY <2>1, <2>2, <2>3 DEF Settled
<1>14. LastTells' /\ NoneTells' /\ MailIsWhole'  BY <1>2, <1>13, TellsStay DEF CalmFit
<1>15. QED  BY <1>9, <1>12, <1>14 DEF CalmFit

LEMMA DeleteRowsCalm == ASSUME EnvShape, CalmFit, NEW q \in EnvCallers, DeleteRows(q)  PROVE CalmFit'
<1>1. envCall[q].at = "namespaces" /\ envCall[q] \in EnvCallType /\ EnvCallFits(envCall[q])
      /\ UNCHANGED <<pull, hooks, mail, pass>> /\ envCall[q].kind # "preview"
  BY DEF DeleteRows, EnvAt, EnvShape, CalmFit
<1>2. PICK pr, s, e : pr = envCall[q].project /\ s = envCall[q].slug /\ e = envCall[q].e  OBVIOUS
<1>3. envCall[q].kind = "cleanup" /\ pr = envs[Home].project /\ e \in FindPreview(pr, s)
  BY <1>1, <1>2 DEF EnvCallFits
<1>4. UNCHANGED projects /\ DeleteEnvironment({e}) /\ envCall' = [envCall EXCEPT ![q] = NoEnvCall]
  BY <1>2, <1>3 DEF DeleteRows, EnvEnds
<1>5. e \in Rows /\ e \in EnvIds /\ e # Home /\ envs[e].slug = s  BY <1>3, HomeIsThere DEF FindPreview, Rows, CalmFit, HomeStands
<1>6. PICK r : r = [NoEnv EXCEPT !.born = TRUE]  OBVIOUS
<1>7. ~r.on /\ r.fresh  BY <1>6 DEF NoEnv
<1>8. envs'[e] = r /\ \A x \in EnvIds \ {e} : envs'[x] = envs[x]  BY <1>4, <1>5, <1>6 DEF DeleteEnvironment
<1>9. Rows' = Rows \ {e}  BY <1>7, <1>8 DEF Rows
<1>10. HomeStands' /\ envs'[Home] = envs[Home]  BY <1>1, <1>4, <1>5, <1>8, HomeIsThere DEF CalmFit, HomeStands
<1>11. RowsAreOurs'
  <2>1. \A x \in EnvIds : envs'[x].fresh /\ (envs'[x].on => envs'[x].born)  BY <1>7, <1>8 DEF CalmFit, RowsAreOurs
  <2>2. \A x \in Rows' \ {Home} : envs'[x].kind = "preview" /\ envs'[x].project = envs'[Home].project /\ envs'[x].slug \in Refs
    BY <1>8, <1>9, <1>10 DEF CalmFit, RowsAreOurs, Rows
  <2>3. \A d, x \in Rows' \ {Home} : envs'[d].slug = envs'[x].slug => d = x
    BY <1>8, <1>9 DEF CalmFit, RowsAreOurs, Rows
  <2>4. QED  BY <2>1, <2>2, <2>3 DEF RowsAreOurs
<1>12. NoOtherCall(q)  BY <1>1, OneIsOnly DEF CalmFit
<1>13. NoEnvCall.at = "off"  BY DEF NoEnvCall
<1>14. EnvCallFits(NoEnvCall)'  BY <1>13 DEF EnvCallFits
<1>15. OneEnvCall' /\ \A x \in EnvCallers : EnvCallFits(envCall[x])'  BY <1>4, <1>12, <1>14, CallTurns
<1>16. ASSUME NEW p \in Pulls  PROVE Settled(p)' <=> Settled(p)
  <2>1. ~Making(p) /\ (Removing(p) <=> s = Ref(p))  BY <1>1, <1>2, <1>3, <1>12, NoOtherCallIs
  <2>2. ~Making(p)' /\ ~Removing(p)'  BY <1>4, <1>12, <1>13, CallTurns
  <2>3. CASE s = Ref(p)
    <3>1. \A x \in Rows \ {Home} : envs[x].slug = s => x = e  BY <1>5 DEF CalmFit, RowsAreOurs
    <3>2. PreviewsOf(p)' = {}
      <4>1. ASSUME NEW x \in PreviewsOf(p)'  PROVE FALSE
        <5>1. x \in Rows' /\ envs'[x].kind = "preview" /\ envs'[x].slug = s  BY <4>1, <2>3 DEF PreviewsOf, FindPreview, Ref
        <5>2. x \in Rows /\ x # e /\ envs[x].kind = "preview" /\ envs[x].slug = s  BY <5>1, <1>8, <1>9 DEF Rows
        <5>3. x # Home  BY <5>2 DEF CalmFit, HomeStands
        <5>4. QED  BY <5>2, <5>3, <3>1
      <4>2. QED  BY <4>1
    <3>3. QED  BY <3>2, <2>1, <2>2, <2>3 DEF Settled
  <2>4. CASE s # Ref(p)
    <3>1. PreviewsOf(p)' = PreviewsOf(p)  BY <2>4, <1>5, <1>8, <1>9, <1>10 DEF PreviewsOf, FindPreview, Ref, Rows
    <3>2. QED  BY <3>1, <2>1, <2>2, <2>4 DEF Settled
  <2>5. QED  BY <2>3, <2>4
<1>17. LastTells' /\ NoneTells' /\ MailIsWhole'  BY <1>1, <1>16, TellsStay DEF CalmFit
<1>18. QED  BY <1>10, <1>11, <1>15, <1>17 DEF CalmFit

\* What the host says of a turn is how the pull request then is.
LEMMA TurnTells ==
    ASSUME EnvShape, NEW p \in Pulls, HostActs(p)
    PROVE  \E action \in Actions, to \in {"open", "closed"} :
              /\ Send(p, action) /\ pull' = [pull EXCEPT ![p] = to]
              /\ UNCHANGED <<projects, envs, hooks, envCall, pass>>
              /\ EventKind(Payload(p, action)) = "opened" => to = "open"
              /\ EventKind(Payload(p, action)) = "closed" => to = "closed"
              /\ EventKind(Payload(p, action)) \notin {"opened", "closed"} => (to = "open" <=> pull[p] = "open")
<1>0. emix.host \in {"github", "gitlab", "gitea"}  BY DEF EnvShape, EnvMixType
<1>1. \A a : EventKind(Payload(p, a)) = CASE a = "push" -> "push"
                                         [] a = "branchDeleted" -> "deleted"
                                         [] a \in IF emix.host = "gitlab" THEN {"open", "reopen", "update"}
                                                  ELSE {"opened", "reopened", "synchronize"} -> "opened"
                                         [] a \in IF emix.host = "gitlab" THEN {"close", "merge"} ELSE {"closed"} -> "closed"
                                         [] OTHER -> "unsupported"
  BY <1>0 DEF EventKind, Payload, ParseGitHub, ParseGitLab
<1>2. EventKind(Payload(p, Opened)) = "opened" /\ EventKind(Payload(p, Updated)) = "opened"
      /\ EventKind(Payload(p, Closed)) = "closed"
  BY <1>0, <1>1 DEF Opened, Updated, Closed
<1>3. EventKind(Payload(p, "push")) = "push" /\ EventKind(Payload(p, "labeled")) = "unsupported"
      /\ EventKind(Payload(p, "branchDeleted")) = "deleted"
  BY <1>0, <1>1
<1>4. {Opened, Updated, Closed, "push", "labeled", "branchDeleted"} \subseteq Actions
  BY DEF Opened, Updated, Closed, Actions
<1>5. ASSUME NEW from, NEW to, NEW action, HostTurn(p, from, to, action)
      PROVE  Send(p, action) /\ pull' = [pull EXCEPT ![p] = to] /\ pull[p] \in from
             /\ UNCHANGED <<projects, envs, hooks, envCall, pass>>
  BY <1>5 DEF HostTurn
<1>6. CASE HostTurn(p, {"new", "closed"}, "open", Opened)  BY <1>2, <1>4, <1>5, <1>6
<1>7. CASE HostTurn(p, {"open"}, "open", Updated)  BY <1>2, <1>4, <1>5, <1>7
<1>8. CASE HostTurn(p, {"open"}, "open", "push")  BY <1>3, <1>4, <1>5, <1>8
<1>9. CASE HostTurn(p, {"open"}, "open", "labeled")  BY <1>3, <1>4, <1>5, <1>9
<1>10. CASE HostTurn(p, {"open"}, "closed", Closed)  BY <1>2, <1>4, <1>5, <1>10
<1>11. CASE HostTurn(p, {"closed"}, "closed", "branchDeleted")  BY <1>3, <1>4, <1>5, <1>11
<1>12. QED  BY <1>6, <1>7, <1>8, <1>9, <1>10, <1>11 DEF HostActs

LEMMA HostCalm == ASSUME OneNumberEach, EnvShape, CalmFit, NEW p \in Pulls, HostActs(p)  PROVE CalmFit'
<1>1. PICK action \in Actions, to \in {"open", "closed"} :
              /\ Send(p, action) /\ pull' = [pull EXCEPT ![p] = to]
              /\ UNCHANGED <<projects, envs, hooks, envCall, pass>>
              /\ EventKind(Payload(p, action)) = "opened" => to = "open"
              /\ EventKind(Payload(p, action)) = "closed" => to = "closed"
              /\ EventKind(Payload(p, action)) \notin {"opened", "closed"} => (to = "open" <=> pull[p] = "open")
  BY TurnTells
<1>2. hooks = 1  BY DEF CalmFit, HomeStands
<1>3. PICK m : m = Payload(p, action)  OBVIOUS
<1>4. Len(mail) \in Nat  BY DEF EnvShape
<1>5. Len(mail') = Len(mail) + 1 /\ mail'[Len(mail) + 1] = m /\ \A j \in 1..Len(mail) : mail'[j] = mail[j]
  <2>1. PICK n \in 0..2 : /\ (hooks = 1 => n = 1) /\ Len(mail') = Len(mail) + n
                          /\ \A j \in 1..Len(mail) : mail'[j] = mail[j]
                          /\ \A j \in (Len(mail) + 1)..(Len(mail) + n) : mail'[j] = m
    BY <1>1, <1>3, SendFits
  <2>2. QED  BY <2>1, <1>2, <1>4
<1>6. m.number = p.number /\ m.signed  BY <1>3 DEF Payload
<1>7. pull'[p] = to /\ \A x \in Pulls \ {p} : pull'[x] = pull[x]  BY <1>1 DEF EnvShape
<1>8. \A x \in Pulls : Tells(m, x) => x = p  BY <1>6 DEF OneNumberEach, Tells
<1>9. Tells(m, p) => (pull'[p] = "open" <=> EventKind(m) = "opened")  BY <1>1, <1>3, <1>7 DEF Tells
<1>10. \A x \in Pulls : ~Tells(m, x) => (pull'[x] = "open" <=> pull[x] = "open")
  BY <1>1, <1>3, <1>6, <1>7 DEF Tells
<1>11. HomeStands' /\ RowsAreOurs' /\ OneEnvCall' /\ \A q \in EnvCallers : EnvCallFits(envCall[q])'
  BY <1>1 DEF CalmFit, HomeStands, RowsAreOurs, OneEnvCall, EnvCallFits, FindPreview, Rows
<1>12. \A x \in Pulls : Settled(x)' <=> Settled(x)
  BY <1>1 DEF Settled, Making, Removing, PreviewsOf, FindPreview, Rows, EnvAt, Ref
<1>13. LastTells'
  <2> SUFFICES ASSUME NEW x \in Pulls, NEW i \in 1..Len(mail'), Tells(mail'[i], x),
                      \A j \in (i + 1)..Len(mail') : ~Tells(mail'[j], x)
               PROVE  pull'[x] = "open" <=> EventKind(mail'[i]) = "opened"
    BY DEF LastTells, Tells, EventKind, ParseGitHub, ParseGitLab
  <2>1. CASE i = Len(mail) + 1
    <3>1. mail'[i] = m  BY <2>1, <1>5
    <3>2. x = p  BY <3>1, <1>8
    <3>3. QED  BY <3>1, <3>2, <1>9
  <2>2. CASE i # Len(mail) + 1
    <3>1. i \in 1..Len(mail) /\ mail'[i] = mail[i]  BY <2>2, <1>4, <1>5
    <3>2. Len(mail) + 1 \in (i + 1)..Len(mail')  BY <3>1, <1>4, <1>5
    <3>3. ~Tells(m, x)  BY <3>2, <1>5
    <3>4. \A j \in (i + 1)..Len(mail) : j \in (i + 1)..Len(mail') /\ mail'[j] = mail[j]  BY <3>1, <1>4, <1>5
    <3>5. \A j \in (i + 1)..Len(mail) : ~Tells(mail[j], x)  BY <3>4
    <3>6. Tells(mail[i], x)  BY <3>1
    <3>7. pull[x] = "open" <=> EventKind(mail[i]) = "opened"  BY <3>1, <3>5, <3>6 DEF CalmFit, LastTells
    <3>8. QED  BY <3>1, <3>3, <3>7, <1>10
  <2>3. QED  BY <2>1, <2>2
<1>14. NoneTells'
  <2> SUFFICES ASSUME NEW x \in Pulls, \A i \in 1..Len(mail') : ~Tells(mail'[i], x)
               PROVE  pull'[x] = "open" <=> Settled(x)'
    BY DEF NoneTells, Tells, EventKind, ParseGitHub, ParseGitLab
  <2>1. Len(mail) + 1 \in 1..Len(mail') /\ 1..Len(mail) \subseteq 1..Len(mail')  BY <1>4, <1>5
  <2>2. ~Tells(m, x) /\ \A i \in 1..Len(mail) : ~Tells(mail[i], x)  BY <2>1, <1>5
  <2>3. pull[x] = "open" <=> Settled(x)  BY <2>2 DEF CalmFit, NoneTells
  <2>4. QED  BY <2>2, <2>3, <1>10, <1>12
<1>15. MailIsWhole'
  <2>1. ASSUME NEW i \in 1..Len(mail')  PROVE mail'[i].signed
    <3>1. i = Len(mail) + 1 \/ i \in 1..Len(mail)  BY <1>4, <1>5
    <3>2. QED  BY <3>1, <1>5, <1>6 DEF CalmFit, MailIsWhole
  <2>2. QED  BY <2>1 DEF MailIsWhole
<1>16. QED  BY <1>11, <1>13, <1>14, <1>15 DEF CalmFit

\* The first delivery is taken while nothing is in progress, and starts a preview's call or none.
LEMMA ReceiveIs ==
    ASSUME EnvShape, Calm, CalmFit, NEW q \in EnvCallers, NEW i \in 1..Len(mail), Receive(q, i)
    PROVE  /\ i = 1 /\ (\A r \in EnvCallers : envCall[r].at = "off") /\ UNCHANGED <<projects, envs, pull, hooks, pass>>
           /\ \/ UNCHANGED envCall /\ EventKind(mail[1]) = "unsupported"
              \/ envCall' = [envCall EXCEPT ![q] = Dispatch(ParseWebhook(mail[1]), Home)]
<1>1. i = 1 /\ EnvQuiet /\ UNCHANGED <<projects, envs, pull, hooks, pass>>  BY DEF Receive, MayBegin, Calm
<1>2. \A r \in EnvCallers : envCall[r].at = "off"  BY <1>1 DEF EnvQuiet
<1>3. SourceEnvs = {Home}
  <2>1. Home \in SourceEnvs  BY HomeIsThere DEF SourceEnvs, Rows, CalmFit, HomeStands
  <2>2. ASSUME NEW s \in SourceEnvs  PROVE s = Home  BY <2>2 DEF SourceEnvs, CalmFit, RowsAreOurs
  <2>3. QED  BY <2>1, <2>2
<1>4. VerifyWebhook(mail[1])  BY <1>1 DEF VerifyWebhook, CalmFit, MailIsWhole
<1>5. CASE EventKind(mail[1]) = "unsupported"  BY <1>1, <1>2, <1>5 DEF Receive, Acceptable
<1>6. CASE EventKind(mail[1]) # "unsupported"
  <2>1. Acceptable(mail[1])  BY <1>4, <1>6 DEF Acceptable
  <2>2. PICK s \in SourceEnvs : envCall' = [envCall EXCEPT ![q] = Dispatch(ParseWebhook(mail[1]), s)]
    BY <1>1, <1>3, <2>1 DEF Receive
  <2>3. QED  BY <1>1, <1>2, <1>3, <2>2
<1>7. QED  BY <1>5, <1>6

\* What it starts, told by its event: nothing but an opened one makes, nothing but a closed one removes.
LEMMA DispatchTells ==
    ASSUME EnvShape, CalmFit, NEW m \in MailType, NEW d, d = Dispatch(ParseWebhook(m), Home)
    PROVE  /\ EnvCallFits(d)
           /\ \A p : /\ d.kind = "preview" /\ d.at = "row" /\ d.slug = Ref(p)
                        <=> EventKind(m) = "opened" /\ m.number = p.number /\ PreviewsOf(p) = {}
                     /\ d.kind = "cleanup" /\ d.at = "namespaces" /\ d.slug = Ref(p)
                        <=> EventKind(m) = "closed" /\ m.number = p.number /\ PreviewsOf(p) # {}
<1>1. PICK ev \in EventType : ev = ParseWebhook(m)  BY ParseFits
<1>2. ev.kind = EventKind(m) /\ ev.number = m.number  BY <1>1, ParseFits
<1>3. There(ev, Home) = FindPreview(envs[Home].project, PreviewRef(ev))  BY DEF There
<1>4. There(ev, Home) # {} => First(There(ev, Home)) \in There(ev, Home)  BY DEF First
<1>5. ev.number \in Numbers  BY DEF EventType
<1>6. ev.kind \in {"opened", "closed"} => PreviewRef(ev) = <<"pr", m.number>> /\ PreviewRef(ev) \in Refs
  BY <1>2, <1>5 DEF PreviewRef, Refs
<1>7. ev.kind \in {"opened", "closed"} => \A p : (PreviewRef(ev) = Ref(p) <=> m.number = p.number)
  BY <1>6 DEF Ref
<1>8. ev.kind \in {"opened", "closed"} => \A p : m.number = p.number => PreviewsOf(p) = There(ev, Home)
  BY <1>3, <1>6 DEF PreviewsOf, Ref
<1>9. ev.kind = "deleted" => There(ev, Home) = {}
  <2>1. SUFFICES ASSUME ev.kind = "deleted", NEW x \in There(ev, Home)  PROVE FALSE  OBVIOUS
  <2>2. x \in Rows /\ envs[x].slug = <<"branch", "">> /\ envs[x].kind = "preview"  BY <1>3, <2>1 DEF FindPreview, PreviewRef
  <2>3. x # Home  BY <2>2 DEF CalmFit, HomeStands
  <2>4. envs[x].slug \in Refs  BY <2>2, <2>3 DEF CalmFit, RowsAreOurs
  <2>5. PICK n \in Numbers : <<"branch", "">> = <<"pr", n>>  BY <2>2, <2>4 DEF Refs
  <2>6. <<"branch", "">>[1] = "branch" /\ <<"pr", n>>[1] = "pr"  OBVIOUS
  <2>7. QED  BY <2>5, <2>6
<1>10. Home \in EnvIds  BY HomeIsThere
<1>11. CASE ev.kind = "push"
  <2>1. d = [kind |-> "preview", at |-> "pushed", e |-> First(There(ev, Home)), project |-> envs[Home].project, slug |-> PreviewRef(ev),
             level |-> "none", event |-> {ev}, left |-> {}]
    BY <1>1, <1>3, <1>4, <1>10, <1>11, DispatchIs
  <2>2. d.kind = "preview" /\ d.at = "pushed" /\ d.project = envs[Home].project  BY <2>1
  <2>3. QED  BY <1>2, <1>11, <2>2 DEF EnvCallFits
<1>12. CASE ev.kind = "opened" /\ There(ev, Home) = {}
  <2>1. d = [kind |-> "preview", at |-> "row", e |-> First(There(ev, Home)), project |-> envs[Home].project, slug |-> PreviewRef(ev),
             level |-> "none", event |-> {ev}, left |-> {}]
    BY <1>1, <1>3, <1>4, <1>10, <1>12, DispatchIs
  <2>2. d.kind = "preview" /\ d.at = "row" /\ d.project = envs[Home].project /\ d.slug = PreviewRef(ev)  BY <2>1
  <2>3. EnvCallFits(d)  BY <1>3, <1>6, <1>12, <2>2 DEF EnvCallFits
  <2>4. \A p : d.slug = Ref(p) <=> m.number = p.number /\ PreviewsOf(p) = {}  BY <1>7, <1>8, <1>12, <2>2
  <2>5. QED  BY <1>2, <1>12, <2>2, <2>3, <2>4
<1>13. CASE ev.kind = "opened" /\ There(ev, Home) # {}
  <2>1. d = [kind |-> "preview", at |-> "app", e |-> First(There(ev, Home)), project |-> envs[Home].project, slug |-> PreviewRef(ev),
             level |-> "none", event |-> {ev}, left |-> {}]
    BY <1>1, <1>3, <1>4, <1>10, <1>13, DispatchIs
  <2>2. d.kind = "preview" /\ d.at = "app" /\ d.project = envs[Home].project  BY <2>1
  <2>3. EnvCallFits(d)  BY <2>2 DEF EnvCallFits
  <2>4. \A p : m.number = p.number => PreviewsOf(p) # {}  BY <1>8, <1>13
  <2>5. QED  BY <1>2, <1>13, <2>2, <2>3, <2>4
<1>14. CASE ev.kind \in {"closed", "deleted"} /\ There(ev, Home) # {}
  <2>1. d = [kind |-> "cleanup", at |-> "namespaces", e |-> First(There(ev, Home)), project |-> envs[Home].project, slug |-> PreviewRef(ev),
             level |-> "none", event |-> {ev}, left |-> Read(There(ev, Home))]
    BY <1>1, <1>3, <1>4, <1>10, <1>14, DispatchIs
  <2>2. d.kind = "cleanup" /\ d.at = "namespaces" /\ d.project = envs[Home].project /\ d.slug = PreviewRef(ev)
        /\ d.e = First(There(ev, Home)) /\ d.left = Read(There(ev, Home))
    BY <2>1
  <2>3. First(There(ev, Home)) \in There(ev, Home)  BY <1>4, <1>14
  <2>4. \A x \in Read(There(ev, Home)) : x.e \in There(ev, Home)  BY DEF Read
  <2>5. EnvCallFits(d)  BY <1>3, <2>2, <2>3, <2>4 DEF EnvCallFits
  <2>6. ev.kind = "closed"  BY <1>9, <1>14
  <2>7. \A p : d.slug = Ref(p) <=> m.number = p.number /\ PreviewsOf(p) # {}  BY <1>7, <1>8, <1>14, <2>2, <2>6
  <2>8. QED  BY <1>2, <2>2, <2>5, <2>6, <2>7
<1>15. CASE ev.kind \notin {"push", "opened", "closed", "deleted"} \/ (ev.kind \in {"closed", "deleted"} /\ There(ev, Home) = {})
  <2>1. d = NoEnvCall  BY <1>1, <1>3, <1>4, <1>10, <1>15, DispatchIs
  <2>2. d.at = "off"  BY <2>1 DEF NoEnvCall
  <2>3. ev.kind = "closed" => \A p : m.number = p.number => PreviewsOf(p) = {}  BY <1>8, <1>15
  <2>4. QED  BY <1>2, <1>15, <2>2, <2>3 DEF EnvCallFits
<1>16. QED  BY <1>11, <1>12, <1>13, <1>14, <1>15

LEMMA ReceiveCalm ==
    ASSUME OneNumberEach, EnvShape, Calm, CalmFit, NEW q \in EnvCallers, NEW i \in 1..Len(mail), Receive(q, i)
    PROVE  CalmFit'
<1>1. i = 1 /\ (\A r \in EnvCallers : envCall[r].at = "off") /\ UNCHANGED <<projects, envs, pull, hooks, pass>>
  BY ReceiveIs
<1>2. \/ UNCHANGED envCall /\ EventKind(mail[1]) = "unsupported"
      \/ envCall' = [envCall EXCEPT ![q] = Dispatch(ParseWebhook(mail[1]), Home)]
  BY ReceiveIs
<1>3. Len(mail) \in Nat /\ mail[1] \in MailType  BY <1>1 DEF EnvShape
<1>4. PICK m \in MailType : m = mail[1]  BY <1>3
<1>5. mail' = Without(1)  BY <1>1 DEF Receive
<1>6. Len(mail') = Len(mail) - 1 /\ \A j \in 1..Len(mail') : mail'[j] = mail[j + 1] /\ j + 1 \in 1..Len(mail)
  BY <1>1, <1>3, <1>5, WithoutFits
<1>7. HomeStands' /\ RowsAreOurs' /\ \A p : PreviewsOf(p)' = PreviewsOf(p)
  BY <1>1 DEF CalmFit, HomeStands, RowsAreOurs, PreviewsOf, FindPreview, Rows, Ref
<1>8. NoOtherCall(q) /\ \A p : ~Making(p) /\ ~Removing(p)  BY <1>1 DEF NoOtherCall, Making, Removing, EnvAt
<1>9. /\ OneEnvCall' /\ \A r \in EnvCallers : EnvCallFits(envCall[r])'
      /\ \A p : /\ Making(p)' <=> EventKind(m) = "opened" /\ m.number = p.number /\ PreviewsOf(p) = {}
                /\ Removing(p)' <=> EventKind(m) = "closed" /\ m.number = p.number /\ PreviewsOf(p) # {}
  <2>1. CASE UNCHANGED envCall /\ EventKind(mail[1]) = "unsupported"
    <3>1. OneEnvCall' /\ \A r \in EnvCallers : EnvCallFits(envCall[r])'
      BY <1>1, <2>1 DEF OneEnvCall, EnvCallFits
    <3>2. \A p : ~Making(p)' /\ ~Removing(p)'  BY <1>1, <2>1 DEF Making, Removing, EnvAt
    <3>3. EventKind(m) = "unsupported"  BY <1>4, <2>1
    <3>4. QED  BY <3>1, <3>2, <3>3
  <2>2. CASE envCall' = [envCall EXCEPT ![q] = Dispatch(ParseWebhook(mail[1]), Home)]
    <3>1. PICK d : d = Dispatch(ParseWebhook(m), Home)  OBVIOUS
    <3>2. envCall' = [envCall EXCEPT ![q] = d]  BY <1>4, <2>2, <3>1
    <3>3. EnvCallFits(d)  BY <3>1, DispatchTells
    <3>4. EnvCallFits(d)'  BY <1>1, <3>3 DEF EnvCallFits, FindPreview, Rows
    <3>5. OneEnvCall' /\ \A r \in EnvCallers : EnvCallFits(envCall[r])'  BY <1>8, <3>2, <3>4, CallTurns
    <3>6. ASSUME NEW p
          PROVE  /\ Making(p)' <=> EventKind(m) = "opened" /\ m.number = p.number /\ PreviewsOf(p) = {}
                 /\ Removing(p)' <=> EventKind(m) = "closed" /\ m.number = p.number /\ PreviewsOf(p) # {}
      <4>1. Making(p)' <=> d.kind = "preview" /\ d.at = "row" /\ d.slug = Ref(p)  BY <1>8, <3>2, CallTurns
      <4>2. Removing(p)' <=> d.kind = "cleanup" /\ d.at = "namespaces" /\ d.slug = Ref(p)  BY <1>8, <3>2, CallTurns
      <4>3. d.kind = "preview" /\ d.at = "row" /\ d.slug = Ref(p)
               <=> EventKind(m) = "opened" /\ m.number = p.number /\ PreviewsOf(p) = {}
        BY <3>1, DispatchTells
      <4>4. d.kind = "cleanup" /\ d.at = "namespaces" /\ d.slug = Ref(p)
               <=> EventKind(m) = "closed" /\ m.number = p.number /\ PreviewsOf(p) # {}
        BY <3>1, DispatchTells
      <4>5. QED  BY <4>1, <4>2, <4>3, <4>4
    <3>7. QED  BY <3>5, <3>6
  <2>3. QED  BY <1>2, <2>1, <2>2
<1>10. LastTells'
  <2> SUFFICES ASSUME NEW x \in Pulls, NEW k \in 1..Len(mail'), Tells(mail'[k], x),
                      \A j \in (k + 1)..Len(mail') : ~Tells(mail'[j], x)
               PROVE  pull'[x] = "open" <=> EventKind(mail'[k]) = "opened"
    BY DEF LastTells, Tells, EventKind, ParseGitHub, ParseGitLab
  <2>1. k + 1 \in 1..Len(mail) /\ Tells(mail[k + 1], x) /\ mail'[k] = mail[k + 1]  BY <1>6
  <2>2. \A j \in (k + 2)..Len(mail) : j - 1 \in (k + 1)..Len(mail') /\ j - 1 \in 1..Len(mail') /\ (j - 1) + 1 = j
    BY <1>3, <1>6, <2>1
  <2>3. \A j \in (k + 2)..Len(mail) : mail'[j - 1] = mail[j]  BY <1>6, <2>2
  <2>4. \A j \in ((k + 1) + 1)..Len(mail) : ~Tells(mail[j], x)  BY <2>2, <2>3
  <2>5. pull[x] = "open" <=> EventKind(mail[k + 1]) = "opened"  BY <2>1, <2>4 DEF CalmFit, LastTells
  <2>6. QED  BY <1>1, <2>1, <2>5
<1>11. NoneTells'
  <2> SUFFICES ASSUME NEW x \in Pulls, \A k \in 1..Len(mail') : ~Tells(mail'[k], x)
               PROVE  pull'[x] = "open" <=> Settled(x)'
    BY DEF NoneTells, Tells, EventKind, ParseGitHub, ParseGitLab
  <2>1. \A j \in 2..Len(mail) : j - 1 \in 1..Len(mail') /\ (j - 1) + 1 = j  BY <1>3, <1>6
  <2>2. \A j \in 2..Len(mail) : mail'[j - 1] = mail[j]  BY <1>6, <2>1
  <2>3. \A j \in 2..Len(mail) : ~Tells(mail[j], x)  BY <2>1, <2>2
  <2>4. Settled(x)' <=> Making(x)' \/ (PreviewsOf(x) # {} /\ ~Removing(x)')  BY <1>7 DEF Settled
  <2>5. CASE Tells(m, x)
    <3>1. pull[x] = "open" <=> EventKind(m) = "opened"
      <4>1. 1 \in 1..Len(mail) /\ Tells(mail[1], x) /\ \A j \in (1 + 1)..Len(mail) : ~Tells(mail[j], x)
        BY <1>1, <1>4, <2>3, <2>5
      <4>2. QED  BY <4>1, <1>4 DEF CalmFit, LastTells
    <3>2. m.number = x.number /\ EventKind(m) \in {"opened", "closed"}  BY <2>5 DEF Tells
    <3>3. QED  BY <1>1, <1>9, <2>4, <3>1, <3>2
  <2>6. CASE ~Tells(m, x)
    <3>1. \A j \in 1..Len(mail) : j = 1 \/ j \in 2..Len(mail)  BY <1>3
    <3>2. \A j \in 1..Len(mail) : ~Tells(mail[j], x)  BY <1>4, <2>3, <2>6, <3>1
    <3>3. pull[x] = "open" <=> Settled(x)  BY <3>2 DEF CalmFit, NoneTells
    <3>4. Settled(x) <=> PreviewsOf(x) # {}  BY <1>8 DEF Settled
    <3>5. ~Making(x)' /\ ~Removing(x)'  BY <1>9, <2>6 DEF Tells
    <3>6. QED  BY <1>1, <2>4, <3>3, <3>4, <3>5
  <2>7. QED  BY <2>5, <2>6
<1>12. MailIsWhole'
  <2>1. \A k \in 1..Len(mail') : mail'[k].signed  BY <1>6 DEF CalmFit, MailIsWhole
  <2>2. QED  BY <2>1 DEF MailIsWhole
<1>13. QED  BY <1>7, <1>9, <1>10, <1>11, <1>12 DEF CalmFit

\* Nobody asks, nothing grows old, and the watcher finds nothing.
LEMMA CalmStep == ASSUME OneNumberEach, EnvShape, Calm, CalmFit, EnvNext, Calm'  PROVE CalmFit'
<1>0. emix \in EnvMixType  BY DEF EnvShape
<1>1. ASSUME NEW q \in EnvCallers, NEW c \in EnvRequests, EnvBegin(q, c)  PROVE FALSE  BY <1>1 DEF EnvBegin, Calm
<1>2. ASSUME NEW e \in EnvIds, Age(e)  PROVE FALSE  BY <1>2 DEF Age, Calm
<1>3. ASSUME Watch  PROVE FALSE
  <2>1. StalePreviewEnvironments = {}  BY DEF StalePreviewEnvironments, Rows, CalmFit, RowsAreOurs
  <2>2. pass.at = "off"  BY DEF CalmFit, HomeStands
  <2>3. QED  BY <1>3, <2>1, <2>2 DEF Watch, ReclaimPreviews, ReclaimOne
<1>4. ASSUME NEW i \in 1..Len(mail), MailFault(i)  PROVE FALSE
  <2>1. emix' = [emix EXCEPT !.faults = (@ \ {"lose", "repeat", "secret"}) \cup {"struck"}]  BY <1>4 DEF MailFault
  <2>2. "struck" \in emix'.faults  BY <2>1, <1>0 DEF EnvMixType
  <2>3. QED  BY <2>2 DEF Calm
<1>5. ASSUME NEW q \in EnvCallers, EnvHandle(q)  PROVE CalmFit'
  <2>1. envCall[q].at # "off" => envCall[q].kind \in {"preview", "cleanup"}  BY DEF CalmFit, EnvCallFits
  <2>2. ~CreateProject(q) /\ ~CreateEnvironmentRow(q) /\ ~UpdateLevel(q) /\ ~ListEnvironments(q)
        /\ ~EnsureWebhook(q) /\ ~PostHook(q) /\ \A no : ~ApplyNamespace(q, no)
    BY <2>1 DEF CreateProject, CreateEnvironmentRow, UpdateLevel, ListEnvironments, EnsureWebhook, PostHook,
                ApplyNamespace, EnvAt
  <2>3. CASE DeleteRows(q)  BY <2>3, DeleteRowsCalm
  <2>4. CASE PreviewRow(q)  BY <2>4, PreviewRowCalm
  <2>5. CASE PreviewApp(q)  BY <2>5, PreviewAppCalm
  <2>6. CASE Pushed(q)  BY <2>6, PushedCalm
  <2>7. ASSUME NEW no, DeleteNamespaceOf(q, no) \/ PreviewNamespace(q, no) \/ PreviewDeploy(q, no)  PROVE CalmFit'
    BY <2>7, DeleteNamespaceCalm, PreviewNamespaceCalm, PreviewDeployCalm
  <2>8. QED  BY <1>5, <2>2, <2>3, <2>4, <2>5, <2>6, <2>7 DEF EnvHandle
<1>6. QED  BY <1>1, <1>2, <1>3, <1>4, <1>5, HostCalm, ReceiveCalm DEF EnvNext

LEMMA CalmStarts == EnvInit /\ Calm => CalmFit
<1> SUFFICES ASSUME EnvInit, Calm  PROVE CalmFit  OBVIOUS
<1>1. emix.kinds = {}  BY DEF Calm
<1>2. pull = [p \in Pulls |-> "new"] /\ mail = <<>> /\ envCall = [q \in EnvCallers |-> NoEnvCall] /\ pass.at = "off" /\ hooks = 1
  BY <1>1 DEF EnvInit
<1>3. PICK p \in {x \in ProjectSlugs : Len(x) = 1}, e \in {CHOOSE x \in EnvIds : TRUE} :
            /\ projects = {p}
            /\ envs = [x \in EnvIds |-> IF x = e THEN [NoEnv EXCEPT !.on = TRUE, !.born = TRUE, !.project = p,
                                                            !.slug = <<"production">>] ELSE NoEnv]
  BY <1>1, Zenon DEF EnvInit
<1>4. e = Home /\ Home \in EnvIds  BY HomeIsThere DEF Home
<1>5. PICK r : r = [NoEnv EXCEPT !.on = TRUE, !.born = TRUE, !.project = p, !.slug = <<"production">>]  OBVIOUS
<1>6. r.on /\ r.born /\ r.project = p /\ r.slug = <<"production">> /\ r.kind = "standard" /\ r.fresh  BY <1>5 DEF NoEnv
<1>7. envs[Home] = r /\ \A x \in EnvIds \ {Home} : envs[x] = NoEnv  BY <1>3, <1>4, <1>5
<1>8. ~NoEnv.on /\ NoEnv.fresh /\ NoEnvCall.at = "off"  BY DEF NoEnv, NoEnvCall
<1>9. Rows = {Home}  BY <1>4, <1>6, <1>7, <1>8 DEF Rows
<1>10. HomeStands
  <2>1. p \in projects  BY <1>3
  <2>2. QED  BY <1>2, <1>6, <1>7, <2>1 DEF HomeStands
<1>11. RowsAreOurs  BY <1>6, <1>7, <1>8, <1>9 DEF RowsAreOurs
<1>12. \A q \in EnvCallers : envCall[q].at = "off"  BY <1>2, <1>8
<1>13. OneEnvCall /\ \A q \in EnvCallers : EnvCallFits(envCall[q])  BY <1>12 DEF OneEnvCall, EnvCallFits
<1>14. ASSUME NEW x \in Pulls  PROVE ~Settled(x) /\ pull[x] # "open"
  <2>1. PreviewsOf(x) = {}  BY <1>6, <1>7, <1>9 DEF PreviewsOf, FindPreview
  <2>2. ~Making(x)  BY <1>12 DEF Making, EnvAt
  <2>3. QED  BY <1>2, <2>1, <2>2 DEF Settled
<1>15. LastTells /\ NoneTells /\ MailIsWhole  BY <1>2, <1>14 DEF LastTells, NoneTells, MailIsWhole
<1>16. QED  BY <1>10, <1>11, <1>13, <1>15 DEF CalmFit

LEMMA CalmMatches == EnvShape /\ (Calm => CalmFit) => PreviewsMatchPulls
<1> SUFFICES ASSUME EnvShape, Calm => CalmFit, EnvQuiet, mail = <<>>, ~emix.overlap, emix.kinds = {},
                    emix.faults \subseteq {"repeat"}, NEW s \in SourceEnvs, NEW p \in Pulls
             PROVE  pull[p] = "open" <=> FindPreview(envs[s].project, <<"pr", p.number>>) # {}
  BY DEF PreviewsMatchPulls
<1>1. CalmFit  BY DEF Calm
<1>2. s = Home  BY <1>1 DEF SourceEnvs, CalmFit, RowsAreOurs
<1>3. pull[p] = "open" <=> Settled(p)  BY <1>1 DEF CalmFit, NoneTells
<1>4. ~Making(p) /\ ~Removing(p)  BY DEF EnvQuiet, Making, Removing, EnvAt
<1>5. QED  BY <1>2, <1>3, <1>4 DEF Settled, PreviewsOf, Ref

(* Nothing having gone wrong with the deliveries of a host whose pull      *)
(* requests have a number each, there is, once they have been handled, a   *)
(* preview for each open pull request and for no other                     *)
(* (dispatchGitEvent, deployPreview, cleanupPreviewFor), and none of a     *)
(* fork holds a secret: for every number of pull requests, of rows and of  *)
(* deliveries on their way.                                                *)
THEOREM PreviewsAreRightAlways == OneNumberEach => (EnvSpec => []PreviewsAreRight)
<1> SUFFICES ASSUME OneNumberEach  PROVE EnvSpec => []PreviewsAreRight  OBVIOUS
<1>1. EnvInit => EnvInv  BY EnvShapeStarts, CalmStarts DEF EnvInv
<1>2. EnvInv /\ [EnvNext]_envVars => EnvInv'
  <2> SUFFICES ASSUME EnvInv, [EnvNext]_envVars  PROVE EnvInv'  OBVIOUS
  <2>1. EnvShape /\ EnvShape'  BY EnvShapeStep DEF EnvInv
  <2>2. ASSUME Calm'  PROVE CalmFit'
    <3>1. Calm /\ CalmFit  BY <2>1, <2>2, CalmStays DEF EnvInv
    <3>2. CASE EnvNext  BY <2>1, <2>2, <3>1, <3>2, CalmStep
    <3>3. CASE UNCHANGED envVars
      <4>1. UNCHANGED <<projects, envs, hooks, pass, envCall, mail, pull>>  BY <3>3 DEF envVars
      <4>2. HomeStands' /\ RowsAreOurs'  BY <3>1, <4>1 DEF CalmFit, HomeStands, RowsAreOurs, Rows
      <4>3. OneEnvCall' /\ \A q \in EnvCallers : EnvCallFits(envCall[q])'
        BY <3>1, <4>1 DEF CalmFit, OneEnvCall, EnvCallFits, FindPreview, Rows
      <4>4. \A p \in Pulls : Settled(p)' <=> Settled(p)
        BY <4>1 DEF Settled, Making, Removing, PreviewsOf, FindPreview, Rows, EnvAt, Ref
      <4>5. LastTells' /\ NoneTells' /\ MailIsWhole'  BY <3>1, <4>1, <4>4, TellsStay DEF CalmFit
      <4>6. QED  BY <4>2, <4>3, <4>5 DEF CalmFit
    <3>4. QED  BY <3>2, <3>3
  <2>3. QED  BY <2>1, <2>2 DEF EnvInv
<1>3. EnvInv => PreviewsAreRight  BY ForksByTypes, CalmMatches DEF EnvInv, PreviewsAreRight
<1>4. QED  BY <1>1, <1>2, <1>3, PTL DEF EnvSpec
=============================================================================
