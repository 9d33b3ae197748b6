---------------------------- MODULE Environments ----------------------------
(***************************************************************************)
(* Projects, environments and their namespaces (api/teams_handlers.go,     *)
(* store/teams.go, kube/namespace.go), and the preview environments that   *)
(* webhooks make and remove (api/webhook_handlers.go, gitsrc/webhook.go,   *)
(* gitsrc/hooks.go) and that the watcher reclaims (watch/watch.go).  A     *)
(* delivery may be lost, late or repeated; every call to the cluster may   *)
(* fail and is then logged, reported or taken for the end of the request.  *)
(***************************************************************************)
EXTENDS Naturals, Sequences, FiniteSets

CONSTANTS
    ProjectSlugs, \* projects, by slug; a slug is a sequence of words
    EnvSlugs,     \* environments people make, by slug
    EnvIds,       \* environment rows; an id is used once
    EnvCallers,   \* requests that may be in progress at once
    Pulls,        \* pull requests: their repository, number and head
    MaxMail,      \* deliveries that may be on their way
    EnvMixes      \* what a behaviour meets

EnvKinds == {"createProject", "deleteProject", "createEnv", "updateEnv", "deleteEnv", "hook"}
EnvFaults == {"lose", "repeat", "reorder", "secret", "age", "struck"}
ASSUME EnvMixesAssumption ==
    EnvMixes \subseteq [kinds : SUBSET EnvKinds, faults : SUBSET EnvFaults, refusals : Nat,
                        overlap : BOOLEAN, asks : Nat, events : Nat, host : {"github", "gitlab", "gitea"},
                        shared : SUBSET {"sharedPlain", "sharedSecret"}]
\* A repository numbers its pull requests, and the slug of a project is made of words.
ASSUME EnvNamesAssumption ==
    /\ EnvIds # {} /\ ProjectSlugs \subseteq Seq(STRING)
    /\ \A p, x \in Pulls : p.repo = x.repo /\ p.number = x.number => p = x

VARIABLES
    projects,   \* the rows of projects
    envs,       \* envs[e]: the environment's row, and the preview apps in it
    namespaces, \* namespaces[n]: its objects in the cluster, the level it enforces among them
    pull,       \* pull[p]: what the host knows of it
    hooks,      \* webhooks registered on the host
    mail,       \* deliveries on their way
    envCall,    \* envCall[q]: a request in progress
    pass,       \* the watcher's pass over stale previews
    unapplied,  \* history: environments whose last EnsureNamespace failed
    leaked,     \* history: namespaces that could not be deleted
    envAsked, emix

envVars == <<projects, envs, namespaces, pull, hooks, mail, envCall, pass, unapplied, leaked, envAsked, emix>>

Nowhere == <<>>
NoEnv == [on |-> FALSE, born |-> FALSE, project |-> Nowhere, slug |-> Nowhere, kind |-> "standard",
          level |-> "restricted", fresh |-> TRUE, deployed |-> FALSE, apps |-> {}]
NoEnvCall == [kind |-> "none", at |-> "off", e |-> "none", project |-> Nowhere, slug |-> Nowhere,
              level |-> "none", event |-> {}, left |-> {}]

\* The team's and the project's slug and the environment's, joined: words run together.
NamespaceFor(project, slug) == project \o slug
NamespaceOf(e) == NamespaceFor(envs[e].project, envs[e].slug)
Names == {NamespaceFor(p, s) : p \in ProjectSlugs, s \in EnvSlugs \cup {<<"pr", x.number>> : x \in Pulls}}

Rows == {e \in EnvIds : envs[e].on}
FindPreview(project, ref) ==
    {e \in Rows : envs[e].kind = "preview" /\ envs[e].project = project /\ envs[e].slug = ref}
EnvQuiet == (\A q \in EnvCallers : envCall[q].at = "off") /\ pass.at = "off"

EnvGo(q, where) == envCall' = [envCall EXCEPT ![q].at = where]
EnvEnds(q) == envCall' = [envCall EXCEPT ![q] = NoEnvCall]
EnvAt(q, kinds, where) == envCall[q].kind \in kinds /\ envCall[q].at = where

\* Callers are alike: without overlap one of them is enough.
MayBegin(q) == envCall[q].at = "off" /\ (~emix.overlap => EnvQuiet /\ q = CHOOSE x \in EnvCallers : TRUE)

\* A call to the cluster is refused at most so often.
Refused(no) == no /\ emix.refusals > 0 /\ emix' = [emix EXCEPT !.refusals = @ - 1]
Answered(no) == ~no /\ UNCHANGED emix

-----------------------------------------------------------------------------
(* Namespaces.                                                             *)

\* The objects of a namespace, in the order they are applied.
BuildNamespace(level) == [kind |-> "namespace", enforce |-> level]
BuildLimitRange == [kind |-> "limits", default |-> 512, request |-> 128]
BuildResourceQuota == [kind |-> "quota", loadbalancers |-> 0, nodeports |-> 0]
DefaultDeny == [kind |-> "deny", from |-> {}, to |-> {}]
\* From the ingress, the panel, KEDA and the namespace itself; to DNS, itself and public addresses.
AllowIngressAndEgress == [kind |-> "allow", from |-> {"kube-system", "system", "keda", "own"}, to |-> {"dns", "own", "public"}]
BuildNetworkPolicies == <<DefaultDeny, AllowIngressAndEgress>>
NamespaceObjects(level) == <<BuildNamespace(level), BuildLimitRange, BuildResourceQuota>> \o BuildNetworkPolicies
WholeNamespace(level) == {NamespaceObjects(level)[i] : i \in 1..5}

\* ApplyAll ends at the first that fails: n of them are there, over what there was.
EnsureNamespace(ns, level, n) ==
    LET done == {NamespaceObjects(level)[i] : i \in 1..n}
    IN  namespaces' = [namespaces EXCEPT ![ns] = done \cup {x \in @ : \A y \in done : x.kind # y.kind}]
DeleteNamespace(n) == namespaces' = [namespaces EXCEPT ![n] = {}]

\* CreateEnvironment: a slug is free in its project, a namespace everywhere.
SlugIsFree(project, slug) == \A e \in Rows : NamespaceOf(e) # NamespaceFor(project, slug)
CreateEnvironment(e, project, slug, kind) ==
    envs' = [envs EXCEPT ![e] = [NoEnv EXCEPT !.on = TRUE, !.born = TRUE, !.project = project,
                                              !.slug = slug, !.kind = kind]]
DeleteEnvironment(es) == envs' = [e \in EnvIds |-> IF e \in es THEN [NoEnv EXCEPT !.born = TRUE] ELSE envs[e]]
\* The next id.
Unborn == LET left == {e \in EnvIds : ~envs[e].born} IN IF left = {} THEN {} ELSE {CHOOSE e \in left : TRUE}
SetEnvironmentPodSecurity(e, level) ==
    envs' = IF envs[e].on THEN [envs EXCEPT ![e].level = level] ELSE envs

EnvInit ==
    /\ emix \in EnvMixes
    /\ IF "createProject" \in emix.kinds
       THEN /\ projects = {} /\ envs = [e \in EnvIds |-> NoEnv] /\ namespaces = [n \in Names |-> {}]
       ELSE \E p \in {x \in ProjectSlugs : Len(x) = 1}, e \in {CHOOSE x \in EnvIds : TRUE} :
              /\ projects = {p}
              /\ envs = [x \in EnvIds |-> IF x = e THEN [NoEnv EXCEPT !.on = TRUE, !.born = TRUE, !.project = p,
                                                              !.slug = <<"production">>] ELSE NoEnv]
              /\ namespaces = [n \in Names |-> IF n = NamespaceFor(p, <<"production">>) THEN WholeNamespace("restricted") ELSE {}]
    /\ pull = [p \in Pulls |-> "new"] /\ mail = <<>>
    /\ hooks = IF "hook" \in emix.kinds THEN 0 ELSE 1
    /\ envCall = [q \in EnvCallers |-> NoEnvCall] /\ pass = [at |-> "off", left |-> {}]
    /\ unapplied = {} /\ leaked = {} /\ envAsked = 0

\* Each handler's first step and what it read.
HandleCreateProject ==
    {[NoEnvCall EXCEPT !.kind = "createProject", !.at = "project", !.project = p, !.slug = <<"production">>] :
        p \in ProjectSlugs \ projects}
HandleCreateEnvironment ==
    {[NoEnvCall EXCEPT !.kind = "createEnv", !.at = "row", !.project = p, !.slug = s] : p \in projects, s \in EnvSlugs}
HandleDeleteProject == {[NoEnvCall EXCEPT !.kind = "deleteProject", !.at = "list", !.project = p] : p \in projects}
HandleUpdateEnvironment ==
    {[NoEnvCall EXCEPT !.kind = "updateEnv", !.at = "level", !.e = e, !.project = envs[e].project,
         !.slug = envs[e].slug, !.level = l] : e \in Rows, l \in {"restricted", "baseline"}}
HandleDeleteEnvironment ==
    {[NoEnvCall EXCEPT !.kind = "deleteEnv", !.at = "namespaces", !.left = {[e |-> e, n |-> NamespaceOf(e)]}] : e \in Rows}
EnsureWebhookFor == {[NoEnvCall EXCEPT !.kind = "hook", !.at = "list"]}
EnvRequests == HandleCreateProject \cup HandleCreateEnvironment \cup HandleDeleteProject
               \cup HandleUpdateEnvironment \cup HandleDeleteEnvironment \cup EnsureWebhookFor

EnvBegin(q, c) ==
    /\ MayBegin(q) /\ c.kind \in emix.kinds /\ envAsked < emix.asks
    /\ envCall' = [envCall EXCEPT ![q] = c] /\ envAsked' = envAsked + 1
    /\ UNCHANGED <<projects, envs, namespaces, pull, hooks, mail, pass, unapplied, leaked, emix>>

-----------------------------------------------------------------------------
(* Projects and environments.                                              *)

CreateProject(q) ==
    LET p == envCall[q].project
    IN  /\ EnvAt(q, {"createProject"}, "project")
        /\ projects' = projects \cup {p}
        /\ IF p \in projects THEN EnvEnds(q) ELSE EnvGo(q, "row")
        /\ UNCHANGED <<envs, namespaces, pull, hooks, mail, pass, unapplied, leaked, envAsked, emix>>

\* The row; refused when its namespace is another environment's, and the project stays.
CreateEnvironmentRow(q) ==
    LET c == envCall[q]
    IN  /\ EnvAt(q, {"createProject", "createEnv"}, "row")
        /\ IF SlugIsFree(c.project, c.slug) /\ c.project \in projects
           THEN \E e \in Unborn : /\ CreateEnvironment(e, c.project, c.slug, "standard")
                                  /\ envCall' = [envCall EXCEPT ![q].at = "namespace", ![q].e = e,
                                                                ![q].level = "restricted"]
           ELSE EnvEnds(q) /\ UNCHANGED envs
        /\ UNCHANGED <<projects, namespaces, pull, hooks, mail, pass, unapplied, leaked, envAsked, emix>>

\* handleUpdateEnvironment: the row, and then the namespace with the level just saved.
UpdateLevel_ReadEarlier(q) ==  \* mutant: the environment is applied as it was read
    LET c == envCall[q]
    IN  /\ EnvAt(q, {"updateEnv"}, "level")
        /\ SetEnvironmentPodSecurity(c.e, c.level)
        /\ envCall' = IF envs[c.e].on THEN [envCall EXCEPT ![q].at = "namespace", ![q].level = envs[c.e].level]
                      ELSE [envCall EXCEPT ![q] = NoEnvCall]
        /\ UNCHANGED <<projects, namespaces, pull, hooks, mail, pass, unapplied, leaked, envAsked, emix>>
UpdateLevel(q) ==
    LET c == envCall[q]
    IN  /\ EnvAt(q, {"updateEnv"}, "level")
        /\ SetEnvironmentPodSecurity(c.e, c.level)
        /\ IF envs[c.e].on THEN EnvGo(q, "namespace") ELSE EnvEnds(q)
        /\ UNCHANGED <<projects, namespaces, pull, hooks, mail, pass, unapplied, leaked, envAsked, emix>>

\* A failure is logged when the environment is made and reported when its level is changed.
ApplyNamespace(q, no) ==
    LET c == envCall[q]
    IN  /\ EnvAt(q, {"createProject", "createEnv", "updateEnv"}, "namespace")
        /\ \/ /\ Refused(no) /\ unapplied' = unapplied \cup {c.e}
              /\ \E n \in {0, 1, 4} : EnsureNamespace(NamespaceFor(c.project, c.slug), c.level, n)
           \/ /\ Answered(no) /\ unapplied' = unapplied \ {c.e}
              /\ EnsureNamespace(NamespaceFor(c.project, c.slug), c.level, 5)
        /\ EnvEnds(q)
        /\ UNCHANGED <<projects, envs, pull, hooks, mail, pass, leaked, envAsked>>

\* What a deletion goes by: the rows as they were read, each with its namespace.
Read(es) == {[e |-> e, n |-> NamespaceOf(e)] : e \in es}

\* handleDeleteProject lists its environments first.
ListEnvironments(q) ==
    /\ EnvAt(q, {"deleteProject"}, "list")
    /\ envCall' = [envCall EXCEPT ![q].at = "namespaces",
                      ![q].left = Read({e \in Rows : envs[e].project = envCall[q].project})]
    /\ UNCHANGED <<projects, envs, namespaces, pull, hooks, mail, pass, unapplied, leaked, envAsked, emix>>

\* A namespace that cannot be deleted is logged, and its row goes all the same.
DeleteNamespaceOf(q, no) ==
    /\ EnvAt(q, {"deleteProject", "deleteEnv", "cleanup"}, "namespaces")
    /\ \E x \in envCall[q].left :
          /\ \/ Answered(no) /\ DeleteNamespace(x.n) /\ leaked' = leaked \ {x.n}
             \/ Refused(no) /\ leaked' = leaked \cup {x.n} /\ UNCHANGED namespaces
          /\ envCall' = [envCall EXCEPT ![q].left = @ \ {x}, ![q].e = x.e]
    /\ UNCHANGED <<projects, envs, pull, hooks, mail, pass, unapplied, envAsked>>

\* DeleteProject takes its environments with it, DeleteEnvironment what runs in it.
DeleteRows(q) ==
    LET c == envCall[q]
    IN  /\ EnvAt(q, {"deleteProject", "deleteEnv", "cleanup"}, "namespaces") /\ c.left = {}
        /\ projects' = IF c.kind = "deleteProject" THEN projects \ {c.project} ELSE projects
        /\ DeleteEnvironment(IF c.kind = "deleteProject" THEN {e \in Rows : envs[e].project = c.project} ELSE {c.e})
        /\ EnvEnds(q)
        /\ UNCHANGED <<namespaces, pull, hooks, mail, pass, unapplied, leaked, envAsked, emix>>

-----------------------------------------------------------------------------
(* The Git host.                                                           *)

\* EnsureWebhook: asks for the hooks there are, and adds one; GitHub takes no second.
EnsureWebhook(q) ==
    /\ EnvAt(q, {"hook"}, "list")
    /\ IF hooks > 0 THEN EnvEnds(q) ELSE EnvGo(q, "post")
    /\ UNCHANGED <<projects, envs, namespaces, pull, hooks, mail, pass, unapplied, leaked, envAsked, emix>>
PostHook(q) ==
    /\ EnvAt(q, {"hook"}, "post")
    /\ hooks' = IF emix.host = "github" THEN 1 ELSE hooks + 1
    /\ EnvEnds(q)
    /\ UNCHANGED <<projects, envs, namespaces, pull, mail, pass, unapplied, leaked, envAsked, emix>>

\* What a host sends.  GitHub names both repositories, GitLab numbers both projects.
Payload(p, action) ==
    [host |-> emix.host, action |-> action, repo |-> p.repo, number |-> p.number,
     head |-> p.head, base |-> p.repo, signed |-> TRUE]
Send(p, action) ==
    LET n == IF hooks = 0 THEN 0 ELSE IF hooks > 1 THEN 2 ELSE 1
    IN  mail' = mail \o [i \in 1..n |-> Payload(p, action)]
HostTurn(p, from, to, action) ==
    /\ emix.events > 0 /\ Len(mail) + 2 <= MaxMail /\ pull[p] \in from
    /\ pull' = [pull EXCEPT ![p] = to]
    /\ Send(p, action)
    /\ emix' = [emix EXCEPT !.events = @ - 1]
    /\ UNCHANGED <<projects, envs, namespaces, hooks, envCall, pass, unapplied, leaked, envAsked>>
Opened == IF emix.host = "gitlab" THEN "open" ELSE "opened"
Updated == IF emix.host = "gitlab" THEN "update" ELSE "synchronize"
Closed == IF emix.host = "gitlab" THEN "merge" ELSE "closed"
HostActs(p) ==
    \/ HostTurn(p, {"new", "closed"}, "open", Opened)
    \/ HostTurn(p, {"open"}, "open", Updated)
    \/ HostTurn(p, {"open"}, "open", "push")
    \/ HostTurn(p, {"open"}, "open", "labeled")
    \/ HostTurn(p, {"open"}, "closed", Closed)
    \/ HostTurn(p, {"closed"}, "closed", "branchDeleted")

\* Deliveries go missing, come twice, or carry a signature by an older secret.
Without(i) == SubSeq(mail, 1, i - 1) \o SubSeq(mail, i + 1, Len(mail))
MailFault(i) ==
    /\ \/ "lose" \in emix.faults /\ mail' = Without(i)
       \/ "repeat" \in emix.faults /\ Len(mail) < MaxMail /\ mail' = Append(mail, mail[i])
       \/ "secret" \in emix.faults /\ mail[i].signed /\ mail' = [mail EXCEPT ![i].signed = FALSE]
    /\ emix' = [emix EXCEPT !.faults = (@ \ {"lose", "repeat", "secret"}) \cup {"struck"}]
    /\ UNCHANGED <<projects, envs, namespaces, pull, hooks, envCall, pass, unapplied, leaked, envAsked>>

-----------------------------------------------------------------------------
(* Webhooks.                                                               *)

\* What each host calls its events; Gitea's are GitHub's.
ParseGitHub(m) ==
    CASE m.action = "push" -> "push"
      [] m.action = "branchDeleted" -> "deleted"
      [] m.action \in {"opened", "reopened", "synchronize"} -> "opened"
      [] m.action = "closed" -> "closed"
      [] OTHER -> "unsupported"
ParseGitLab(m) ==
    CASE m.action = "push" -> "push"
      [] m.action = "branchDeleted" -> "deleted"
      [] m.action \in {"open", "reopen", "update"} -> "opened"
      [] m.action \in {"close", "merge"} -> "closed"
      [] OTHER -> "unsupported"
EventKind(m) == IF m.host = "gitlab" THEN ParseGitLab(m) ELSE ParseGitHub(m)
\* A head that is not named, a repository since deleted, counts as a fork.
IsFork_Named(m) == m.head # "" /\ m.head # m.base  \* mutant: one that is not named is taken for our own
IsFork(m) == m.head = "" \/ m.base = "" \/ m.head # m.base
ParseWebhook(m) == [kind |-> EventKind(m), repo |-> m.repo, number |-> m.number, fork |-> IsFork(m)]

\* A pull request has a number, a push has none.
PreviewRef_Branch(ev) ==  \* mutant: a closed pull request is looked for by its branch
    IF ev.kind = "opened" THEN <<"pr", ev.number>> ELSE <<"branch", "">>
PreviewRef(ev) == IF ev.kind \in {"opened", "closed"} THEN <<"pr", ev.number>> ELSE <<"branch", "">>

\* The apps of the repository: one in production, with previews on, and its previews.
SourceEnvs == {e \in Rows : envs[e].kind = "standard" /\ envs[e].slug = <<"production">>}
AppIn(e, repo) == {x \in envs[e].apps : x.repo = repo}

VerifyWebhook(m) == m.signed
Acceptable(m) == VerifyWebhook(m) /\ EventKind(m) # "unsupported"
\* What dispatchGitEvent starts for the first app that matches.
Dispatch(ev, s) ==
    LET ref == PreviewRef(ev)
        there == FindPreview(envs[s].project, ref)
        c == [NoEnvCall EXCEPT !.kind = "preview", !.project = envs[s].project, !.slug = ref,
                               !.event = {ev}, !.e = IF there = {} THEN "none" ELSE CHOOSE e \in there : TRUE]
    IN  CASE ev.kind = "push" -> [c EXCEPT !.at = "pushed"]
          [] ev.kind = "opened" -> [c EXCEPT !.at = IF there = {} THEN "row" ELSE "app"]
          [] ev.kind \in {"closed", "deleted"} /\ there # {} ->
                [c EXCEPT !.kind = "cleanup", !.at = "namespaces", !.left = Read(there)]
          [] OTHER -> NoEnvCall
Receive(q, i) ==
    /\ MayBegin(q)
    /\ i = 1 \/ "reorder" \in emix.faults
    /\ mail' = Without(i)
    /\ IF ~Acceptable(mail[i]) \/ SourceEnvs = {} THEN UNCHANGED envCall
       ELSE \E s \in SourceEnvs : envCall' = [envCall EXCEPT ![q] = Dispatch(ParseWebhook(mail[i]), s)]
    /\ UNCHANGED <<projects, envs, namespaces, pull, hooks, pass, unapplied, leaked, envAsked, emix>>

\* deployPreview, when there is no environment yet: its row, then its namespace or nothing more.
PreviewRow(q) ==
    LET c == envCall[q]
    IN  /\ EnvAt(q, {"preview"}, "row")
        /\ IF SlugIsFree(c.project, c.slug) /\ c.project \in projects
           THEN \E e \in Unborn : /\ CreateEnvironment(e, c.project, c.slug, "preview")
                                  /\ envCall' = [envCall EXCEPT ![q].at = "namespace", ![q].e = e]
           ELSE EnvEnds(q) /\ UNCHANGED envs
        /\ UNCHANGED <<projects, namespaces, pull, hooks, mail, pass, unapplied, leaked, envAsked, emix>>

PreviewNamespace(q, no) ==
    LET c == envCall[q]
    IN  /\ EnvAt(q, {"preview"}, "namespace")
        /\ \/ /\ Refused(no) /\ unapplied' = unapplied \cup {c.e} /\ EnvEnds(q)
              /\ \E n \in {0, 1, 4} : EnsureNamespace(NamespaceFor(c.project, c.slug), "restricted", n)
           \/ /\ Answered(no) /\ EnsureNamespace(NamespaceFor(c.project, c.slug), "restricted", 5)
              /\ unapplied' = unapplied \ {c.e} /\ EnvGo(q, "app")
        /\ UNCHANGED <<projects, envs, pull, hooks, mail, pass, leaked, envAsked>>

\* A copy of the app, once; copyPreviewVariables leaves a fork without the secrets.
Copied(fork) == IF fork THEN {"plain"} ELSE {"plain", "secret"}
PreviewApp(q) ==
    LET c == envCall[q]
        ev == CHOOSE x \in c.event : TRUE
        new == {[repo |-> ev.repo, vars |-> Copied(ev.fork), number |-> ev.number]}
    IN  /\ EnvAt(q, {"preview"}, "app")
        /\ envs' = IF ~envs[c.e].on \/ AppIn(c.e, ev.repo) # {} THEN envs
                   ELSE [envs EXCEPT ![c.e].apps = @ \cup new]
        /\ IF envs[c.e].on THEN EnvGo(q, "deploy") ELSE EnvEnds(q)
        /\ UNCHANGED <<projects, namespaces, pull, hooks, mail, pass, unapplied, leaked, envAsked, emix>>

\* What a deployment gives an app: its own variables and the project's shared ones.
PreviewVariables(x) == x.vars \cup emix.shared
SecretOnes == {"secret", "sharedSecret"}

\* A push deploys the previews that watch the branch.
Pushed(q) ==
    LET ev == CHOOSE x \in envCall[q].event : TRUE
        watching == {e \in Rows : envs[e].kind = "preview" /\ \E x \in AppIn(e, ev.repo) : x.number = ev.number}
    IN  /\ EnvAt(q, {"preview"}, "pushed")
        /\ IF watching = {} THEN EnvEnds(q)
           ELSE \E e \in watching : envCall' = [envCall EXCEPT ![q].at = "deploy", ![q].e = e]
        /\ UNCHANGED <<projects, envs, namespaces, pull, hooks, mail, pass, unapplied, leaked, envAsked, emix>>

\* The deployment's row makes the preview fresh; its apply begins with the namespace.
PreviewDeploy(q, no) ==
    LET e == envCall[q].e
    IN  /\ EnvAt(q, {"preview"}, "deploy")
        /\ envs' = IF envs[e].on THEN [envs EXCEPT ![e].fresh = TRUE, ![e].deployed = TRUE] ELSE envs
        /\ \/ ~envs[e].on /\ ~no /\ UNCHANGED <<namespaces, unapplied, emix>>
           \/ envs[e].on /\ Refused(no) /\ unapplied' = unapplied \cup {e} /\ UNCHANGED namespaces
           \/ /\ envs[e].on /\ Answered(no) /\ EnsureNamespace(NamespaceOf(e), envs[e].level, 5)
              /\ unapplied' = unapplied \ {e}
        /\ EnvEnds(q)
        /\ UNCHANGED <<projects, pull, hooks, mail, pass, leaked, envAsked>>

-----------------------------------------------------------------------------
(* The watcher's pass.                                                     *)

\* More than the setting's days after its last deployment, or after its making.
StalePreviewEnvironments_Joined ==  \* mutant: only one that was deployed has a last deployment
    {e \in Rows : envs[e].kind = "preview" /\ ~envs[e].fresh /\ envs[e].deployed}
StalePreviewEnvironments == {e \in Rows : envs[e].kind = "preview" /\ ~envs[e].fresh}

Age(e) ==
    /\ "age" \in emix.faults /\ envs[e].on /\ envs[e].kind = "preview" /\ envs[e].fresh
    /\ envs' = [envs EXCEPT ![e].fresh = FALSE]
    /\ UNCHANGED <<projects, namespaces, pull, hooks, mail, envCall, pass, unapplied, leaked, envAsked, emix>>

ReclaimPreviews ==
    /\ pass.at = "off" /\ StalePreviewEnvironments # {} /\ (~emix.overlap => EnvQuiet)
    /\ pass' = [at |-> "namespaces", left |-> Read(StalePreviewEnvironments)]
    /\ UNCHANGED <<projects, envs, namespaces, pull, hooks, mail, envCall, unapplied, leaked, envAsked, emix>>

\* A row whose namespace could not be deleted is kept, for the next pass.
ReclaimOne(no) ==
    /\ pass.at = "namespaces"
    /\ \E x \in pass.left :
          LET rest == pass.left \ {x}
          IN  /\ \/ Answered(no) /\ DeleteNamespace(x.n) /\ DeleteEnvironment({x.e}) /\ leaked' = leaked \ {x.n}
                 \/ Refused(no) /\ UNCHANGED <<namespaces, envs, leaked>>
              /\ pass' = IF rest = {} THEN [at |-> "off", left |-> {}] ELSE [pass EXCEPT !.left = rest]
    /\ UNCHANGED <<projects, pull, hooks, mail, envCall, unapplied, envAsked>>

-----------------------------------------------------------------------------
EnvHandle(q) ==
    \/ CreateProject(q) \/ CreateEnvironmentRow(q) \/ UpdateLevel(q) \/ ListEnvironments(q)
    \/ DeleteRows(q) \/ EnsureWebhook(q) \/ PostHook(q) \/ PreviewRow(q) \/ PreviewApp(q) \/ Pushed(q)
    \/ \E no \in BOOLEAN : ApplyNamespace(q, no) \/ DeleteNamespaceOf(q, no)
                           \/ PreviewNamespace(q, no) \/ PreviewDeploy(q, no)
Watch == ReclaimPreviews \/ \E no \in BOOLEAN : ReclaimOne(no)

EnvNext ==
    \/ \E q \in EnvCallers : \/ \E c \in EnvRequests : EnvBegin(q, c)
                             \/ EnvHandle(q) \/ \E i \in 1..Len(mail) : Receive(q, i)
    \/ \E p \in Pulls : HostActs(p)
    \/ \E i \in 1..Len(mail) : MailFault(i)
    \/ \E e \in EnvIds : Age(e)
    \/ Watch

EnvSpec == EnvInit /\ [][EnvNext]_envVars

\* What goes on by itself: requests, passes and time.
EnvWork == Watch \/ (\E q \in EnvCallers : EnvHandle(q)) \/ (\E e \in EnvIds : Age(e))

-----------------------------------------------------------------------------
(* Properties.                                                             *)

(* Environments and namespaces go together: when nothing is in progress,   *)
(* an environment has its namespace with its limits and its policies, and  *)
(* Kubernetes enforces there the level the row says; and a namespace is    *)
(* some environment's.  Excepted are the ones whose last apply failed      *)
(* (reported, or made good by the next deployment) and the ones that could *)
(* not be deleted (logged).                                                *)
NamespacesFollowTheRows ==
    EnvQuiet /\ ~emix.overlap =>
        /\ \A e \in Rows \ unapplied : namespaces[NamespaceOf(e)] = WholeNamespace(envs[e].level)
        /\ \A n \in Names : namespaces[n] # {} => n \in leaked \/ \E e \in Rows : NamespaceOf(e) = n

(* A preview built from a fork, or from a head repository the host no      *)
(* longer names, runs without the app's secrets (copyPreviewVariables):    *)
(* what secrets it gets are the project's shared ones.                     *)
OfAFork(x) == \E p \in Pulls : p.repo = x.repo /\ p.number = x.number /\ p.head # p.repo
ForkGetsNoAppSecrets ==
    \A e \in Rows : \A x \in envs[e].apps : OfAFork(x) => PreviewVariables(x) \cap SecretOnes \subseteq emix.shared

(* "A preview built from a fork gets no secrets": not the shared ones      *)
(* either, when it is deployed.                                            *)
ForkGetsNoSecrets ==
    \A e \in Rows : \A x \in envs[e].apps :
        OfAFork(x) /\ envs[e].deployed => PreviewVariables(x) \cap SecretOnes = {}

(* Once the host's deliveries, none lost and none out of order, have been  *)
(* handled, there is a preview for each open pull request and for no       *)
(* other: a closed pull request takes its preview with it                  *)
(* (cleanupPreviewFor), and one that is opened again gets a new one.       *)
PreviewsMatchPulls ==
    EnvQuiet /\ mail = <<>> /\ ~emix.overlap /\ emix.kinds = {} /\ emix.faults \subseteq {"repeat"} =>
        \A s \in SourceEnvs, p \in Pulls :
            pull[p] = "open" <=> FindPreview(envs[s].project, <<"pr", p.number>>) # {}

(* The previews are the ones there should be, with what they should have.  *)
PreviewsAreRight == ForkGetsNoAppSecrets /\ PreviewsMatchPulls

(* Every preview goes, also when the delivery that would have removed it   *)
(* was lost, came before the one it answers, or could not be verified, and *)
(* when its namespace could not be made at first: the watcher reclaims one *)
(* that nothing has deployed to (reclaimPreviews), so again and again      *)
(* there is a time when there is no preview's row.  As long as requests    *)
(* come one after another, there is then no namespace without a row        *)
(* either, but for one whose deletion was refused: cleanupPreviewFor lets  *)
(* its row go all the same, and nothing looks for the namespace again.     *)
NoPreviews(left) ==
    /\ \A e \in EnvIds : envs[e].kind # "preview"
    /\ ~emix.overlap => \A n \in Names \ left : namespaces[n] # {} => \E e \in Rows : NamespaceOf(e) = n
EveryPreviewGoes == "age" \in emix.faults ~> NoPreviews(leaked)

(* The same without the exception: "Previews that are never cleaned up are *)
(* how a self-hosted cluster quietly runs out of memory"                   *)
(* (cleanupPreviewFor).                                                    *)
EveryNamespaceGoes == "age" \in emix.faults ~> NoPreviews({})
=============================================================================
