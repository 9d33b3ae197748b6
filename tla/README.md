# A TLA+ verification of Skifity

Skifity is a self-hosted platform: a panel (one Go process over one SQLite file)
that turns git pushes, uploads and images into apps on a k3s cluster it installs
itself, and that looks after their databases, disks, backups and images. Almost
everything it does takes minutes and happens in a goroutine nobody waits for: the
HTTP request returns at once, the work runs under a context of its own, its state
is a row, and half of it (builds, dumps, unpacking) is a Job in the cluster that
goes on whether the panel does or not. The panel may be restarted at any moment -
that is how it is upgraded.

This directory models those parts, checks them with TLC and proves the most
important results with TLAPS. `PROJECT.json` is the machine-readable index:
components, runs, mutants, the map from definitions to source lines, findings,
hazards and theorems.

1. The system and how it is cut - 2. The modules - 3. The runs - 4. What is
proved - 5. Findings - 6. Observations - 7. Plan - 8. What is not modelled -
9. Running it

## 1. The system and how it is cut

### Inventory

| Part (source) | State it keeps | Operations | Talks to | What is hard | What makes it correct |
|---|---|---|---|---|---|
| Deployer (`internal/deploy/deployer.go`, `run.go`) | `deployments` rows, `Deployer.running`, a context per deployment, the app's Deployment | Deploy, Rollback, Cancel, Sync, `run` | store, registry, cluster, plugins, hub | requests overlap; rows, contexts and the map change in separate steps; 45-minute limit; restarts | finished rows never move; a success is real; what is superseded or cancelled stays off the cluster; every deployment ends |
| Build (`deploy/build.go`, `deploy/upload.go`, `internal/builder`) | a Job and its pod, the code streamed into it | chooseBuilder, the Job's containers, waitForBuildPod, waitForJob | cluster, uploads, registry | the panel's waits and the pod's phases differ; streams are cut | only whole code is built; what was found is what is built; every build ends |
| Registry and its sweep (`cluster/registry.go`, `internal/registry`) | tags, manifests, blobs, `registryMu`, the collector Job | push, PruneRegistry, CollectRegistryGarbage | store | mark-and-sweep against pushes; Jobs outlive their goroutine; old lists | no image loses a layer; what is kept stays; a deleted app's images go |
| Apps (`api/apps_handlers.go`, `deploy_handlers.go`, `kube/manifests.go`) | app rows with variables, domains, volumes, jobs; the objects in the cluster | a handler per change, Sync | store, deployer, cluster | the row is written and the cluster follows, or not | the cluster shows the rows |
| Databases (`internal/dbsvc`) | `databases`, links, variables | Create, provision, Link, Unlink, Delete | deployer (Sync), cluster | names checked before they are taken; deletion against provisioning | a name means one thing; no variable the panel shows names a database that is gone |
| Projects, environments, previews (`api/teams_handlers.go`, `webhook_handlers.go`, `internal/gitsrc`) | projects, environments, namespaces, hooks | create, change, delete; webhook deliveries; reclaiming | git hosts, cluster, watcher | lost, late, repeated deliveries; failing calls | previews come and go with their pull request; a fork gets no secret of the app |
| Backups (`internal/backup`) | `backups` rows, the bucket, a Job each | Run, run, applyRetention | store, cluster, object storage | several at once, each with its own retention pass | what is retained is there; no object without a row |
| Volume restore (`backup/volumerestore.go`) | an operation row, the app's replica count, a Job | RestoreVolume and its seven steps | cluster, deployer | deferred undo, panics, overlaps, restarts | no pod of the app is kept running under an archive being unpacked; the app gets its size back |
| Server provisioning (`internal/provision`) | `servers`, `operations`, `operation_steps`, a running map | AddServer, RetryServer, RemoveServer, PromoteServer, Cancel, ResumeInterrupted | machines over SSH, the cluster | retries from the middle, several kinds of operation on one server, writes on an ended context | the map is exact; nobody waits for work that nobody does; a recorded node leaves before its row |
| Authentication (`internal/auth`) | users, sessions, attempts, TOTP counters, codes | Login, step-up, ChangePassword, TOTP, sessions | store | rows read before a slow hash and used after it; sessions ended one by one | a code admits once; what a new password leaves of older sessions is known; lockout holds |
| People (`api/setup.go`, `teams_handlers.go`, `invitation_handlers.go`) | accounts, teams, memberships, invitations | setup, members, invitations | store | what was checked may no longer be so | a team keeps an owner; an address comes in through one invitation |
| Secrets (`internal/crypto`, `api/settings_handlers.go`) | keyring, key file, sealed columns | seal, open, rotate, recover | store | a rotation beside writes; a stop between two steps | every stored secret opens |
| Minute tick, schedules (`internal/serverapp`, `internal/cron`, `store/retention.go`) | `last`, `pruned_at` | runScheduler, RunScheduledAt, Prune | backups, store | late ticks, clocks set back, refused lists | every minute is settled once |
| Watcher (`internal/watch`) | none; writes app, server and domain statuses | one pass a minute | store, cluster, notifications | acts on lists it read earlier | a lost server is noticed |
| Event hub and streams (`internal/events`, `api/stream_handlers.go`) | numbers, histories, a channel per subscriber | Publish, Subscribe, Close, Sweep | everything publishes; browsers read | number, history and delivery are not one step; slow browsers | each event at one place; losses counted and told; bounded memory |
| Plugins (`internal/plugins`, `cluster/pluginruntime.go`) | plugin rows, tokens, namespaces | inspect, install, update, switch, remove, ask, tell | cluster, deployer | requests of several kinds overlap; the store and the cluster refuse | a live token has its plugin, or its deletion was refused; a refusal stands |
| Notifications (`internal/notify`) | channels, SMTP settings, goroutines | Notify, test, Wait | plugins, providers | the process ends, also in the middle of an announcement; a channel changes while sending | what was handed over is told before the process ends |
| Uploads (`internal/upload`, `cli/up.go`, `cli/pack.go`) | a directory per app | pack, send, keep, prune, sweep | deployer | pruning against queued builds, two senders, cuts | the archive is what git keeps; a build gets the upload it was made for |
| Edge (`cluster/edgeguard.go`, `tunnel.go`, `internal/guard`, `internal/edgerules`) | firewall rows, ConfigMap, middlewares, tunnel token | install, save rules, refresh, reload, judge a visit | cluster, apps | rows, files and middlewares change in separate steps, a refused one is only logged; forged headers | a visit is judged as itself; the cluster is in step with the rows |

`PROJECT.json` lists every component with what is left out of it, and forty
hazards, each at the line where it bites and with the properties that would catch it.

### Conventions

* A statement on the database is one step: all writes go through one connection
  behind a mutex. What an operation does in several statements is several actions,
  with everything else in between.
* A call on a dead context has no effect. `database/sql` and client-go refuse
  it. This is why so much depends on *which* context a failure is recorded with.
* A Job in the cluster is an actor of its own. It is started by a goroutine and
  never stopped by the end of one.
* A restart takes every goroutine, request and deferred call with it and then
  runs what `internal/serverapp` runs at start-up. It is one action, because the
  listener opens only afterwards.
* A panic unwinds a goroutine at any of its steps into the `runsafe.Recover` of
  the function that started it, deferred calls included, in their order.
* Which requests and faults a behaviour meets is a constant. The modules proved
  about take sets (`Calls`, `Faults`), so that a theorem holds for all of them. The
  others take a set of *mixes*, records of the kinds of request, the faults,
  whether requests overlap and how many there are; the initial state picks one. A
  mix keeps the product of everything with everything out of TLC's way while every
  pair that matters meets in one of them.

Definitions named `X_Something` directly before `X` are mutants: what the code
would be with a plausible mistake. They are used by nothing; for every property
of a passing run one of them, put in place of `X`, makes TLC report a violation.

## 2. The modules

### What is deployed

**`Deployments`** - `deploy/deployer.go` over `store/deployments.go`. `status`,
`image`, `commit`, `spec` are the columns; `req` the requests in progress, with
what they have read; `pc`, `loaded` and `ctx` the goroutine of each deployment (a context
that was cancelled and one that expired are both "ended": `fail` tells them apart, and on either
its writes are refused);
`running` the map of the same name; `applied` what the cluster carries. Deploy is
DeployRead, CreateDeployment, SupersedeSelect, SupersedeMark (the SELECT and the
UPDATE of SupersedeRunningDeployments are separate statements), StopSuperseded,
Start; Rollback, Cancel and a settings change with its Sync are cut the same way.
`run` is the sequence RunLoad ... RunLive with FailRow and FailApp for `fail`.
Panic, Expire, a caller who disconnects, and Restart interleave with all of it, and the
database may refuse the image, the status or the end of a live run, which the code only logs. The
build is one step with three outcomes; its inside is in the next three modules.

**`Rollouts`** - the abstract specification of the deployer: versions have their turn in
the order of their numbers, one sets out when nobody is on the way, only the one on its way
gets to the cluster, its success is recorded once it is there, and nothing but a
success is put back. `RolloutsInOrder` in `Deployments` is the refinement (`INSTANCE Rollouts
WITH` turns as the deployments whose goroutine was started, heading as `OnItsWay`, version and
settings as what the cluster carries). A row that a restart finds without a goroutine
misses its turn.

**`Detect`** - from a folder to a build, as operators: what `builder/detect.go` and
`needs.go` find in a tree, what the command line and the form make of it
(`CreateUploadApp` and its like), what `chooseBuilder` and `builder/job.go` then do with that.
`request` is one look at one tree; the run enumerates the trees.

**`BuildPod`** - one build between the panel (`panel`) and its Job (`bjob`), with the
code on its way (`exec`, `code`, `marks`). Time is not counted: a wait may end by its
limit whenever what it waits for is not there. `FailedStage` names the container that
failed, or "build" when the pods could not be listed or the pod is gone.

**`Registry`** - the Job's push (layers first, the manifest last), `registryMu`
(`readers`, and a sweep that waits for there to be none), the sweep (what is worth
keeping, the tags, deletes one by one, the collector) and the collector's two
passes, which are the registry's own and marked external. A refused tag list, digest or
delete is logged and the sweep goes on; a wait for the collector that fails gives the lock
up while the collector goes on. Whether two commits
build to the same manifest is the constant `ContentOf`.

**`Uploads`** - `skifity up`. `folder` is a tree and what the ignore rules left of it,
compared with a direct definition of what git keeps; `laptop`, `uapp`, `dir`,
`builds`, `sent` follow the requests from the project file to the build that
streams the archive, with pruning to the newest few, deletion of the app, crashes
and the sweep at start-up and every hour.

**`Manifests`**, **`Apps`** - `Manifests` is the set of objects an app's
specification becomes, as operators, and what applying and removing them leaves of
what was there. An app's Secret is sent as `stringData` by server-side apply, so a variable
that is no longer named stays in the live `data` and with the app.
`Apps` has the rows (`stored`, `shared`, `setting`), the cluster,
and one request per handler: read, write, Sync read, Sync apply. `lagging` remembers
whose Sync failed, because most handlers only log that.

### What is around it

**`Databases`** - rows, links, variables; apps and databases share the names of
Services in a namespace (`service`), and what was applied last has the name.
`worker[d]` is the goroutine of provision. `urlIn` is what the panel shows of an app's
connection strings, `injected` what its Secret holds, which keeps the names dropped. A
statement of a deletion or an unlinking may be refused; the code logs it and goes on.

**`Environments`** - projects, environments and namespaces with the level they
enforce; previews from deliveries in `mail`, which may be lost, repeated and
reordered; the watcher's pass that reclaims stale ones. What a preview runs with is what
was copied from its app and the shared variables of its project. A namespace whose deletion
was refused is in `leaked`: its row goes all the same.

**`Backups`**, **`VolumeRestore`** - the row, the goroutine, the Job and the
retention pass of every backup over a bucket of locations (a location is the target
and a second, so two may share one), where the end of a backup and the deletion of a row may
be refused and only logged; runVolumeRestore step by step with its
deferred call over the Deployment's `replicas`, the `pods` it counts and the ones shutting
down (`ending`), which WaitForNoPods does not wait for.

**`Cron`**, **`Scheduler`**, **`MinuteLedger`** - schedules as operators on a
calendar that is a parameter. `ReadDirectly` reads an expression as it was typed: each
part of a field with its own ends and step, the star rule from the text, none of it through
ParseSchedule or Matches; the minutes of the canonical form are compared with that. `Scheduler` is runScheduler with its ticker
of one, catching up, a clock that may be set back, the policies and pruneHistory. `MinuteLedger` is the
abstract specification: each minute is settled once and in order, a policy due in a
settled minute gets its backup, only what is further behind than the limit is given
up, only a counted lapse may do otherwise, and for each time the clock was set back (or
lapse) one minute may be settled again, from which the policy goes on. `MinutesAreSettled` in `Scheduler`
is the refinement (`INSTANCE MinuteLedger WITH` settled as the last minute the loop
is through with, begun as the backups taken, lapses and rewinds as the history variables).

**`Watch`** - a pass reads the nodes, then the rows, and goes by both while servers
change and removals begin, go on and fail under it. The list of apps that follows is refused
whatever happens (finding 2), so no app and no certificate is looked at.

**`EventHub`** - what happens under `Hub.mu` is one action, what happens before and
after it another: the number is taken before the lock (Number, Deliver), the
replay is collected under it and sent after it (Subscribe, Replay). `owed`, `got`
and `lost` are history variables.

**`Secrets`** - keys are numbers, ids are what envelopes name; a ring in memory, the
file, the cells, the writers between sealing and storing, rotations step by step.

### Who and what is let in

**`Auth`** - one account, several requests, each working on the row it read at its
start; the clock counts one-time-password steps. A password change ends the sessions it listed
one by one and drops what is refused; the reset from the command line ends them in one statement. **`Teams`** - setup with its
in-memory flag, teams, roles, invitations. **`Provision`** - `op`, `step`, `work`,
`running`, with the thirty-minute context; `dying` is a goroutine that panicked.

**`Plugins`**, **`Notify`** - the manifest an owner agreed to, the row, the tokens,
the namespaces and the requests on their way. A token whose deletion was refused is in
`stray`; a question goes to the plugins whose manifest, secret and owner could be read
(`unread` are the others), and nothing is asked when the list cannot be read. An announcement
lists the channels and hands them over one at a time, each to a goroutine of its own, and the
process may end in between (`lost`); plugins are switched off under it.

**`EdgeRules`**, **`Edge`** - a visit with its headers, the lookups and a verdict in
three-valued logic, as operators; rows, component statuses, ConfigMap, middlewares,
connectors and guards with the requests that change them. A middleware the cluster refuses is
logged (`missed`) and the request goes on; a list that cannot be read ends it.

**`MC...`** instantiate these for TLC; **`...Proofs`** hold the theorems. `MCAccess`,
`MCWorkloads`, `MCUpkeep`, `MCPlatform`, `MCEdge` and `MCBackups` each hold several
components that share no state: the variable `part` says which one a behaviour is
about, the others stay as they began, and a run is the sum of its parts and not
their product. (`MCPlatform` lets plugins and notifications act together: the latter
go through the former.) Fairness is asked only of the part that runs.

## 3. The runs

| Run | Instance | Shows |
|---|---|---|
| `deployments_serial` (415 000 states) | 2 deployments, 1 request at a time, settings, restarts, panics, fairness | superseding reaches row and goroutine: one live run, a superseded deployment never lands; the deployer implements `Rollouts`, so Sync re-applies a success only; every deployment ends |
| `deployments_concurrent` (1.7 million, symmetric requests) | 2 deployments, 2 requests at once, rollback, cancel, timeouts, disconnects, writes the database refuses, restarts | a recorded success reached the cluster; what is cancelled stays off it |
| `registry_faults` (255 000) | 2 deployments, 2 sweeps, abandoned builds, failing Jobs, sweeps with refused steps, collectors left behind, restarts | what a sweep found worth keeping stays tagged |
| `backups` (331 000) | 3 backups, retention 1, every fault; 2 restores, size 2, every fault; fairness | BucketMatchesRows: what is retained is there and no object is forgotten; RestoreIsSafe: no pod of the app is kept running while an archive is unpacked and it gets its size back, exceptions named; both end, but a backup whose end was refused |
| `access` (1.87 million) | 2 sign-ins at once over four mixes; 3 people, 2 teams over six; 1 server, 2 operations over seven | a one-time code admits once; of the sessions of an older password a change leaves only those it names; a team keeps an owner; an address comes in through one invitation; map, rows and goroutines of operations agree; a recorded node leaves before its row |
| `workloads` (405 000) | 2 apps over eight mixes, 2 databases over six, 4 environments and 2 pull requests over six | the cluster shows the rows; a name means one thing; no variable the panel shows names a deleted database; a fork's preview gets no secret of the app; previews go, but for namespaces whose deletion was refused |
| `upkeep` (361 000) | 450 expressions on a year of three days; 8 minutes, 2 policies; 2 servers; 3 events through a channel of one | the canonical form names the minutes a direct reading of the expression names; the tick implements `MinuteLedger`, late, refused or set back; a lost server is noticed; each owed event is at one place; losses are told |
| `platform` (1.63 million) | 2 plugins; 2 channels; 500 ignore files; 2 laptops, 2 apps | tokens have their plugin, or their deletion was refused; no refusal of a plugin that was asked is overruled; gone means told, but for what was still to be handed over; the archive is what git keeps; a build gets what was sent for it |
| `edge` (629 000) | 140 rule sets on 61 visits; 2 apps' rules; 2 secrets and rotations; about 2 900 trees; all kinds of build; the registry with failing Jobs and two commits with one image; fairness | a visit is judged as itself; rules and tokens in step with the rows; secrets open; what is found is built; only whole code is built and a build ends; images stay whole and a deleted app is swept |

Three runs show a disagreement between the code and what its comments say
(section 5): `deployments_supersede_race`, `watch_apps`, `secrets_rotation`.

**Conditions in the properties.** Several properties name the circumstances in which
they hold, because outside them the code does not keep the promise:
`RolloutsInOrder` needs deploys that do not overlap, no rollback and no caller who goes away,
`TeamKeepsAnOwner` and `NameMeansOneThing` need requests that do not overlap (the
latter also that names are asked for and no database is deleted while it is created),
`NoUrlToNothing` requests that are not cut halfway either and leaves out the variables that
a link left behind when it got another name, or a refused statement did (`leftover`, a history
variable); it is about what the panel shows, and about the cluster only that what is shown is there.
`NoOldSessions` excepts the session that asked, sign-ins that were in progress when the password
was written, a session whose deletion was refused or whose time is up at the very instant of the
list, a change cut off by its browser and a password that another save has put back; TLC finds
each of them needed.
`OneInvitationEach` has no condition. `ServersAreLookedAfter` does not count an operation whose
limit has passed and says nothing of how many work on one machine. `EveryPreviewGoes` is about the
rows, and about namespaces but for those whose deletion was refused; `PreviewsAreRight` about
deliveries that are handled and about secrets of the app, not of the project. `LossIsNoticed` asks
that the team knows only where the database takes every write. `MinutesAreSettled` lets a minute be
settled again once for each time the clock is set back. `TokensAreAccountedFor` leaves out tokens whose
deletion was refused, `NoRefusalOverruled` plugins that could not be read, `GoneMeansTold` what an
announcement under way had still to hand over. `OnlyWholeCodeIsBuilt` lets the panel say "build"
of another stage when it could not look.
`CalmSecretsOpen` writes that meet no rotation, `InStepWithTheRows` a last
change that ran alone to its end and leaves out a middleware the cluster refused it,
`ClusterShowsTheRows` a last Sync that succeeded (and of a Secret only that each variable has its
value in it), `RestoreIsSafe` no overlapping restore and no restart in between. The
unconditional statements are in the modules too, with the comment or document
they come from, and section 5 lists them.

**Why the bounds are enough to be interesting.** Two deployments and two requests
give every overlap of two read-then-write sequences; a registry window of one makes
the second deployment push the first one out; a channel of one with three events
overflows, and with a history of two and one topic kept both limits are reached;
three backups with a retention of one let two passes work on the same list; one hash
at a time makes the second sign-in wait; a year of three days with a leap day every
fifth lets NextRun walk through its whole horizon; eight minutes with a catch-up limit
of three give up minutes; one kept upload makes the second prune the first. What
the proofs cover does not depend on these numbers.

**Deadlock** is not checked: every model reaches states in which all the requests
its bounds allow have been served and nothing has to happen. That work does not get
stuck on the way is what the liveness properties say.

**Fairness** is weak and only on steps the code cannot put off: a goroutine or
request that has its next statement or call (all bounded by a context or a
client timeout), a Job (`activeDeadlineSeconds`), the cluster's controllers, the
sweep and the watcher's pass that a ticker starts, a guard's reload, the kubelet's sync. Nothing
obliges anybody to make another request, publish, panic, fail or restart.
`EveryPreviewGoes` also counts on time passing and on a refusal by the cluster not
being for ever: faults are counted down by the mix.

## 4. What is proved

`tlapm` checks these for every set of deployments, requests, commits, backups,
restores, servers, apps, hostnames, people, teams, plugins, channels, policies,
streams, builds, secrets, databases, names, schedules, folders of code, environments and pull requests, for every
bound and for every combination of faults and kinds of request. The assumptions are the `ASSUME`s beside
the constants: bounds are natural numbers, a window, a retention or a limit is at
least one, the empty image is no commit, what stands for "nobody" is nobody's name, a
repository gives no number twice, a project's slug is a sequence of words, an expression has fields of
parts, a week has a day, the default builder is Railpack or Nixpacks. A theorem with a hypothesis of its own states it, and the list below says what the code
does without it. None of the properties is inductive; each has an invariant that is.

* **`DeploymentsProofs`**: TypeCorrect, SuccessIsReal, RunningMapIsExact,
  FinishedStaysFinished, CancelIsFinal, SyncIsSafe. The invariant adds what a
  request has read and is still true when it
  is used (`RequestInv`), that a deployment is started by the request that created
  it and by no other (`StartedOnce`), and what a goroutine has put on record by the
  time it reaches a step (`RunInv`); that its objects reached the cluster holds whatever the
  database refused before, that its row names an image does not. CancelIsFinal, for example, needs the context of
  a cancelled deployment to stay dead, hence nobody to start it again, hence
  `StartedOnce`. OneRunAtATime and SupersededIsStopped assume that no two requests are between
  their first read and their start at once
  (finding 1 is what happens when they are), that nobody rolls back and that no caller goes
  away halfway: whoever heads for the cluster has a row that says so, or is on the
  list of the request that superseded it (`SerialInv`). OneRunWithOneCaller shows that a panel
  with one caller meets the first hypothesis. VersionsLandInOrder is the refinement, under the
  same hypotheses: `Deployments` implements `Rollouts`, initial state to initial state, every step
  to a step or a stutter. It needs `TurnInv`: a deploy with a row has the newest, whoever is on
  its way is the newest that had its turn, a row without a goroutine is the one of a deploy that is about to
  start it, and, where nothing is synced, what was brought by the one on its way is still there.
  OneCallersVersionsLandInOrder is the case of the run `deployments_serial`; NewerStays says
  that without a Sync the number on the cluster never falls. SyncIsSafe holds of every behaviour.
* **`RegistryProofs`**: TheLockProtectsImages and TheLockHoldsPushes, when no build
  and no collector is left behind by the goroutine that holds the lock for it;
  WhatIsKeptStays, under every fault, when every commit builds
  to a manifest of its own; TypeCorrect. `LockInv` says that a build Job runs only while its
  goroutine reads the lock and that sweep and collector work only while nobody
  does, so nothing is tagged between the collector's two passes and what it
  marked covers the tags. `KeepInv` says that the list to delete was made from the
  list to keep and that a tag points at its own commit's build, so a delete by
  digest takes no other tag with it.
  *Detect*: FoundIsBuiltAlways. Found is a Dockerfile that is there, a Compose file, or one
  of the guesses (`BuildIs`, `GuessesAre`: a guess is left to the default builder or has a
  directory to serve), and each goes through createUploadApp, chooseBuilder and the Job to what
  the builder is told; a file seen below a root directory is in the code (`NarrowIs`).
* **`PlatformProofs`**, five components.
  *Plugins*: TokensAccountedForAlways (`TokenInv`: every row's token was made for it, an
  install past the token holds a live one no row has, a removal past the revocation
  has taken its own or left it in `stray`, which only refused deletions fill) and NobodyIsOverruled
  (`AnswersAreCounted`: who is left and who has answered are those that should be asked and could be read).
  *Notifications*: GoneMeansToldAlways (`TellInv`: of the
  channels an announcement is due to some were told, once, one goroutine is at work
  for each of the others, or the announcement has still to hand them over; nothing is lost before
  the process is gone, and then only those).
  *Backups*: RetentionKeepsTheNewest, NoObjectIsForgotten, both
  together as BookkeepingIsExact, TypeCorrect. A
  pass works from a list that may be old. What stays true of a row in it is that
  its Job is over and that enough newer backups have *ever* succeeded
  (`ExpiredInv`; a set that only grows, which is where cardinalities come in).
  For objects the invariant is that each has a row that no pass is about to
  delete (`ListedInv`): with shared locations a row alone would not be inductive.
  *Volume restore*: AppIsScaledDownWhileUnpacking (of the pods the Deployment counts, not of
  those shutting down), AppIsPutBack, SuccessIsReal,
  the three together as RestoringIsSafe, RestoreTypeCorrect. The first
  two rest on a restore being alone (`AloneInv`);
  `StoppedInv` also covers the Job that a restart left behind: the next restore
  finds an app of size zero and leaves it so.
  *Uploads*: BuildsWhatWasSentAlways and UploadTypeCorrect. A build finds its code by
  hash, later: what lies in a directory under a hash was inspected before it got there
  (`StoredIsSound`), a deployment is of the hash that was asked for and has got nothing else
  (`BuildOK`), and a command waiting for an inspection has a receipt (`ReceivedIsSent`).
* **`AccessProofs`**: TeamsAlwaysHaveAnOwner, where requests do not overlap but may be cut
  anywhere (`OneAtATime`: what the request under way has checked is still so);
  OneInvitationEachAlways, whatever overlaps (`JoinInv`: who is about to join has just made the
  account, so no invitation of that address was taken and no other request is about to);
  CodeAdmitsOnceAlways (`CodeInv`: a code of the
  authenticator that was used is not above the counter, one written down is not among the
  unused, and what is not stored yet nobody has). OldSessionsEnd and SessionsHaveACeiling
  (`OldInv`): every password number is of the past (`NumbersFit`), a sign-in or a request of
  another password than the present one carries the mark of the change it overlapped
  (`Answers`), and a session of an older password that is not excused is on the list of the
  request that ends it, or will be when that request makes its list (`WillEnd`); one whose deletion was
  refused is excused from then on. The exception at the
  instant of expiry is in the code: ListSessions shows what expires *after* now, GetSessionByHash
  accepts a session until it is *before* now (`store/users.go:199`, `:229`), so a session used at that
  instant is prolonged and not on the list.
* **`ProvisionProofs`**: ServersAreLookedAfterAlways and RecordedNodeLeavesAlways. `ProvInv` says
  where each goroutine is in its plan, that without panics the map is exact, that there is
  one actor to a server as long as work does not overlap (a request that has checked and not
  yet written is one), and what a removal past its third step has done to the node. RecordedNodeLeaves
  needs work that does not overlap, whatever fails, panics or times out.
* **`UpkeepProofs`**: HubTypeCorrect and EachEventOnceAlways (`StreamOK`: written, queued, to be
  replayed and lost partition what a stream is owed, and it is replayed to only while it is
  registered); TheLedgerIsKept, the refinement: `Scheduler` implements `MinuteLedger`, initial state
  to initial state, every step to a step or a stutter. It needs that the minutes of a pass are those
  minutesAfter answers for `last` and `now` (`LoopOK`), and that a minute settled again is paid for:
  what was settled again and what the next pass would settle again are never more than the times the
  clock was set back or the process lapsed (`RepeatsArePaid`). HistoryStaysBounded: a new topic that
  does not fit finds one that was silent longest; the topics kept have to be finitely many
  (`HistoryFits`), not the ones published on. CanonicalMeansTheSameAlways, against the direct
  reading of what was typed: the parser's sets are what the parts say, and the weekday field written
  out value by value (`RankedIs`: the i-th is the one with i - 1 below it) is read back as the same
  set (`JoinedIsRead`); nothing is assumed of the calendar but that a week has a day.
* **`EdgeProofs`**: OnlyWholeCodeIsBuiltAlways (`PodInv`: "ready" is left only by
  the command at the end of the whole stream, and the push is the end of a Job in which
  nothing failed; the panel names the container that did, or "build");
  CalmSecretsOpenAlways, with one rotation at a time (the new key is in the
  file before anything is rewrapped; what is listed of a cell is still what is there;
  what is no longer listed is under the new key, unless something failed);
  AloneBringsInStep, of the rule sets, the middlewares but those the cluster refused, the Ingress and
  the connectors. For the last the invariant follows a request
  alone through its handler (`Brought`: what of the cluster it has brought in step by
  each step) and says that nobody writes what is in step but with what the rows say.
* **`WorkloadsProofs`**: ClusterShowsTheRowsAlways. `AppInv`, where requests do not overlap:
  an app nobody works on shows its rows, and for the one being brought what the
  request read is what is stored and how far it is (`Phase`: objects, then commands,
  then removal), through an apply that may break off at any object; of a Secret, that it gives each
  variable its value, whatever else it keeps. NamesMeanOneThing and
  UrlsMeanSomething, of the databases beside them (`DbInv`). For names (`NamesFit`): each
  has one owner, a Service is its owner's, a request past the question still finds the
  name free, and a deletion past the cluster's objects has left no Service of its own. For connection
  strings the panel shows (`UrlsFit`): behind each variable there is a link, or a request about to write
  one, or it is among those nobody cleared; behind each link a row;
  what a deletion has yet to take is on its list; and the cluster
  has an app's variables or a request will bring them. The links are why a variable alone
  would not be inductive. ForksGetNoAppSecrets holds by what an event and an app may carry
  (`EventType`, `PreviewAppType`), in every mix; that a repository numbers its pull requests is
  assumed. PreviewsAreRightAlways has the hypothesis `OneNumberEach`: no two pull requests
  of a project's repositories share a number (see *Previews* in section 6 for what happens when
  they do). Its invariant (`CalmFit`) holds while only the host acts and nothing struck a delivery: the
  last delivery under way that is about a pull request says how it is (`LastTells`), and where
  there is none, the preview is there or being made, and not being removed, exactly when it is
  open (`NoneTells`); the property itself speaks only of the end and would not be inductive.

Only model-checked, and why:

* Everything under fairness: EveryDeploymentEnds, EveryBackupEnds, EveryRestoreEnds,
  EveryPreviewGoes, BuildEnds, DeletedAppIsSwept, LossIsNoticed, LossIsTold. The prover
  handles neither liveness nor `ENABLED`.
* SentIsWhatGitKeeps and JudgedAsThemselves compare an algorithm
  with a reference definition on many inputs. What a recursive definition or a fold
  computes for every input is out of the prover's reach.

## 5. Findings

Each of the first three is a run that TLC reports as violated.

1. *Superseding misses a deployment that is not registered yet*
   (`deployments_supersede_race`, `deploy/deployer.go:141`). Two overlapping Deploy
   requests: the second marks the first one's row superseded and finds nothing to
   stop; the first then starts it, `run` does not look at its own status, and the
   older version lands.
2. *The watcher never looks at an app* (`watch_apps`, `store/apps.go:640`).
   `prefixColumns("a", appColumns)` (`store/teams.go:432`) splits on every comma, also
   the one in `COALESCE(git_source_id,'')`; the statement is refused every time.
   ListAppsForProject (`store/apps.go:75`) is built the same way, so a shared
   variable never reaches an app by itself either.
3. *A secret written during a rotation may be lost* (`secrets_rotation`,
   `api/settings_handlers.go:270`). A value sealed under the old key and stored after
   ListSealedSecrets has read its column is not rewrapped; the old key is dropped.

Further configurations with a counterexample:

| Configuration (module) | Statement | What happens |
|---|---|---|
| `HistoryPrune` (MCUpkeep) | DeployedIsRecorded | Prune (`store/retention.go:64`, "nothing it deletes is referenced") may delete the only successful deployment of a running app behind newer failures; Sync then has nothing to apply |
| `EdgeDomains` (MCEdge) | DomainsAreGuarded | RefreshFirewall is called when rules are saved, not when "a domain moves" (`cluster/edgeguard.go:107`): a new domain of a protected site is not in the guard's file |
| `BuildSlowStart` (MCEdge) | NotStartedMeansNotBuilt | waitForBuildPod gives the pod five minutes to leave Pending, in which it stays while init containers run; "Nothing was built or deployed" is said of a Job that goes on to push |
| `DetectRoots` (MCEdge) | FoundIsUsedAsIs | with a root directory, the Dockerfile that was found is looked for from the top; a Compose file's path is stored as a Dockerfile's |

More definitions hold in the instances of the runs and can be added to their
configurations: in `DeploymentsSerial` SyncReappliesASuccess; in `Access` AuthTypeOK, TeamTypeOK, SessionCeiling, LockoutHolds,
CodesFollowTheSecret, SetupMakesOneAdmin, SuccessIsWhatItSays and the action properties SignInKeepsTheRow,
KeyIsKept; in `Platform` UploadTypeOK, CodeGoesWithTheApp; in `Edge`
OnlyTheUnknownIsSkipped, InstalledIsThere, GuardsCatchUp; in `Upkeep` NeverMeansNever, HubTypeOK,
HistoryIsBounded, PruneKeepsTheNewest; in `Workloads` NamespacesFollowTheRows, AddressIsKept, CreationEnds.

Statements of comments and documents that the code does not make good in
general are definitions of the modules as well. Put into the configuration named, with
the change named (a specification of the module, a constant), each gives its
counterexample:

| Statement (module) | Configuration and change | What happens |
|---|---|---|
| SettingsReachTheCluster (Deployments) | DeploymentsSerial, alone | `run` reads the app row before the build and renders from that copy after it: a setting changed during a build is undone |
| RolloutsInOrder (Deployments) | DeploymentsSerial with "rollback" in Calls, MaxDeployments = 3 | a rollback sets out while a build is on its way |
| NewerNeverReplacedByOlder (Deployments) | DeploymentsConcurrent | Rollback does not supersede: a build in flight replaces it; Sync during a newer rollout re-applies the older one |
| EveryDeploymentEnds (Deployments) | DeploymentsSerial, Faults with "timeout", or with "refusal" | the failure of a timeout is written on the expired context, and an end the database refuses is not written again; the row waits for a restart |
| RollbackTargetsAreKept (Registry) | RegistryFaults | ImagesWorthKeeping ranks every deployment with an image, WithinRollbackWindow only those that succeeded |
| ServedImageStays, RedeployBuildsFresh (Registry) | RegistryFaults, for the second with MaxDeployments = 3 | the image is recorded after the lock is given up, a sweep in between takes it; a collected image is reused by a redeploy |
| ImagesAreIntact (Registry) | RegistryFaults | a build the panel gave up on pushes without the lock; a collector it gave up on goes on without it (`cluster/registry.go:144`) |
| KeptTagsStay (Registry) | RegistryFaults, ContentOf <- TwoAlike | deleting by digest takes a kept tag with the same manifest |
| DefaultsAreUsed (Detect) | DetectRoots | a package.json that "could not be parsed, so the defaults are used" (`builder/detect.go:255`) may have been read in part, as when only "engines" is not an object; what was read of it is used: a front end is found and described, and since that is not certain the app is made without it |
| EveryNamespaceIsGuarded, FileFollowsTheTunnel (Edge) | Edge, EdgeOnly | a middleware the cluster refuses is logged and the request ends well (`edgeguard.go:143`); what the file says of the tunnel (`:180`) is as of the last push of the rules |
| StatusIsTheirs, NewsMatchesRow (Watch) | Upkeep | a server whose removal begins after the list was read is set back to ready or not ready, though "its status belongs to them" (`watch.go`, checkServers); a team is told though the row's write was refused, and never told again |
| ReconnectLosesNothing (EventHub) | Upkeep, HubOnly | a live event overtakes the replay; a browser that lost it reconnects past it |
| NobodyHoldsTheVolume (VolumeRestore) | Backups, RestoreOnly | WaitForNoPods waits for the Deployment to count no pods (`kube/client.go:691`: "The pod is still there, still holding the volume"), and one that is shutting down is not counted |
| RestoredToItsSize (VolumeRestore) | Backups, RestoreOnly | two restores of one volume leave the app at zero |
| NeverLeftWithNothing (Backups) | Backups, BackupsOnly | two backups in one second share an object; the retention of one deletes both |
| LimitEndsIt (Provision) | Access, ServersFair, Mixes <- LateMixMC | the end of a timeout is recorded through the ended context (`provision/runner.go:115`) |
| OneAtWorkOnAMachine, NodeAlwaysLeaves (Provision) | Access | the map keeps one operation from running twice (`provision/runner.go:31`, "two k3s installers on one machine"), not two operations on one machine; a removal works on the row as it was when it was asked for, while adding puts the node in |
| ChangeEndsThem (Auth) | Access | "A password change must invalidate anything an attacker already holds" (`auth/service.go:523`): not a sign-in between its check and its session, nor a session whose deletion was refused |
| RetryResumes (Provision) | Access | a retry takes the latest operation of any kind (`provision/provisioner.go:169`) |
| SetupMakesOneAdminEver, TeamAlwaysKeepsAnOwner (Teams) | Access | two setups, or two demotions, both pass a check made before either wrote |
| NameMeansOneThingAlways (Databases) | Workloads | two requests take one slug; a template takes one without asking |
| AppsLoseTheirVariable (Databases), OnlyItsVariables (Apps) | Workloads | the app's Secret is sent as `stringData` (`kube/manifests.go:478`) by server-side apply (`kube/apply.go:128`): a variable that was deleted, a database's too (`dbsvc/manager.go:430`), stays in the live `data` and in the environment of the app |
| PageShowsWhatRuns (Apps) | Workloads | `cluster.go:162` says what is shown is what is running; the page renders the image in the app's row: none for an app that is built from code, and one that was typed in but not deployed yet |
| ForkGetsNoSecrets (Environments) | Workloads | "A preview built from a fork gets no secrets" (`webhook_handlers.go:297`): the project's shared variables reach it when it is deployed (`deployer.go:702`) |
| EveryNamespaceGoes (Environments) | Workloads | a preview's row is deleted although its namespace was not (`webhook_handlers.go:340`), and nothing looks for it again |
| NoUrlToNothingEver (Databases) | Workloads | a database linked again under another name leaves its first variable, and its deletion takes only the second |
| SharedVariableReaches, NothingIsLeftBehind (Apps) | Workloads, for the first with AppMixes <- SharedMixMC | finding 2; clearing an app's port leaves its Service and Ingress (`deployer.go:391`) |
| SettingsReachThePlugin (Plugins) | Platform, PluginsOnly | settings saved after the install reach the Secret's row and not the pod (`plugin_handlers.go:332`) |
| NoStrayToken (Plugins) | Platform, PluginsOnly | a refused deletion of a token is logged and the plugin's row goes all the same (`plugin_handlers.go:229`); after a refused install it is not even looked at (`:186`) |
| EveryBlockerIsAsked (Plugins) | Platform, PluginsOnly | "Every plugin is asked" (`dispatch.go:179`): one whose manifest, secret or owner cannot be read is not (`pluginruntime.go:253`, `:304`), and with the list unreadable none is |
| NamespaceIsItsOwn (Plugins) | Platform, PluginsOnly, PluginIds <- TwinIdsMC | PluginNamespace adds a hash only to names that are too long (`kube/pluginpod.go:50`) |
| RestartNewsGoesOut (Notify) | Platform, NotifyOnly | "a deployment failure reported at the moment of a restart still goes out" (`dispatcher.go:64`): an announcement that is still listing or opening channels has added nothing to what Wait waits for |
| TestTellsTheTruth (Notify) | Platform, NotifyOnly, NotifyMixes <- TestMixMC | an email channel is tested without SMTP settings and marked broken |
| MissingMeansOvertaken (Uploads) | Platform, UploadsOnly, UploadMixes <- SameCodeMixMC | an upload received before and renamed after one of the same code brings back the older time (`upload/upload.go:349`): a queued build's file is pruned though nothing newer came |
| WaitEnds (Notify) | Platform, NotifyOnly, NotifyMixes <- HangMixMC | `smtp.Dial` has no limit (`dispatcher.go:146`) |

## 6. Observations

What the modelling met besides, in the models' behaviours or beside them, for
whoever works on that code next.

* **Accounts.** Profile and TOTP saves write a whole row read earlier and may put an
  old password back; so may the rehash at sign-in. A disconnect between UpdateUser
  and DeleteRecoveryCodes leaves the codes. PruneInvitations has no caller;
  `users.disabled` is read and never set. An invitation revoked while it is accepted
  leaves an account without a team, and such an account cannot use another invitation.
* **Deployments.** A success whose image could not be written has none in its row: Sync is refused
  and it is no target of a rollback.
* **Servers.** Cancel and the limit leave a server "provisioning". A retry pressed
  between the write of "failed" and `finish` is lost.
* **Apps.** Deleted shared variables and volumes and a changed setting are not
  synced. Whole-row updates of handleUpdateApp and handleSetScaling overwrite each
  other; overlapping Syncs may leave the older configuration; a deletion during a Sync or
  a provision brings objects back. A second volume at one mount path makes every
  Sync fail; two jobs whose names slugify alike share a CronJob. The manifests page shows
  the image of the app's row, Sync applies that of the last success.
* **Databases.** Linked again under another name, a database leaves a variable that
  outlives it; two linked under one name share it, and unlinking one takes it from the
  other. `provision` records its failure through the expired 20-minute context. One whose
  Service was refused after its StatefulSet, or taken by a deletion that broke off there, is
  shown as running when it is looked at.
* **Previews.** The cleanup of a deleted branch looks for a ref no preview has
  (`webhook_handlers.go:328`). The ref is per project, not per repository: pull requests 5 of two
  repositories share a preview, and closing one takes the other's. Variables copied
  halfway are never completed. Out of order, "opened" after "closed" makes a
  preview that only its age removes. GitLab and Gitea may end with two hooks.
  A project refused at its environment's row stays without one.
* **Tick and watcher.** `last` is not persisted, so a restart loses a minute or repeats it;
  a refused list of policies loses the minute; after a clock was set back a policy due in the
  minutes that come up again fires again. A Deployment with replicas wanted and none
  there counts as healthy; "is back" is told though the row's write failed; a removal
  that starts during a pass gets a false alarm.
* **Plugins.** An install cut between token and row leaves a live token (which is not in the model:
  an install there is not cut by a restart); a removal or a switch during an install is undone by its end. A
  manifest may have become blocking between inspection and install.
* **Uploads.** A crash leaves `.incoming-*` files until the sweep; a cut between the app's
  creation and the project file makes the next `up` create a second app; `up --dotenv`
  overwrites a linked DATABASE_URL.
* **Edge.** Rules or a token saved while the component is "installing" do not reach it;
  overlapping saves may leave the older file; rules that are too large are refused after
  the row is saved; an install's last status is written with the request's context.
  Installing the tunnel does not refresh the guard's cloudflare flag.
* **Secrets.** ParseRecoveryKey has no caller, ids of dropped keys are given out again, and
  the recovery key's ids are lower-cased.
* **Builds.** The "prepare" container's log is never streamed; after a failed
  delivery of code the Job's deletion uses a context that has ended.

## 7. Plan

1. `DatabaseRestore`: Restore and runRestore beside `Databases` (two restores of one
   backup share a Job's name), and the join token of two first servers.

## 8. What is not modelled

HTTP routing, decoding and permissions of handlers that only read; texts, logging
and metrics; rendering of manifests, scripts and templates; parsing of archives and
webhook bodies beyond what decides their effect; the cryptography itself; the
arithmetic of addresses and the format of lookup databases; transport over SSH and to
the cluster's API; the judging of a preflight; the browser application, the MCP server and
the commands that only call the API; migrations; the installer. They hold no state
that interleaves with anything above, or it is external. The restore of a database and the
join token are on the plan.

## 9. Running it

    tlc -workers 2 -config DeploymentsSerial.cfg MCDeployments
    tlapm DeploymentsProofs.tla

A run takes between a few seconds and three minutes with two workers, a proof module
less than ten.
