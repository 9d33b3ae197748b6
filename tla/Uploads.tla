------------------------------ MODULE Uploads -------------------------------
(***************************************************************************)
(* Deploying a folder: what `skifity up` leaves out and packs              *)
(* (cli/ignore.go, cli/pack.go), the requests it makes one after the other *)
(* (cli/up.go, cli/project.go), what the panel refuses and where it keeps  *)
(* the rest (upload/upload.go, api/upload_handlers.go), how a build gets   *)
(* it (deploy/upload.go) and how it goes (api/apps_handlers.go,            *)
(* serverapp/serverapp.go).  Several people send at once, the panel may    *)
(* stop at any step, and an app may be deleted under an upload.            *)
(***************************************************************************)
EXTENDS Naturals, Sequences, FiniteSets, SequencesExt

CONSTANTS
    Trees,        \* folders: their entries in the order they are walked, and their ignore files
    Laptops,      \* people who send
    UApps,        \* apps that may be made
    Versions,     \* versions of the code in a folder
    ArchiveOf,    \* ArchiveOf[v]: the entries of the archive a version makes
    Limits,       \* entries and bytes an archive may have
    Keep,         \* uploads kept for an app
    UploadMixes   \* what a behaviour meets

\* What may happen in a behaviour, at most "moves" times.
UploadKinds == {"up", "edit", "clone", "init", "new", "dotenv", "delete", "project", "button", "crash", "cut"}
ASSUME UploadAssumption ==
    /\ Keep \in Nat \ {0} /\ Limits.entries \in Nat /\ Limits.unpacked \in Nat
    /\ ArchiveOf \in [Versions -> Seq([path : Seq(STRING), type : STRING, size : Nat])]
ASSUME UploadMixesAssumption == UploadMixes \subseteq [kinds : SUBSET UploadKinds, moves : Nat]

VARIABLES
    folder,   \* a folder and what was packed of it
    laptop,   \* laptop[l]: the code, the project file and the command that runs
    uapp,     \* uapp[a]: "free", "upload", "git" or "gone"
    dir,      \* dir[a]: the app's directory on the panel: {} or its uploads and temporary files
    builds,   \* deployments, oldest first
    sent,     \* sent[a]: what was received for an app, in that order, and whether it was kept
    given, \* given[a]: where the app's variables come from
    projects, \* the team has a project
    umix

folderVars == <<folder>>
uploadVars == <<laptop, uapp, dir, builds, sent, given, projects, umix>>

-----------------------------------------------------------------------------
(* What is left out.                                                       *)

AlwaysLeftOut == {".git", "node_modules", "skifity.toml"}
Templates == {".env.example", ".env.sample", ".env.template", ".env.dist"}
IsSecretsFile(name) == name \in {".env", ".env.local", ".env.production"} \cup Templates /\ name \notin Templates

\* A pattern is a sequence of segments; a segment is the names it matches, or "**".
Segment(names) == [deep |-> FALSE, names |-> names]
Deep == [deep |-> TRUE, names |-> {}]

\* A segment matches one name and "**/" any number of folders, none included:
\* rest[i, j] is whether the segments from the i-th on match the names from the j-th on.
GlobMatches(segs, rel) ==
    LET rest[i \in 1 .. Len(segs) + 1, j \in 1 .. Len(rel) + 1] ==
            IF i > Len(segs) THEN j > Len(rel)
            ELSE IF segs[i].deep
                   THEN \/ rest[i + 1, j]
                        \/ j <= Len(rel) /\ (i = Len(segs) \/ rest[i, j + 1])
                   ELSE j <= Len(rel) /\ rel[j] \in segs[i].names /\ rest[i + 1, j + 1]
    IN  rest[1, 1]

\* A line: nothing, or a rule.  A slash before its end ties it to the folder of its file;
\* without one it matches at any depth below it.
AddRule(base, text) ==
    IF text.segs = <<>> THEN <<>>
    ELSE <<[base |-> base, negate |-> text.negate, dirOnly |-> text.dirOnly,
            segs |-> IF text.rooted \/ Len(text.segs) > 1 THEN text.segs ELSE <<Deep>> \o text.segs]>>

\* What a file of the panel's own would say: caches and environments.
NewIgnorer(builtIn) == AddRule(<<>>, builtIn)

LoadDir(rules, tree, rel) ==
    rules \o FlattenSeq([i \in DOMAIN tree.lines |->
        IF tree.lines[i].dir = rel THEN AddRule(rel, tree.lines[i]) ELSE <<>>])

Below(base, rel) == Len(rel) > Len(base) /\ SubSeq(rel, 1, Len(base)) = base
RuleMatches(rule, rel, isDir) ==
    /\ rule.dirOnly => isDir
    /\ Below(rule.base, rel) /\ GlobMatches(rule.segs, SubSeq(rel, Len(rule.base) + 1, Len(rel)))

\* The first rule that matches decides.
Ignored_FirstWins(rules, rel, isDir) ==
    \/ Last(rel) \in AlwaysLeftOut \/ (~isDir /\ IsSecretsFile(Last(rel)))
    \/ LET hits == SelectSeq(rules, LAMBDA r : RuleMatches(r, rel, isDir))
       IN  hits # <<>> /\ ~Head(hits).negate
\* The last rule that matches decides.
Ignored(rules, rel, isDir) ==
    \/ Last(rel) \in AlwaysLeftOut \/ (~isDir /\ IsSecretsFile(Last(rel)))
    \/ LET hits == SelectSeq(rules, LAMBDA r : RuleMatches(r, rel, isDir))
       IN  hits # <<>> /\ ~Last(hits).negate

\* One entry of the walk: a folder left out is not entered, one that is entered brings
\* its ignore files, and links are named and not sent.
Visit(tree, seen, entry) ==
    LET rel == entry.path
        isDir == entry.type = "dir"
    IN  IF \E d \in seen.pruned : Below(d, rel) THEN seen
        ELSE IF Ignored(seen.rules, rel, isDir)
               THEN IF isDir THEN [seen EXCEPT !.pruned = @ \cup {rel}] ELSE seen
        ELSE IF isDir THEN [seen EXCEPT !.rules = LoadDir(@, tree, rel)]
        ELSE IF entry.type # "file" THEN [seen EXCEPT !.skipped = Append(@, rel)]
        ELSE [seen EXCEPT !.files = Append(@, entry)]

Pack(tree) ==
    FoldLeft(LAMBDA seen, entry : Visit(tree, seen, entry),
             [rules |-> LoadDir(NewIgnorer(tree.builtIn), tree, <<>>), pruned |-> {}, files |-> <<>>, skipped |-> <<>>],
             tree.entries)

-----------------------------------------------------------------------------
(* What the panel refuses.                                                 *)

CheckName(rel) ==
    IF rel = <<>> \/ rel[1] \in {"", "C:"} \/ \E i \in DOMAIN rel : rel[i] = ".." THEN "unsafe"
    ELSE IF IsSecretsFile(Last(rel)) THEN "secrets" ELSE "ok"

\* One entry of the archive: the count, the name, the kind and the bytes, in that order.
WalkEntry(seen, entry) ==
    IF seen.verdict # "ok" THEN seen
    ELSE LET verdict ==
                 IF seen.entries = Limits.entries THEN "too many"
                 ELSE IF CheckName(entry.path) # "ok" THEN CheckName(entry.path)
                 ELSE IF entry.type \notin {"file", "dir"} THEN "unsafe"
                 ELSE IF entry.type = "file" /\ seen.unpacked + entry.size > Limits.unpacked THEN "too large"
                 ELSE "ok"
             file == IF entry.type = "file" THEN 1 ELSE 0
         IN  [verdict |-> verdict, entries |-> seen.entries + 1, files |-> seen.files + file,
              unpacked |-> seen.unpacked + file * entry.size]
Inspect(archive) ==
    LET end == FoldLeft(WalkEntry, [verdict |-> "ok", entries |-> 0, files |-> 0, unpacked |-> 0], archive)
    IN  IF end.verdict = "ok" /\ end.files = 0 THEN "empty" ELSE end.verdict

FileBytes(files) == FoldLeft(LAMBDA n, entry : n + entry.size, 0, files)

\* The same limits, looked at before anything is created or sent.
CheckPacked(files) ==
    IF files = <<>> THEN "empty"
    ELSE IF Len(files) > Limits.entries THEN "too many"
    ELSE IF FileBytes(files) > Limits.unpacked THEN "too large" ELSE "ok"

\* A behaviour begins with code that may be sent.
ASSUME SomethingToSend == \E v \in Versions : Inspect(ArchiveOf[v]) = "ok"

FolderInit == folder \in {[tree |-> t, packed |-> {}] : t \in Trees}
PackFolder ==
    /\ folder.packed = {}
    /\ folder' = [folder EXCEPT !.packed = {Pack(folder.tree)}]
FolderNext == PackFolder

-----------------------------------------------------------------------------
(* The command.                                                            *)

UMay(kind) == kind \in umix.kinds /\ umix.moves > 0 /\ umix' = [umix EXCEPT !.moves = @ - 1]
NoCommand == [at |-> "off"]
Ends(l) == laptop' = [laptop EXCEPT ![l].up = NoCommand]

UploadInit ==
    /\ laptop = [l \in Laptops |-> [code |-> CHOOSE v \in Versions : Inspect(ArchiveOf[v]) = "ok", link |-> {}, up |-> NoCommand]]
    /\ uapp = [a \in UApps |-> "free"] /\ dir = [a \in UApps |-> {}]
    /\ builds = <<>> /\ sent = [a \in UApps |-> <<>>]
    /\ given = [a \in UApps |-> {}] /\ projects = FALSE
    /\ umix \in UploadMixes

\* While the command runs an edit is the next one's.
Edit(l, v) ==
    /\ laptop[l].up.at = "off" /\ UMay("edit") /\ laptop[l].code # v
    /\ laptop' = [laptop EXCEPT ![l].code = v]
    /\ UNCHANGED <<uapp, dir, builds, sent, given, projects>>

\* The project file is "safe to commit": somebody else has it too.
Clone(l, m) ==
    /\ UMay("clone") /\ laptop[l].link # {} /\ laptop[m].link # laptop[l].link /\ laptop[m].up.at = "off"
    /\ laptop' = [laptop EXCEPT ![m].link = laptop[l].link]
    /\ UNCHANGED <<uapp, dir, builds, sent, given, projects>>

\* The folder is packed and looked at; a project file names the app, unless a new one is asked for.
UpBegins(l, new, dotenv) ==
    /\ laptop[l].up.at = "off" /\ UMay("up")
    /\ (new => "new" \in umix.kinds) /\ (dotenv => "dotenv" \in umix.kinds)
    /\ CheckPacked(ArchiveOf[laptop[l].code]) = "ok"
    /\ laptop' = [laptop EXCEPT ![l].up =
           [packed |-> laptop[l].code, dotenv |-> dotenv,
            target |-> IF new THEN {} ELSE laptop[l].link,
            at |-> IF new \/ laptop[l].link = {} THEN "place" ELSE "find"]]
    /\ UNCHANGED <<uapp, dir, builds, sent, given, projects>>

\* Somebody's first app has no project, and one is made for it.
ResolveOrCreateEnvironment(l) ==
    /\ laptop[l].up.at = "place"
    /\ laptop' = [laptop EXCEPT ![l].up.at = "create"] /\ projects' = TRUE
    /\ UNCHANGED <<uapp, dir, builds, sent, given, umix>>

\* The app with its database linked; what the file says of the database's own variable is left out.
Fresh(a) == uapp[a] = "free" /\ a = CHOOSE b \in UApps : uapp[b] = "free"
WantedVariables(dotenv) == (IF dotenv THEN {<<"KEY", "file">>} ELSE {}) \cup {<<"DATABASE_URL", "database">>}
CreateUploadApp(l, a) ==
    /\ laptop[l].up.at = "create" /\ Fresh(a)
    /\ uapp' = [uapp EXCEPT ![a] = "upload"]
    /\ given' = [given EXCEPT ![a] = WantedVariables(laptop[l].up.dotenv)]
    /\ \/ laptop' = [laptop EXCEPT ![l].up.at = "link", ![l].up.target = {a}] /\ UNCHANGED umix
       \/ UMay("cut") /\ Ends(l)
    /\ UNCHANGED <<dir, builds, sent, projects>>

SaveProjectFile(l) ==
    /\ laptop[l].up.at = "link"
    /\ \/ laptop' = [laptop EXCEPT ![l].link = laptop[l].up.target, ![l].up.at = "send"] /\ UNCHANGED umix
       \/ UMay("cut") /\ Ends(l)
    /\ UNCHANGED <<uapp, dir, builds, sent, given, projects>>

\* Linked already: the app is looked up and the file's values are written over what is there.
FindApp(l) ==
    /\ laptop[l].up.at = "find"
    /\ \E a \in laptop[l].up.target :
        IF uapp[a] = "gone" THEN Ends(l) /\ UNCHANGED given
        ELSE /\ laptop' = [laptop EXCEPT ![l].up.at = "send"]
             /\ given' = IF ~laptop[l].up.dotenv THEN given
                            ELSE [given EXCEPT ![a] = {<<"KEY", "file">>, <<"DATABASE_URL", "file">>}]
    /\ UNCHANGED <<uapp, dir, builds, sent, projects, umix>>

\* `init` makes an app of a repository, in a folder that has none yet.
CmdInit(l, a) ==
    /\ laptop[l].up.at = "off" /\ laptop[l].link = {} /\ projects /\ UMay("init") /\ Fresh(a)
    /\ uapp' = [uapp EXCEPT ![a] = "git"]
    /\ laptop' = [laptop EXCEPT ![l].link = {a}]
    /\ UNCHANGED <<dir, builds, sent, given, projects>>

-----------------------------------------------------------------------------
(* The panel's store.                                                      *)

NoDir == [stored |-> {}, temps |-> {}]
The(d) == IF d = {} THEN NoDir ELSE CHOOSE x \in d : TRUE

\* A temporary file of a directory, made and removed.
WithTemp(d, l) == [d EXCEPT !.temps = @ \cup {l}]
WithoutTemp(d, l) == [d EXCEPT !.temps = @ \ {l}]

\* Only an app that is sent to takes an upload.
UploadSource(l) ==
    /\ laptop[l].up.at = "send"
    /\ \E a \in laptop[l].up.target :
        IF uapp[a] # "upload" THEN Ends(l) ELSE laptop' = [laptop EXCEPT ![l].up.at = "receive"]
    /\ UNCHANGED <<uapp, dir, builds, sent, given, projects, umix>>

\* Received into a temporary file of the app's directory, which is made if it is not there.
SaveBegins(l) ==
    /\ laptop[l].up.at = "receive"
    /\ laptop' = [laptop EXCEPT ![l].up.at = "inspect"]
    /\ \E a \in laptop[l].up.target :
        /\ sent' = [sent EXCEPT ![a] = Append(@, [sha |-> laptop[l].up.packed, by |-> l, kept |-> FALSE])]
        /\ dir' = [dir EXCEPT ![a] = {WithTemp(The(@), l)}]
    /\ UNCHANGED <<uapp, builds, given, projects, umix>>

\* The file keeps the time at which it was received.
ReceivedAt(a, l) == CHOOSE i \in DOMAIN sent[a] : sent[a][i].by = l /\ \A j \in DOMAIN sent[a] : sent[a][j].by = l => j <= i
\* Renamed to its hash, over one of the same name.
Rename(d, l, code, at) ==
    [temps |-> d.temps \ {l}, stored |-> {u \in d.stored : u.sha # code} \cup {[sha |-> code, at |-> at]}]

\* Named without being looked at.
SaveEnds_NoInspect(l) ==
    /\ laptop[l].up.at = "inspect"
    /\ \E a \in laptop[l].up.target :
        IF l \notin The(dir[a]).temps THEN Ends(l) /\ UNCHANGED <<dir, sent>>
        ELSE /\ laptop' = [laptop EXCEPT ![l].up.at = "prune"]
             /\ dir' = [dir EXCEPT ![a] = {Rename(The(@), l, laptop[l].up.packed, ReceivedAt(a, l))}]
             /\ sent' = [sent EXCEPT ![a][ReceivedAt(a, l)].kept = TRUE]
    /\ UNCHANGED <<uapp, builds, given, projects, umix>>
\* Inspected and then named; refused, the file goes.  With the directory gone there is
\* nothing to rename.
SaveEnds(l) ==
    /\ laptop[l].up.at = "inspect"
    /\ \E a \in laptop[l].up.target :
        IF l \notin The(dir[a]).temps THEN Ends(l) /\ UNCHANGED <<dir, sent>>
        ELSE IF Inspect(ArchiveOf[laptop[l].up.packed]) # "ok"
               THEN Ends(l) /\ dir' = [dir EXCEPT ![a] = {WithoutTemp(The(@), l)}] /\ UNCHANGED sent
               ELSE /\ laptop' = [laptop EXCEPT ![l].up.at = "prune"]
                    /\ dir' = [dir EXCEPT ![a] = {Rename(The(@), l, laptop[l].up.packed, ReceivedAt(a, l))}]
                    /\ sent' = [sent EXCEPT ![a][ReceivedAt(a, l)].kept = TRUE]
    /\ UNCHANGED <<uapp, builds, given, projects, umix>>

SentAfter(stored, u) == {x \in stored : x.at > u.at}
Newest(stored) == {u \in stored : SentAfter(stored, u) = {}}
Pruned_Oldest(stored) == {u \in stored : Cardinality({x \in stored : x.at < u.at}) < Keep}
Pruned(stored) == {u \in stored : Cardinality(SentAfter(stored, u)) < Keep}

PruneUploads(l) ==
    /\ laptop[l].up.at = "prune"
    /\ laptop' = [laptop EXCEPT ![l].up.at = "deploy"]
    /\ \E a \in laptop[l].up.target :
        dir' = [dir EXCEPT ![a] = {[d EXCEPT !.stored = Pruned(@)] : d \in dir[a]}]
    /\ UNCHANGED <<uapp, builds, sent, given, projects, umix>>

-----------------------------------------------------------------------------
(* Deployments.                                                            *)

\* The newest there is, whatever was asked for.
UploadToDeploy_Latest(a, requested) == Newest(The(dir[a]).stored)
\* The one asked for if it is there, or the newest.
UploadToDeploy(a, requested) ==
    IF requested = {} THEN Newest(The(dir[a]).stored) ELSE {u \in The(dir[a]).stored : {u.sha} = requested}

\* A deployment stops the earlier ones of its app.
Queue(a, u, by) ==
    builds' = Append([i \in DOMAIN builds |-> IF builds[i].app = a /\ builds[i].status = "queued"
                                                THEN [builds[i] EXCEPT !.status = "superseded"] ELSE builds[i]],
                     [app |-> a, commit |-> u.sha, at |-> u.at, by |-> by, got |-> {}, status |-> "queued"])

DeployUpload(l) ==
    /\ laptop[l].up.at = "deploy"
    /\ Ends(l)
    /\ \E a \in laptop[l].up.target :
        LET found == IF uapp[a] = "upload" THEN UploadToDeploy(a, {laptop[l].up.packed}) ELSE {}
        IN  IF found = {} THEN UNCHANGED builds ELSE \E u \in found : Queue(a, u, {laptop[l].up.packed})
    /\ UNCHANGED <<uapp, dir, sent, given, projects, umix>>

DeployButton(a) ==
    /\ UMay("button") /\ uapp[a] = "upload" /\ \E u \in UploadToDeploy(a, {}) : Queue(a, u, {})
    /\ UNCHANGED <<laptop, uapp, dir, sent, given, projects>>

\* The build's first container runs: what is sent into it is the file of that name, if it is
\* still there.  A container that never runs, or stops, ends the build.
DeliverUpload(i, ready) ==
    /\ builds[i].status = "queued"
    /\ LET found == {u \in The(dir[builds[i].app]).stored : u.sha = builds[i].commit}
       IN  builds' = [builds EXCEPT ![i].status = IF ~ready THEN "failed" ELSE IF found = {} THEN "missing" ELSE "delivered",
                                    ![i].got = IF ready THEN {u.sha : u \in found} ELSE {}]
    /\ IF ready THEN UNCHANGED umix ELSE UMay("cut")
    /\ UNCHANGED <<laptop, uapp, dir, sent, given, projects>>

-----------------------------------------------------------------------------
(* The end of an app, and of the process.                                  *)

\* The row goes, then the directory.
DeleteApp(a) ==
    /\ UMay("delete") /\ uapp[a] \in {"upload", "git"}
    /\ uapp' = [uapp EXCEPT ![a] = "gone"]
    /\ dir' \in {dir, [dir EXCEPT ![a] = {}]}
    /\ UNCHANGED <<laptop, builds, sent, given, projects>>

\* Its project takes the row along and leaves the directory.
DeleteProject ==
    /\ UMay("project") /\ projects /\ projects' = FALSE
    /\ uapp' = [a \in UApps |-> IF uapp[a] = "free" THEN "free" ELSE "gone"]
    /\ UNCHANGED <<laptop, dir, builds, sent, given>>

\* Only directories with uploads.
SweepUploads_OnlyStored ==
    /\ \E a \in UApps : uapp[a] = "gone" /\ The(dir[a]).stored # {}
    /\ dir' = [a \in UApps |-> IF uapp[a] = "gone" /\ The(dir[a]).stored # {} THEN {} ELSE dir[a]]
    /\ UNCHANGED <<laptop, uapp, builds, sent, given, projects, umix>>
\* Every hour: the directories of apps that are not there.
SweepUploads ==
    /\ \E a \in UApps : uapp[a] = "gone" /\ dir[a] # {}
    /\ dir' = [a \in UApps |-> IF uapp[a] = "gone" THEN {} ELSE dir[a]]
    /\ UNCHANGED <<laptop, uapp, builds, sent, given, projects, umix>>

\* The panel stops: requests are cut, temporary files stay, builds that ran are failed.
PanelStops ==
    /\ UMay("crash")
    /\ laptop' = [l \in Laptops |-> [laptop[l] EXCEPT !.up = NoCommand]]
    /\ builds' = [i \in DOMAIN builds |-> IF builds[i].status = "queued" THEN [builds[i] EXCEPT !.status = "failed"] ELSE builds[i]]
    /\ dir' = [a \in UApps |-> {[d EXCEPT !.temps = IF @ = {} THEN {} ELSE {"stale"}] : d \in dir[a]}]
    /\ UNCHANGED <<uapp, sent, given, projects>>

UpStep(l) ==
    \/ ResolveOrCreateEnvironment(l) \/ SaveProjectFile(l) \/ FindApp(l) \/ UploadSource(l) \/ SaveBegins(l) \/ SaveEnds(l)
    \/ PruneUploads(l) \/ DeployUpload(l) \/ \E a \in UApps : CreateUploadApp(l, a)
UploadStep == SweepUploads \/ \E l \in Laptops : UpStep(l)
UploadNext ==
    \/ SweepUploads \/ PanelStops \/ DeleteProject
    \/ \E l \in Laptops : \/ UpStep(l)
                          \/ \E new, dotenv \in BOOLEAN : UpBegins(l, new, dotenv)
                          \/ \E v \in Versions : Edit(l, v)
                          \/ \E m \in Laptops : Clone(l, m)
                          \/ \E a \in UApps : CmdInit(l, a)
    \/ \E a \in UApps : DeployButton(a) \/ DeleteApp(a)
    \/ \E i \in DOMAIN builds, ready \in BOOLEAN : DeliverUpload(i, ready)

UploadSpec == UploadInit /\ [][UploadNext]_uploadVars

-----------------------------------------------------------------------------
\* One app or none.
OneApp == {s \in SUBSET UApps : \A a, b \in s : a = b}
Command ==
    [packed : Versions, dotenv : BOOLEAN, target : OneApp,
     at : {"place", "create", "link", "find", "send", "receive", "inspect", "prune", "deploy"}]
\* Every variable has the values the command, the requests and the panel's disk can have.
UploadTypeOK ==
    /\ laptop \in [Laptops -> [code : Versions, link : OneApp, up : {NoCommand} \cup Command]]
    /\ uapp \in [UApps -> {"free", "upload", "git", "gone"}]
    /\ dir \in [UApps -> SUBSET [stored : SUBSET [sha : Versions, at : Nat], temps : SUBSET (Laptops \cup {"stale"})]]
    /\ builds \in Seq([app : UApps, commit : Versions, at : Nat, by : SUBSET Versions, got : SUBSET Versions,
                       status : {"queued", "superseded", "failed", "missing", "delivered"}])
    /\ sent \in [UApps -> Seq([sha : Versions, by : Laptops, kept : BOOLEAN])]
    /\ given \in [UApps -> SUBSET ({"KEY", "DATABASE_URL"} \X {"file", "database"})]
    /\ projects \in BOOLEAN /\ umix \in [kinds : SUBSET UploadKinds, moves : Nat]
    /\ \A a \in UApps : \A d, e \in dir[a] : d = e

\* "Read the way git reads it": a file is sent unless it, or a folder it is in, is left
\* out, and for that the ignore file nearest to it that has something to say decides,
\* by its last line that does (the code keeps one list of rules for the whole walk).
\* And what is sent the panel takes, if it is not too much: no secrets file, no link
\* (pack, ignored, Inspect).
LeftOut(tree, rel, isDir) ==
    LET said(d) == SelectSeq(LoadDir(IF d = 0 THEN NewIgnorer(tree.builtIn) ELSE <<>>, tree, SubSeq(rel, 1, d)),
                             LAMBDA r : RuleMatches(r, rel, isDir))
        speaking == {d \in 0 .. Len(rel) - 1 : said(d) # <<>>}
        nearest == CHOOSE d \in speaking : \A e \in speaking : e <= d
    IN  \/ Last(rel) \in AlwaysLeftOut \/ (~isDir /\ IsSecretsFile(Last(rel)))
        \/ speaking # {} /\ ~Last(said(nearest)).negate
SentIsWhatGitKeeps ==
    \A p \in folder.packed :
        /\ ToSet(p.files) = {e \in ToSet(folder.tree.entries) : e.type = "file"
                               /\ \A n \in 1 .. Len(e.path) : ~LeftOut(folder.tree, SubSeq(e.path, 1, n), n < Len(e.path))}
        /\ Inspect(p.files) = CheckPacked(p.files)

\* What a build is given is the code that the person who asked for it had packed, and
\* the panel had found nothing wrong with, however many others sent in between
\* (Save, uploadToDeploy, deliverUpload).
BuildsWhatWasSent ==
    \A i \in DOMAIN builds : \A v \in builds[i].got :
        /\ Inspect(ArchiveOf[v]) = "ok"
        /\ builds[i].by # {} => {v} = builds[i].by

\* "Gone since only if it was pruned by ten newer uploads": a build does not find its
\* upload only if that many others came after it, or the app is gone.
MissingMeansOvertaken ==
    \A i \in DOMAIN builds : LET b == builds[i] IN
        b.status = "missing" =>
            \/ uapp[b.app] = "gone"
            \/ Cardinality({sent[b.app][j].sha : j \in {j \in DOMAIN sent[b.app] : j > b.at /\ sent[b.app][j].kept}}) >= Keep

\* The code of an app goes with the app, also when it went with its project, when an
\* upload was on its way, and when the panel stopped in between (handleDeleteApp,
\* sweepUploads).
CodeGoesWithTheApp == \A a \in UApps : uapp[a] = "gone" ~> (uapp[a] = "gone" /\ dir[a] = {})
=============================================================================
