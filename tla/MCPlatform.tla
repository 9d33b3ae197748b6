----------------------------- MODULE MCPlatform -----------------------------
(***************************************************************************)
(* The parts of the panel that others plug into, side by side: plugins,    *)
(* the notifications some of them deliver, the folder a laptop packs, and  *)
(* the uploads it is sent as.  A behaviour is one part's; notifications    *)
(* run beside the plugins they go through.                                 *)
(***************************************************************************)
EXTENDS Notify, Uploads

VARIABLE part

Id(words, marks) == [words |-> words, marks |-> marks]
IdA == Id(<<"com", "a", "b">>, <<".", ".">>)
IdB == Id(<<"com", "a", "b">>, <<".", "-">>)
IdC == Id(<<"com", "c">>, <<".">>)

PluginIdsMC == {IdA, IdC}
TwinIdsMC == {IdA, IdB}

Sub(event, blocking) == [event |-> event, blocking |-> blocking]
Key(k) == [key |-> k]
Channel(id) == [kind |-> "notify.channel", id |-> id, settings |-> <<>>]
Manifest(id, image, permissions, events, settings, provides) ==
    [id |-> id, image |-> image, complete |-> TRUE, permissions |-> permissions, events |-> events,
     settings |-> settings, provides |-> provides]
Plain(id) == Manifest(id, "v1", <<"apps:read">>, <<Sub("deploy.before", TRUE), Sub("app.created", FALSE)>>,
                      <<Key("url")>>, <<Channel("chat")>>)
AllManifests == {
    Plain(IdA), Plain(IdB), Plain(IdC),
    Manifest(IdA, "v2", <<"apps:write">>, <<Sub("deploy.before", FALSE)>>, <<>>, <<>>),
    Manifest(IdA, "v2", <<"read">>, <<>>, <<>>, <<>>),
    Manifest(IdA, "v2", <<>>, <<Sub("app.created", TRUE)>>, <<>>, <<>>),
    Manifest(IdA, "v2", <<>>, <<Sub("app.created", FALSE), Sub("app.created", FALSE)>>, <<>>, <<>>),
    Manifest(IdA, "v2", <<>>, <<>>, <<Key("url"), Key("url")>>, <<>>),
    Manifest(IdA, "v2", <<>>, <<>>, <<>>, <<Channel("chat"), Channel("chat")>>)}

ManifestsMC == {m \in AllManifests : m.id \in PluginIds}

PMix(kinds, moves, faults) == [kinds |-> kinds, moves |-> moves, faults |-> faults]
PluginMixesMC == {
    PMix({"install", "remove", "settings", "switch", "overlap", "manifest"}, 4, 1),
    PMix({"install", "ask", "tell", "member", "switch"}, 5, 1)}

Kind(p, name) == [plugin |-> p, name |-> name]
Draft(team, kind, events, host, complete) ==
    [team |-> team, kind |-> kind, events |-> events, host |-> host, complete |-> complete]
DraftsMC == {
    Draft("t1", Kind({}, "email"), {}, FALSE, TRUE),
    Draft("t1", Kind({}, "webhook"), {"server.lost"}, FALSE, TRUE),
    Draft("t2", Kind({}, "webhook"), {}, FALSE, FALSE),
    Draft("t1", Kind({IdA}, "chat"), {}, FALSE, TRUE),
    Draft("t2", Kind({}, "pigeon"), {}, FALSE, TRUE)}
NMix(kinds, moves, news) == [kinds |-> kinds, moves |-> moves, news |-> news]
NotifyMixesMC == {
    NMix({"create", "delete", "smtp", "test"}, 3, 1), NMix({"create", "key"}, 3, 1), NMix({"create", "delete", "list"}, 3, 2)}
HangMixMC == {NMix({"create", "hang", "smtp"}, 2, 1)}
TestMixMC == {NMix({"create", "smtp", "test"}, 3, 0)}

\* Beside the notifications a plugin that was installed is switched or removed.
BesideMC == PMix({"switch", "remove"}, 1, 0)
TokenMC == [n |-> 1, scopes |-> Plain(IdA).permissions]
InstalledMC == [manifest |-> Plain(IdA), status |-> "running", enabled |-> TRUE, token |-> TokenMC]
PluginStands ==
    /\ plugin = [p \in PluginIds |-> IF p = IdA THEN {InstalledMC} ELSE {}]
    /\ served = [p \in PluginIds |-> Plain(p)] /\ ptokens = {TokenMC} /\ stray = {} /\ pserial = 1
    /\ agreed = [p \in PluginIds |-> IF p = IdA THEN {Plain(p).permissions} ELSE {}]
    /\ kept = [p \in PluginIds |-> <<>>] /\ belongs = PTeams
    /\ space = [n \in Namespaces |-> IF n # PluginNamespace(IdA) THEN {} ELSE
           {[owner |-> IdA, image |-> "v1", replicas |-> 1, secret |-> {PluginSecret(TokenMC, <<>>)},
             pod |-> {PluginSecret(TokenMC, <<>>)}]}]
    /\ install = NoRequest /\ removal = NoRequest /\ update = NoRequest /\ asking = NoRequest
    /\ pmix = BesideMC

AnyOf(S) == CHOOSE x \in S : TRUE

File(p) == [path |-> p, type |-> "file", size |-> 1]
Folder(p) == [path |-> p, type |-> "dir", size |-> 0]
Link(p) == [path |-> p, type |-> "link", size |-> 0]
Line(d, segs, negate, dirOnly, rooted) == [dir |-> d, segs |-> segs, negate |-> negate, dirOnly |-> dirOnly, rooted |-> rooted]
S(x) == <<Segment({x})>>
EntriesMC == <<File(<<".env">>), File(<<".env.example">>), Folder(<<"node_modules">>), File(<<"node_modules", "a">>),
               Folder(<<"src">>), File(<<"src", "a">>), Folder(<<"src", "cache">>), File(<<"src", "cache", "a">>),
               Link(<<"src", "l">>), Folder(<<"web">>), File(<<"web", "a">>)>>
RootLines == {Line(<<>>, <<>>, FALSE, FALSE, FALSE), Line(<<>>, S("a"), FALSE, FALSE, FALSE), Line(<<>>, S("a"), FALSE, TRUE, FALSE),
              Line(<<>>, S("src"), FALSE, TRUE, TRUE), Line(<<>>, S("a"), FALSE, FALSE, TRUE), Line(<<>>, <<Deep>> \o S("a"), TRUE, FALSE, FALSE),
              Line(<<>>, S("src") \o <<Deep>>, FALSE, FALSE, FALSE), Line(<<>>, S("cache"), TRUE, FALSE, FALSE),
              Line(<<>>, S(".env"), TRUE, FALSE, FALSE), Line(<<>>, S("node_modules"), TRUE, TRUE, FALSE)}
SrcLines == {Line(<<"src">>, <<>>, FALSE, FALSE, FALSE), Line(<<"src">>, S("a"), TRUE, FALSE, FALSE), Line(<<"src">>, S("a"), TRUE, FALSE, TRUE),
             Line(<<"src">>, S("cache"), FALSE, TRUE, FALSE), Line(<<"src">>, S("cache") \o S("a"), FALSE, FALSE, FALSE)}
TreesMC == {[entries |-> EntriesMC, builtIn |-> Line(<<>>, S("cache"), FALSE, TRUE, FALSE), lines |-> <<x, y, z>>] :
            x \in RootLines, y \in RootLines, z \in SrcLines}

LimitsMC == [entries |-> 5, unpacked |-> 5]
ArchiveOfMC == [v1 |-> <<File(<<"a">>)>>, v2 |-> <<File(<<"a">>), File(<<"b">>)>>, odd |-> <<File(<<"C:", "a">>)>>]
UMix(kinds, moves) == [kinds |-> kinds, moves |-> moves]
UploadMixesMC == {UMix({"up", "edit", "clone"}, 5), UMix({"up", "button", "edit"}, 3), UMix({"up", "edit", "delete", "crash"}, 3),
                  UMix({"up", "clone", "delete"}, 4), UMix({"up", "project", "init", "cut"}, 4), UMix({"up", "new", "dotenv", "project"}, 3)}

\* Two people send the same code, and one of them other code in between.
SameCodeMixMC == {UMix({"up", "edit", "clone", "button"}, 7)}

PlatformInit ==
    /\ part \in {"plugins", "notify", "folder", "uploads"}
    /\ part \in {"plugins", "notify"} \/ (served = [p \in PluginIds |-> Plain(p)] /\ pmix = AnyOf(PluginMixes))
    /\ part = "notify" \/ nmix = AnyOf(NotifyMixes)
    /\ part = "folder" \/ folder = [tree |-> AnyOf(Trees), packed |-> {}]
    /\ part = "uploads" \/ umix = AnyOf(UploadMixes)
    /\ IF part = "notify" THEN PluginStands ELSE PluginInit
    /\ NotifyInit /\ FolderInit /\ UploadInit
PlatformNext ==
    \/ part \in {"plugins", "notify"} /\ PluginNext /\ UNCHANGED <<notifyVars, folderVars, uploadVars, part>>
    \/ part = "notify" /\ NotifyNext /\ UNCHANGED <<pluginVars, folderVars, uploadVars, part>>
    \/ part = "folder" /\ FolderNext /\ UNCHANGED <<pluginVars, notifyVars, uploadVars, part>>
    \/ part = "uploads" /\ UploadNext /\ UNCHANGED <<pluginVars, notifyVars, folderVars, part>>
\* The goroutines of the process run; the sweep comes round, and requests go on or are cut.
NotifyFairness == WF_notifyVars(part = "notify" /\ NotifyStep)
UploadFairness == WF_uploadVars(part = "uploads" /\ UploadStep)
PlatformSpec ==
    /\ PlatformInit /\ [][PlatformNext]_<<pluginVars, notifyVars, folderVars, uploadVars, part>>
    /\ NotifyFairness /\ UploadFairness
NotifyOnly == PlatformSpec /\ part = "notify"
PluginsOnly == PlatformSpec /\ part = "plugins"
FolderOnly == PlatformSpec /\ part = "folder"
UploadsOnly == PlatformSpec /\ part = "uploads"
=============================================================================
