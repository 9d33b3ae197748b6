------------------------------- MODULE Notify -------------------------------
(***************************************************************************)
(* Notifications (notify/dispatcher.go, notify/notify.go,                  *)
(* notify/provider.go, api/integrations_handlers.go, store/misc.go): the   *)
(* channels of a team, an announcement that goes through them one by one,  *)
(* the goroutine that sends to each, the test button, the panel's SMTP     *)
(* settings and the wait at shutdown, which an announcement under way does *)
(* not hold up.  A channel of a kind a plugin provides goes through that   *)
(* plugin (plugins/call.go, cluster/pluginprovider.go), which may be off   *)
(* or gone by then.                                                        *)
(***************************************************************************)
EXTENDS Plugins

CONSTANTS
    Channels,    \* channels that may be made
    Drafts,      \* what people fill into the form of a new channel
    NotifyMixes  \* what a behaviour meets

ASSUME NotifyAssumption ==
    \A x \in NotifyMixes : x.moves \in Nat /\ x.news \in Nat /\ x.kinds \subseteq {"create", "delete", "smtp", "test", "hang", "key", "list"}

VARIABLES
    channel,  \* channel[c]: its row: {} or one record
    smtp,     \* the panel has SMTP settings
    calls,    \* announcements under way: the channels still to be handed to a goroutine
    sends,    \* goroutines that send
    notices,  \* history: what was announced, to whom it is due and what became of it
    tested,   \* history: what the test button said of a channel
    stopping, \* the process: "up", "waiting" for notifications, "gone"
    nmix

notifyVars == <<channel, smtp, calls, sends, notices, tested, stopping, nmix>>

NMay(kind) == kind \in nmix.kinds /\ nmix.moves > 0 /\ nmix' = [nmix EXCEPT !.moves = @ - 1]

NotifyInit ==
    /\ channel = [c \in Channels |-> {}] /\ smtp = FALSE
    /\ calls = {} /\ sends = {} /\ notices = <<>> /\ tested = {}
    /\ stopping = "up" /\ nmix \in NotifyMixes

-----------------------------------------------------------------------------
(* The kinds of channels.                                                  *)

NotifyEvents == {"deploy.failed", "server.lost"}
BuiltIn == {"telegram", "discord", "webhook", "email"}
IsProvided(kind) == kind.plugin # {}

\* The plugin that provides a kind: installed, switched on and still providing it.
PluginProvider(kind) ==
    {p \in kind.plugin : \E r \in plugin[p] :
        r.enabled /\ \E x \in ToSet(r.manifest.provides) : x.kind = "notify.channel" /\ x.id = kind.name}

\* The kinds plugins provide now, offered beside the built-in ones.
ProvidedKinds ==
    UNION {UNION {{[plugin |-> {p}, name |-> x.id] : x \in ToSet(r.manifest.provides)} : r \in {r \in plugin[p] : r.enabled}}
           : p \in PluginIds}
OfferedKinds == ProvidedKinds \cup {[plugin |-> {}, name |-> k] : k \in BuiltIn}

\* A plugin is asked whether a configuration will do; the built-in kinds look at it themselves.
ValidateConfig(draft, answer) ==
    IF IsProvided(draft.kind) THEN PluginProvider(draft.kind) # {} /\ answer
    ELSE draft.kind.name \in BuiltIn /\ draft.complete

\* What a call to a provider comes to: "reached" when the plugin said that it is done.
Call(kind, answer) == IF PluginProvider(kind) = {} THEN "no provider" ELSE IF answer THEN "reached" ELSE "failed"

\* Without a host there is nothing to connect to; a server may refuse, and away from port
\* 465 the connection has no deadline.
SendEmail(host, answer) == IF ~host THEN "no smtp" ELSE IF answer THEN "reached" ELSE "failed"

\* A send ends one way or the other.
Send(kind, host, answer) ==
    IF IsProvided(kind) THEN Call(kind, answer)
    ELSE IF kind.name = "email" THEN SendEmail(host, answer)
    ELSE IF answer THEN "reached" ELSE "failed"

-----------------------------------------------------------------------------
(* The channels of a team.                                                 *)

CreateChannel(c, draft, answer) ==
    /\ stopping = "up" /\ NMay("create") /\ channel[c] = {}
    /\ draft.kind \in OfferedKinds /\ ValidateConfig(draft, answer)
    /\ channel' = [channel EXCEPT ![c] = {[team |-> draft.team, kind |-> draft.kind, events |-> draft.events,
                                           host |-> draft.host, opens |-> TRUE]}]
    /\ UNCHANGED <<smtp, calls, sends, notices, tested, stopping>>

DeleteChannel(c) ==
    /\ stopping = "up" /\ NMay("delete") /\ channel[c] # {}
    /\ channel' = [channel EXCEPT ![c] = {}]
    /\ UNCHANGED <<smtp, calls, sends, notices, tested, stopping>>

\* A channel sealed under a key the panel does not have any more.
KeyIsLost(c) ==
    /\ NMay("key") /\ \E r \in channel[c] : channel' = [channel EXCEPT ![c] = {[r EXCEPT !.opens = FALSE]}]
    /\ UNCHANGED <<smtp, calls, sends, notices, tested, stopping>>

SaveSMTP ==
    /\ stopping = "up" /\ NMay("smtp") /\ smtp' = TRUE
    /\ UNCHANGED <<channel, calls, sends, notices, tested, stopping>>

-----------------------------------------------------------------------------
(* Announcing.                                                             *)

\* No event named is every event.
Subscribes(r, event) == r.events = {} \/ event \in r.events

\* What the channel does not say itself comes from the panel's settings.
FillSMTPFromSettings(r) == r.host \/ smtp

\* The team's channels are listed.  The goroutine that has the news asks nobody whether the
\* panel is stopping; a list the store refuses is logged, and nobody is told.
SentTo(team, event) == {c \in Channels : \E r \in channel[c] : r.team = team /\ Subscribes(r, event)}
Announce(team, event) ==
    /\ stopping # "gone" /\ Len(notices) < nmix.news
    /\ LET n == Len(notices) + 1
           listed == UNION {{[c |-> c, row |-> r] : r \in channel[c]} : c \in SentTo(team, event)}
       IN  \/ /\ calls' = calls \cup {[n |-> n, left |-> listed]} /\ UNCHANGED nmix
              /\ notices' = Append(notices, [team |-> team, due |-> SentTo(team, event), lost |-> {}, ended |-> <<>>])
           \/ /\ NMay("list") /\ UNCHANGED calls
              /\ notices' = Append(notices, [team |-> team, due |-> {}, lost |-> {}, ended |-> <<>>])
    /\ UNCHANGED <<channel, smtp, sends, tested, stopping>>

\* The key the channel was sealed under may have gone since the list was read.
Opens(x) == x.row.opens /\ \A r \in channel[x.c] : r.opens
GoesOn(call, x) == calls' = (calls \ {call}) \cup {[call EXCEPT !.left = @ \ {x}]}

\* One that cannot be read ends the announcement.
HandOver_StopsAtUnreadable(call, x) ==
    /\ stopping # "gone" /\ call \in calls /\ x \in call.left
    /\ \/ /\ Opens(x) /\ GoesOn(call, x) /\ UNCHANGED notices
          /\ sends' = sends \cup {[n |-> call.n, c |-> x.c, kind |-> x.row.kind, host |-> FillSMTPFromSettings(x.row)]}
       \/ /\ ~Opens(x) /\ calls' = (calls \ {call}) \cup {[call EXCEPT !.left = {}]} /\ UNCHANGED sends
          /\ notices' = [notices EXCEPT ![call.n].due = @ \ {x.c}]
    /\ UNCHANGED <<channel, smtp, tested, stopping, nmix>>
\* Each channel in turn: what it does not say itself is filled in, and a goroutine sends to
\* it from then on.  A channel that cannot be read is skipped, and the others are sent to.
HandOver(call, x) ==
    /\ stopping # "gone" /\ call \in calls /\ x \in call.left /\ GoesOn(call, x)
    /\ \/ /\ Opens(x) /\ UNCHANGED notices
          /\ sends' = sends \cup {[n |-> call.n, c |-> x.c, kind |-> x.row.kind, host |-> FillSMTPFromSettings(x.row)]}
       \/ /\ ~Opens(x) /\ UNCHANGED sends
          /\ notices' = [notices EXCEPT ![call.n].due = @ \ {x.c}]
    /\ UNCHANGED <<channel, smtp, tested, stopping, nmix>>

\* What caused it may be over: a send has a context of its own and thirty seconds;
\* a panic in it is caught.
SendEnds(s, answer) ==
    /\ s \in sends /\ ~("hang" \in nmix.kinds /\ s.kind.name = "email" /\ s.host)
    /\ sends' = sends \ {s}
    /\ notices' = [notices EXCEPT ![s.n].ended = Append(@, [c |-> s.c, how |-> Send(s.kind, s.host, answer)])]
    /\ UNCHANGED <<channel, smtp, calls, tested, stopping, nmix>>

\* The test button sends at once and with the configuration of the channel alone.
TestChannel(c, answer) ==
    /\ stopping = "up" /\ NMay("test")
    /\ \E r \in channel[c] : r.opens /\ tested' = {[c |-> c, how |-> Send(r.kind, r.host, answer)]}
    /\ UNCHANGED <<channel, smtp, calls, sends, notices, stopping>>

Stop ==
    /\ stopping = "up" /\ stopping' = "waiting"
    /\ UNCHANGED <<channel, smtp, calls, sends, notices, tested, nmix>>
\* The process goes once every goroutine it has counted is done; what an announcement that
\* is still under way had left to hand over goes with it.
Lost(n) == UNION {{x.c : x \in call.left} : call \in {call \in calls : call.n = n}}
Wait ==
    /\ stopping = "waiting" /\ sends = {} /\ stopping' = "gone" /\ calls' = {}
    /\ notices' = [n \in DOMAIN notices |-> [notices[n] EXCEPT !.lost = Lost(n)]]
    /\ UNCHANGED <<channel, smtp, sends, tested, nmix>>

NotifyStep ==
    \/ Wait \/ \E call \in calls : \E x \in call.left : HandOver(call, x)
    \/ \E s \in sends, answer \in BOOLEAN : SendEnds(s, answer)
NotifyNext ==
    \/ NotifyStep \/ Stop \/ SaveSMTP
    \/ \E c \in Channels : \/ DeleteChannel(c) \/ KeyIsLost(c)
                           \/ \E answer \in BOOLEAN : TestChannel(c, answer) \/ \E d \in Drafts : CreateChannel(c, d, answer)
    \/ \E t \in PTeams, e \in NotifyEvents : Announce(t, e)

\* Beside the plugins, of which it only reads the rows.
NotifySpec ==
    PluginInit /\ NotifyInit
    /\ [][(PluginNext /\ UNCHANGED notifyVars) \/ (NotifyNext /\ UNCHANGED pluginVars)]_<<pluginVars, notifyVars>>

-----------------------------------------------------------------------------
\* A panel that has stopped has told every channel of the team that wanted to hear and
\* was handed to a goroutine, once, whatever became of the others: an unreadable
\* channel, a plugin that is gone and a server that refuses concern nobody else.  Only
\* what an announcement under way had still to hand over is lost (Notify, Wait).
GoneMeansTold ==
    stopping = "gone" =>
        \A i \in DOMAIN notices :
            /\ {x.c : x \in ToSet(notices[i].ended)} = notices[i].due \ notices[i].lost
            /\ Len(notices[i].ended) = Cardinality(notices[i].due \ notices[i].lost)

\* "So a deployment failure reported at the moment of a restart still goes out": what is
\* announced while the panel waits may be lost.
RestartNewsGoesOut == stopping = "gone" => \A i \in DOMAIN notices : notices[i].lost = {}

\* "Wait blocks until every notification already started has finished or timed out."
WaitEnds == stopping = "waiting" ~> stopping = "gone"

\* "This channel will not deliver notifications until it works" is said of a channel
\* that would not deliver one now.
TestTellsTheTruth ==
    \A x \in tested : x.how = "no smtp" => \A r \in channel[x.c] : r.kind.name = "email" => ~FillSMTPFromSettings(r)
=============================================================================
