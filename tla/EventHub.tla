------------------------------ MODULE EventHub ------------------------------
(***************************************************************************)
(* The realtime fan-out: internal/events/hub.go and the handler that       *)
(* writes a subscription to a browser, handleEventStream in                *)
(* internal/api/stream_handlers.go.                                        *)
(*                                                                         *)
(* Publishers (deployments, operations, requests) and browsers run         *)
(* concurrently.  What a goroutine does while it holds Hub.mu is one       *)
(* action; what it does before or after is another, so a number is taken   *)
(* (seq.Add) before the lock and the replay is sent after it.              *)
(*                                                                         *)
(* An event is its Seq, which also stands for the time it was made: both   *)
(* are taken in the same expression.  A browser keeps asking for the same  *)
(* topics, which the replay goes through in the order asked for.           *)
(***************************************************************************)
EXTENDS Naturals, Sequences, SequencesExt, FiniteSets

CONSTANTS
    Publishers,    \* goroutines that publish
    Browsers,      \* browsers, each with one stream at a time
    Topics,        \* topic names, numbered in the order a browser asks
    MaxSeq,        \* bound: how many events are published
    Buffer,        \* Hub.buffer, the depth of a subscriber's channel
    HistoryLimit,  \* Hub.historyLimit
    MaxTopics,     \* Hub.maxTopics
    HubFaults         \* which of "disconnect", "sweep", "restart" happen

ASSUME TopicsAssumption == Topics \subseteq Nat
ASSUME HubBoundsAssumption ==
    /\ MaxSeq \in Nat /\ Buffer \in Nat \ {0}
    /\ HistoryLimit \in Nat \ {0} /\ MaxTopics \in Nat \ {0}
ASSUME HubFaultsAssumption == HubFaults \subseteq {"disconnect", "sweep", "restart"}

Events == 1..MaxSeq

VARIABLES
    seq,      \* Hub.seq
    pub,      \* pub[p]: the event p has numbered and not delivered yet
    recent,  \* recent[t]: the events kept for t, <<>> when t has no entry
    lastAt,   \* lastAt[t]: when t last saw an event, 0 without an entry
    stream,   \* stream[b]: browser b's request, its handler and subscriber
    browser   \* browser[b]: what b knows

hub  == <<seq, pub, recent, lastAt>>
hubVars == <<hub, stream, browser>>

Known    == {t \in Topics : recent[t] # <<>>}

\* The subscriber is in Hub.subscribers, and its channel is open.
Registered(b) == stream[b].registered

-----------------------------------------------------------------------------
NoEvent == [seq |-> 0, topic |-> 0]

\* at: where the handler is.  alive: the request's context.  owed, got and
\* lost are history: what the subscription ought to bring, what it has, and
\* what was dropped.
NoStream ==
    [at |-> "off", alive |-> FALSE, registered |-> FALSE, watched |-> FALSE,
     ch |-> <<>>, replay |-> [t \in Topics |-> <<>>], dropped |-> 0, missed |-> 0,
     owed |-> {}, got |-> {}, lost |-> {}]

HubInit ==
    /\ seq = 0
    /\ pub = [p \in Publishers |-> NoEvent]
    /\ recent = [t \in Topics |-> <<>>]
    /\ lastAt  = [t \in Topics |-> 0]
    /\ stream  = [b \in Browsers |-> NoStream]
    /\ browser = [b \in Browsers |-> [last |-> 0, seen |-> {}, told |-> 0]]

(***************************************************************************)
(* Publish.                                                                *)
(***************************************************************************)
\* Bound: MaxSeq events in all.
Number(p) ==
    /\ pub[p] = NoEvent /\ seq < MaxSeq
    /\ seq' = seq + 1
    /\ \E t \in Topics : pub' = [pub EXCEPT ![p] = [seq |-> seq + 1, topic |-> t]]
    /\ UNCHANGED <<recent, lastAt, stream, browser>>

\* Mutant: the topic is counted after it was added.
Evicted_OneLate(t) ==
    IF t \in Known \/ Cardinality(Known) <= MaxTopics THEN {}
    ELSE {u \in Known : \A v \in Known : lastAt[u] <= lastAt[v]}

\* evictOldestLocked, when a new topic does not fit: the topic whose last
\* event is the oldest.
Evicted(t) ==
    IF t \in Known \/ Cardinality(Known) < MaxTopics THEN {}
    ELSE {u \in Known : \A v \in Known : lastAt[u] <= lastAt[v]}

\* The newest HistoryLimit events.
Trim(s) == IF Len(s) > HistoryLimit THEN Tail(s) ELSE s

\* Mutant: a full channel is written to all the same.
Send_Overwrites(st, e) ==
    IF Len(st.ch) < Buffer
    THEN [st EXCEPT !.ch = Append(@, e)]
    ELSE [st EXCEPT !.ch = Append(Tail(@), e)]

\* Mutant: every send is counted, not only the ones that did not fit.
Send_CountsAll(st, e) ==
    IF Len(st.ch) < Buffer
    THEN [st EXCEPT !.ch = Append(@, e), !.dropped = @ + 1]
    ELSE [st EXCEPT !.dropped = @ + 1, !.lost = @ \cup {e}]

\* The non-blocking send: a subscriber that is too far behind loses e.
Send(st, e) ==
    IF Len(st.ch) < Buffer
    THEN [st EXCEPT !.ch = Append(@, e)]
    ELSE [st EXCEPT !.dropped = @ + 1, !.lost = @ \cup {e}]

\* The whole section under Hub.mu.  Every browser asks for every topic.
Deliver(p) ==
    /\ pub[p] # NoEvent
    /\ LET e == pub[p].seq
           t == pub[p].topic
       IN
          /\ recent' = [u \in Topics |-> IF u = t THEN Trim(Append(recent[t], e))
                                          ELSE IF u \in Evicted(t) THEN <<>> ELSE recent[u]]
          /\ lastAt'  = [u \in Topics |-> IF u = t THEN e
                                          ELSE IF u \in Evicted(t) THEN 0 ELSE lastAt[u]]
          /\ stream'  = [b \in Browsers |->
                IF Registered(b)
                THEN Send([stream[b] EXCEPT !.owed = @ \cup {e}], e)
                ELSE stream[b]]
    /\ pub' = [pub EXCEPT ![p] = NoEvent]
    /\ UNCHANGED <<seq, browser>>

(***************************************************************************)
(* handleEventStream and Subscribe.                                        *)
(***************************************************************************)
\* What the history of t holds beyond the last event the browser saw, in its order: the n-th is
\* the one with which there are n.
After(s, last) == {i \in DOMAIN s : s[i] > last}
Nth(K, n) == CHOOSE i \in K : Cardinality({j \in K : j <= i}) = n
ToReplay(b, t) ==
    LET K == After(recent[t], browser[b].last) IN
    IF browser[b].last = 0 THEN <<>> ELSE [n \in 1..Cardinality(K) |-> recent[t][Nth(K, n)]]

\* The section of Subscribe under Hub.mu: the replay is collected and the
\* subscriber registered at once.
Subscribe(b) ==
    /\ stream[b].at = "off"
    /\ stream' = [stream EXCEPT ![b] = [NoStream EXCEPT
                     !.at = "replay", !.alive = TRUE, !.registered = TRUE,
                     !.replay = [t \in Topics |-> ToReplay(b, t)],
                     !.owed   = UNION {ToSet(ToReplay(b, t)) : t \in Topics}]]
    /\ browser' = [browser EXCEPT ![b].told = 0]
    /\ UNCHANGED hub

\* Mutant: an event that did not fit is counted and tried again.
Replay_TriesAgain(b) ==
    /\ stream[b].at = "replay"
    /\ \E t \in Topics :
          /\ stream[b].replay[t] # <<>>
          /\ \A u \in Topics : stream[b].replay[u] # <<>> => t <= u
          /\ stream' = [stream EXCEPT ![b] =
                Send(IF Len(@.ch) < Buffer THEN [@ EXCEPT !.replay[t] = Tail(@)] ELSE @,
                     Head(@.replay[t]))]
    /\ UNCHANGED <<hub, browser>>

\* After the unlock the replay goes into the channel, one event at a time,
\* with live events in between.
Replay(b) ==
    /\ stream[b].at = "replay"
    /\ \E t \in Topics :
          /\ stream[b].replay[t] # <<>>
          /\ \A u \in Topics : stream[b].replay[u] # <<>> => t <= u
          /\ stream' = [stream EXCEPT ![b] =
                Send([stream[b] EXCEPT !.replay[t] = Tail(@)], Head(stream[b].replay[t]))]
    /\ UNCHANGED <<hub, browser>>

\* Mutant: the subscription is tied to the request before the replay is sent.
WatchContext_Early(b) ==
    /\ stream[b].at = "replay" /\ ~stream[b].watched
    /\ stream' = [stream EXCEPT ![b].watched = TRUE,
                     ![b].at = IF \A t \in Topics : stream[b].replay[t] = <<>>
                               THEN "baseline" ELSE "replay"]
    /\ UNCHANGED <<hub, browser>>

\* Only now is the subscription tied to the life of the request.
WatchContext(b) ==
    /\ stream[b].at = "replay" /\ \A t \in Topics : stream[b].replay[t] = <<>>
    /\ stream' = [stream EXCEPT ![b].watched = TRUE, ![b].at = "baseline"]
    /\ UNCHANGED <<hub, browser>>

\* Mutant: at least one event is always reported.
Baseline_OneLess(b) ==
    /\ stream[b].at = "baseline"
    /\ stream' = [stream EXCEPT ![b].missed = stream[b].dropped - 1, ![b].at = "top"]
    /\ UNCHANGED <<hub, browser>>

\* What was missed by the time the loop starts is taken as known.
Baseline(b) ==
    /\ stream[b].at = "baseline"
    /\ stream' = [stream EXCEPT ![b].missed = stream[b].dropped, ![b].at = "top"]
    /\ UNCHANGED <<hub, browser>>

\* Mutant: the count is looked at and nothing is written.
Desync_Never(b) ==
    /\ stream[b].at = "top" /\ stream[b].alive
    /\ stream' = [stream EXCEPT ![b].at = "select"]
    /\ UNCHANGED <<hub, browser>>

\* The top of the loop: the browser is told when more events were dropped.
Desync(b) ==
    /\ stream[b].at = "top" /\ stream[b].alive
    /\ stream' = [stream EXCEPT ![b].missed = stream[b].dropped, ![b].at = "select"]
    /\ browser' = [browser EXCEPT ![b].told = IF stream[b].dropped > stream[b].missed
                                              THEN stream[b].dropped ELSE @]
    /\ UNCHANGED hub

\* select, a frame: the browser keeps its number to come back with.
Receive(b) ==
    /\ stream[b].at = "select" /\ stream[b].alive /\ stream[b].ch # <<>>
    /\ LET e == Head(stream[b].ch) IN
          /\ stream'  = [stream EXCEPT ![b].ch = Tail(@), ![b].at = "top", ![b].got = @ \cup {e}]
          /\ browser' = [browser EXCEPT ![b].last = e, ![b].seen = @ \cup {e}]
    /\ UNCHANGED hub

\* select, the heartbeat: only the top of the loop follows.
Heartbeat(b) ==
    /\ stream[b].at = "select" /\ stream[b].alive /\ stream[b].dropped > stream[b].missed
    /\ stream' = [stream EXCEPT ![b].at = "top"]
    /\ UNCHANGED <<hub, browser>>

\* The connection breaks: the request's context ends.
Disconnect(b) ==
    /\ "disconnect" \in HubFaults /\ stream[b].alive
    /\ stream' = [stream EXCEPT ![b].alive = FALSE]
    /\ UNCHANGED <<hub, browser>>

\* The goroutine of Subscribe removes the subscriber and closes the channel.
ContextDone(b) ==
    /\ stream[b].watched /\ ~stream[b].alive /\ Registered(b)
    /\ stream' = [stream EXCEPT ![b].registered = FALSE]
    /\ UNCHANGED <<hub, browser>>

\* The handler sees the end of the context, the closed channel or a failed
\* write, and its deferred Close removes the subscriber if it is still there.
HandlerReturns(b) ==
    /\ stream[b].at \in {"baseline", "top", "select"} /\ ~stream[b].alive
    /\ stream' = [stream EXCEPT ![b] = NoStream]
    /\ UNCHANGED <<hub, browser>>

(***************************************************************************)
(* Forgetting: Sweep and ForgetTopic; the panel restarts.                  *)
(***************************************************************************)
\* Sweep drops every topic whose last event is older than the limit.
Sweep ==
    /\ "sweep" \in HubFaults
    /\ \E cutoff \in Events :
          LET old == {t \in Known : lastAt[t] <= cutoff} IN
             /\ old # {}
             /\ recent' = [t \in Topics |-> IF t \in old THEN <<>> ELSE recent[t]]
             /\ lastAt'  = [t \in Topics |-> IF t \in old THEN 0 ELSE lastAt[t]]
    /\ UNCHANGED <<seq, pub, stream, browser>>

\* A new process: the counter starts again, the history is empty, and the
\* browsers come back with the numbers of the old one.
Restart ==
    /\ "restart" \in HubFaults /\ seq > 0
    /\ seq' = 0
    /\ pub' = [p \in Publishers |-> NoEvent]
    /\ recent' = [t \in Topics |-> <<>>]
    /\ lastAt'  = [t \in Topics |-> 0]
    /\ stream'  = [b \in Browsers |-> NoStream]
    /\ UNCHANGED browser

-----------------------------------------------------------------------------
HandlerStep(b) ==
    \/ Replay(b) \/ WatchContext(b) \/ Baseline(b) \/ Desync(b)
    \/ Receive(b) \/ Heartbeat(b) \/ HandlerReturns(b)

HubNext ==
    \/ \E p \in Publishers : Number(p) \/ Deliver(p)
    \/ \E b \in Browsers : \/ Subscribe(b) \/ HandlerStep(b)
                           \/ Disconnect(b) \/ ContextDone(b)
    \/ Sweep \/ Restart

HubSpec == HubInit /\ [][HubNext]_hubVars

\* A publisher that has its number takes the lock; the handler's loop and the
\* goroutine behind the context run.  Nobody is obliged to publish or to connect.
HubFairness ==
    /\ \A p \in Publishers : WF_hubVars(Deliver(p))
    /\ \A b \in Browsers : WF_hubVars(HandlerStep(b)) /\ WF_hubVars(ContextDone(b))

HubFairSpec == HubSpec /\ HubFairness

-----------------------------------------------------------------------------
(***************************************************************************)
(* Properties.                                                             *)
(***************************************************************************)
StreamType ==
    [at: {"off", "replay", "baseline", "top", "select"}, alive: BOOLEAN,
     registered: BOOLEAN, watched: BOOLEAN, ch: Seq(Events),
     replay: [Topics -> Seq(Events)], dropped: Nat, missed: Nat,
     owed: SUBSET Events, got: SUBSET Events, lost: SUBSET Events]

\* Every variable has the values the code can give it.
HubTypeOK ==
    /\ seq \in 0..MaxSeq
    /\ pub \in [Publishers -> [seq: Events, topic: Topics] \cup {NoEvent}]
    /\ recent \in [Topics -> Seq(Events)]
    /\ lastAt \in [Topics -> 0..MaxSeq]
    /\ stream \in [Browsers -> StreamType]
    /\ browser \in [Browsers -> [last: 0..MaxSeq, seen: SUBSET Events, told: Nat]]

\* Publish and Subscribe: "sending on a closed channel takes down whatever was
\* publishing".  Deliver only sends to a registered subscriber; the replay is
\* sent without the lock and without looking, and must find the channel open.
NoSendOnClosed ==
    \A b \in Browsers : stream[b].at = "replay" => Registered(b)

\* Where an event that is owed to a subscription can be.
Replaying(b) == UNION {ToSet(stream[b].replay[t]) : t \in Topics}
InChannel(b) == ToSet(stream[b].ch)

\* Subscribe: "an event published concurrently is either replayed or delivered
\* live, never both and never neither": it is at one place, and one only.
NeverNeither ==
    \A b \in Browsers : stream[b].owed
        = stream[b].got \cup InChannel(b) \cup Replaying(b) \cup stream[b].lost
NeverBoth ==
    \A b \in Browsers :
        /\ \A i, j \in DOMAIN stream[b].ch : i # j => stream[b].ch[i] # stream[b].ch[j]
        /\ (stream[b].got \cup stream[b].lost) \cap (InChannel(b) \cup Replaying(b)) = {}
        /\ InChannel(b) \cap Replaying(b) = {}
        /\ stream[b].got \cap stream[b].lost = {}

\* subscriber.dropped counts exactly what this subscriber missed.
DroppedIsExact == \A b \in Browsers : stream[b].dropped = Cardinality(stream[b].lost)

\* The four together: a subscription accounts for every event it is owed exactly
\* once - written, in its channel, still to be replayed, or dropped and counted -
\* while publishers, the replay, the context's goroutine and Close interleave.
EachEventOnce == NoSendOnClosed /\ NeverNeither /\ NeverBoth /\ DroppedIsExact

\* The hub stays bounded between sweeps: maxTopics and historyLimit.
HistoryIsBounded ==
    /\ Cardinality(Known) <= MaxTopics
    /\ \A t \in Topics : Len(recent[t]) <= HistoryLimit

\* handleEventStream: a browser that lost events while it was connected is
\* told how many, or its stream is over.
LossIsTold ==
    \A b \in Browsers, k \in Events :
        (stream[b].at \in {"top", "select"} /\ stream[b].dropped = k /\ stream[b].missed < k)
            ~> (browser[b].told >= k \/ stream[b].at = "off")

\* Subscribe: "Events published since lastSeq are replayed first, so a
\* reconnect does not lose the middle of a build log": a browser that has
\* caught up and knows of no loss has no hole in what it has seen.
CaughtUp(b) == /\ stream[b].at = "select" /\ stream[b].alive
               /\ stream[b].ch = <<>> /\ stream[b].lost = {}
ReconnectLosesNothing ==
    \A b \in Browsers, t \in Topics : CaughtUp(b) =>
        \A e \in ToSet(recent[t]) :
            (\E f \in browser[b].seen : f < e) => e \in browser[b].seen
=============================================================================
