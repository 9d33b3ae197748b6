---------------------------- MODULE UpkeepProofs ----------------------------
(***************************************************************************)
(* What is proved of the event hub, for every number of publishers,        *)
(* browsers, topics and events, every buffer and every history limit, of   *)
(* the minute tick, for every set of policies and schedules, and of the    *)
(* expressions themselves, on every calendar.                              *)
(***************************************************************************)
EXTENDS Scheduler, EventHub, FiniteSetTheorems, WellFoundedInduction, TLAPS

Distinct(s) == \A i, j \in DOMAIN s : i # j => s[i] # s[j]

\* ToSet and Distinct of the sequences the hub makes.
LEMMA ToSetOf ==
    ASSUME NEW S, NEW s \in Seq(S) PROVE ToSet(s) \subseteq S /\ (s = <<>> => ToSet(s) = {} /\ Distinct(s))
BY DEF ToSet, Distinct
LEMMA AppendIs ==
    ASSUME NEW S, NEW s \in Seq(S), NEW e \in S
    PROVE  /\ ToSet(Append(s, e)) = ToSet(s) \cup {e} /\ Append(s, e) \in Seq(S)
           /\ Distinct(s) /\ e \notin ToSet(s) => Distinct(Append(s, e))
<1>1. DOMAIN Append(s, e) = 1..(Len(s) + 1) /\ DOMAIN s = 1..Len(s) /\ Len(s) \in Nat
  OBVIOUS
<1>2. \A i \in 1..Len(s) : Append(s, e)[i] = s[i]
  OBVIOUS
<1>3. Append(s, e)[Len(s) + 1] = e
  OBVIOUS
<1>4. ToSet(Append(s, e)) = ToSet(s) \cup {e}
  BY <1>1, <1>2, <1>3 DEF ToSet
<1>5. Distinct(s) /\ e \notin ToSet(s) => Distinct(Append(s, e))
  BY <1>1, <1>2, <1>3 DEF ToSet, Distinct
<1>6. QED BY <1>4, <1>5
LEMMA TailIs ==
    ASSUME NEW S, NEW s \in Seq(S), s # <<>>
    PROVE  /\ Head(s) \in S /\ Tail(s) \in Seq(S)
           /\ ToSet(s) = ToSet(Tail(s)) \cup {Head(s)}
           /\ Distinct(s) => Distinct(Tail(s)) /\ Head(s) \notin ToSet(Tail(s))
<1>1. Len(s) \in Nat /\ Len(s) > 0 /\ DOMAIN s = 1..Len(s) /\ DOMAIN Tail(s) = 1..(Len(s) - 1)
  OBVIOUS
<1>2. Head(s) = s[1] /\ \A i \in 1..(Len(s) - 1) : Tail(s)[i] = s[i + 1]
  OBVIOUS
<1>3. \A i \in 1..Len(s) : i = 1 \/ i - 1 \in 1..(Len(s) - 1)
  BY <1>1
<1>4. ToSet(s) = ToSet(Tail(s)) \cup {Head(s)}
  <2>1. ASSUME NEW x \in ToSet(s) PROVE x \in ToSet(Tail(s)) \cup {Head(s)}
    <3>1. PICK i \in DOMAIN s : x = s[i]
      BY DEF ToSet
    <3>2. CASE i = 1
      BY <1>2, <3>1, <3>2
    <3>3. CASE i # 1
      <4>1. i - 1 \in 1..(Len(s) - 1) /\ Tail(s)[i - 1] = s[i]
        BY <1>1, <1>2, <3>1, <3>3
      <4>2. QED BY <1>1, <3>1, <4>1 DEF ToSet
    <3>4. QED BY <3>2, <3>3
  <2>2. ASSUME NEW x \in ToSet(Tail(s)) PROVE x \in ToSet(s)
    BY <1>1, <1>2 DEF ToSet
  <2>3. Head(s) \in ToSet(s)
    BY <1>1, <1>2 DEF ToSet
  <2>4. QED BY <2>1, <2>2, <2>3
<1>5. Distinct(s) => Distinct(Tail(s)) /\ Head(s) \notin ToSet(Tail(s))
  <2>1. SUFFICES ASSUME Distinct(s) PROVE Distinct(Tail(s)) /\ Head(s) \notin ToSet(Tail(s))
    OBVIOUS
  <2>2. ASSUME NEW i \in 1..(Len(s) - 1), NEW j \in 1..(Len(s) - 1), i # j PROVE Tail(s)[i] # Tail(s)[j]
    <3>1. i + 1 \in DOMAIN s /\ j + 1 \in DOMAIN s /\ i + 1 # j + 1
      BY <1>1, <2>2
    <3>2. QED BY <1>2, <2>1, <2>2, <3>1 DEF Distinct
  <2>3. ASSUME NEW i \in 1..(Len(s) - 1) PROVE Tail(s)[i] # Head(s)
    <3>1. i + 1 \in DOMAIN s /\ 1 \in DOMAIN s /\ i + 1 # 1
      BY <1>1
    <3>2. QED BY <1>2, <2>1, <3>1 DEF Distinct
  <2>4. QED BY <1>1, <2>2, <2>3 DEF Distinct, ToSet
<1>6. QED BY <1>2, <1>4, <1>5

\* In a finite set of numbers there is an n-th for every n up to its size: the ranks of its members
\* are all different, so none of as many is left out.
LEMMA NthIs ==
    ASSUME NEW K, K \subseteq Nat, IsFiniteSet(K), NEW n \in 1..Cardinality(K)
    PROVE  Nth(K, n) \in K /\ Cardinality({j \in K : j <= Nth(K, n)}) = n
<1> DEFINE c == Cardinality(K)
           upTo(i) == {j \in K : j <= i}
           f == [i \in K |-> Cardinality(upTo(i))]
<1>1. c \in Nat
  BY FS_CardinalityType
<1>2. \A i \in K : IsFiniteSet(upTo(i)) /\ f[i] \in 1..c
  <2>1. SUFFICES ASSUME NEW i \in K PROVE IsFiniteSet(upTo(i)) /\ Cardinality(upTo(i)) \in 1..c
    OBVIOUS
  <2>2. upTo(i) \subseteq K
    OBVIOUS
  <2>3. IsFiniteSet(upTo(i)) /\ Cardinality(upTo(i)) <= c /\ Cardinality(upTo(i)) \in Nat
    <3> HIDE DEF upTo
    <3> QED BY <2>2, FS_Subset, FS_CardinalityType
  <2>4. i \in upTo(i)
    BY <2>1
  <2>5. Cardinality(upTo(i)) # 0
    <3> HIDE DEF upTo
    <3> QED BY <2>3, <2>4, FS_EmptySet
  <2> HIDE DEF upTo, c
  <2>6. QED BY <1>1, <2>3, <2>5
<1>3. ASSUME NEW i \in K, NEW j \in K, i < j PROVE f[i] # f[j]
  <2>1. upTo(i) \subseteq upTo(j) /\ j \in upTo(j) /\ j \notin upTo(i)
    <3>1. i \in Nat /\ j \in Nat /\ \A k \in K : k \in Nat
      OBVIOUS
    <3>2. \A k \in K : k <= i => k <= j
      BY <1>3, <3>1
    <3>3. j <= j /\ ~(j <= i)
      BY <1>3, <3>1
    <3>4. QED BY <3>2, <3>3
  <2> HIDE DEF upTo
  <2>2. upTo(i) \in SUBSET upTo(j) /\ upTo(i) # upTo(j) /\ IsFiniteSet(upTo(j))
    BY <1>2, <2>1
  <2>3. Cardinality(upTo(i)) # Cardinality(upTo(j))
    BY <2>2, FS_Subset
  <2>4. QED BY <2>3
<1>4. \A i, j \in K : i # j => f[i] # f[j]
  BY <1>3
<1> HIDE DEF f, c
<1>5. \E i \in K : f[i] = n
  <2>1. SUFFICES ASSUME \A i \in K : f[i] # n PROVE FALSE
    OBVIOUS
  <2>2. IsFiniteSet(1..c) /\ Cardinality(1..c) = c
    BY <1>1, FS_Interval
  <2>3. IsFiniteSet((1..c) \ {n}) /\ Cardinality((1..c) \ {n}) = c - 1
    BY <2>2, FS_RemoveElement DEF c
  <2>4. f \in [K -> (1..c) \ {n}]
    BY <1>2, <2>1 DEF f
  <2>5. Cardinality((1..c) \ {n}) < Cardinality(K)
    BY <1>1, <2>3 DEF c
  <2>6. \E i, j \in K : i # j /\ f[i] = f[j]
    BY <2>3, <2>4, <2>5, FS_PigeonHole
  <2>7. QED BY <1>4, <2>6
<1>6. \E i \in K : Cardinality({j \in K : j <= i}) = n
  BY <1>5 DEF f
<1>7. QED
  BY <1>6 DEF Nth

\* The replay of a topic is made of events of its history, none of them twice.
LEMMA ToReplayIs ==
    ASSUME NEW b \in Browsers, NEW t \in Topics, recent[t] \in Seq(Events), NEW q, q = ToReplay(b, t)
    PROVE  q \in Seq(Events) /\ ToSet(q) \subseteq ToSet(recent[t]) /\ (Distinct(recent[t]) => Distinct(q))
<1> DEFINE s == recent[t]
           K == After(s, browser[b].last)
<1>1. CASE browser[b].last = 0
  <2>1. q = <<>>
    BY <1>1 DEF ToReplay
  <2>2. QED BY <2>1 DEF ToSet, Distinct
<1>2. CASE browser[b].last # 0
  <2>1. K \subseteq DOMAIN s /\ DOMAIN s = 1..Len(s) /\ Len(s) \in Nat
    BY DEF After
  <2>2. q = [n \in 1..Cardinality(K) |-> s[Nth(K, n)]]
    BY <1>2 DEF ToReplay
  <2>3. s \in Seq(Events)
    OBVIOUS
  <2> HIDE DEF s, K
  <2>4. IsFiniteSet(K) /\ Cardinality(K) \in Nat /\ K \subseteq Nat
    <3>1. IsFiniteSet(1..Len(s))
      BY <2>1, FS_Interval
    <3>2. IsFiniteSet(K)
      BY <2>1, <3>1, FS_Subset
    <3>3. QED BY <2>1, <3>2, FS_CardinalityType
  <2>5. \A n \in 1..Cardinality(K) : Nth(K, n) \in DOMAIN s /\ Cardinality({j \in K : j <= Nth(K, n)}) = n
    BY <2>1, <2>4, NthIs
  <2>6. q \in Seq(Events) /\ DOMAIN q = 1..Cardinality(K)
    <3>1. \A i \in DOMAIN s : s[i] \in Events
      BY <2>3
    <3>2. \A n \in 1..Cardinality(K) : q[n] \in Events
      BY <2>2, <2>5, <3>1
    <3>3. QED BY <2>2, <2>4, <3>2
  <2>7. ToSet(q) \subseteq ToSet(s)
    BY <2>2, <2>5, <2>6 DEF ToSet
  <2>8. Distinct(s) => Distinct(q)
    <3>1. SUFFICES ASSUME Distinct(s), NEW m \in 1..Cardinality(K), NEW n \in 1..Cardinality(K), m # n
                   PROVE  q[m] # q[n]
      BY <2>6 DEF Distinct
    <3>2. Nth(K, m) # Nth(K, n)
      BY <2>5, <3>1
    <3>3. QED BY <2>2, <2>5, <3>1, <3>2 DEF Distinct
  <2>9. QED BY <2>6, <2>7, <2>8 DEF s
<1>3. QED BY <1>1, <1>2

(***************************************************************************)
(* One subscription.                                                       *)
(***************************************************************************)
InReplay(st) == UNION {ToSet(st.replay[t]) : t \in Topics}

\* A subscription accounts for every event it is owed, once; the replay is sent while the subscriber
\* is registered and not yet tied to the request.
StreamOK(st) ==
    /\ st.at = "replay" => st.registered /\ ~st.watched
    /\ Distinct(st.ch)
    /\ \A t \in Topics : Distinct(st.replay[t])
    /\ \A t, u \in Topics : t # u => ToSet(st.replay[t]) \cap ToSet(st.replay[u]) = {}
    /\ st.owed = st.got \cup ToSet(st.ch) \cup InReplay(st) \cup st.lost
    /\ (st.got \cup st.lost) \cap (ToSet(st.ch) \cup InReplay(st)) = {}
    /\ ToSet(st.ch) \cap InReplay(st) = {} /\ st.got \cap st.lost = {}
    /\ IsFiniteSet(st.lost) /\ st.dropped = Cardinality(st.lost)

LEMMA NoStreamIs == NoStream \in StreamType /\ StreamOK(NoStream) /\ NoStream.owed = {}
<1>1. NoStream \in StreamType
  BY DEF NoStream, StreamType
<1>2. /\ NoStream.at = "off" /\ NoStream.ch = <<>> /\ NoStream.replay = [t \in Topics |-> <<>>] /\ NoStream.dropped = 0
      /\ NoStream.owed = {} /\ NoStream.got = {} /\ NoStream.lost = {}
  BY DEF NoStream
<1>3. ToSet(<<>>) = {} /\ Distinct(<<>>)
  BY DEF ToSet, Distinct
<1>4. \A t \in Topics : NoStream.replay[t] = <<>>
  BY <1>2
<1>5. InReplay(NoStream) = {}
  BY <1>3, <1>4 DEF InReplay
<1>6. IsFiniteSet({}) /\ Cardinality({}) = 0
  BY FS_EmptySet
<1>7. QED BY <1>1, <1>2, <1>3, <1>4, <1>5, <1>6 DEF StreamOK

\* What moves the handler on, and moves no event.
LEMMA OnlyFlags ==
    ASSUME NEW st, NEW q, StreamOK(st), q.at = "replay" => q.registered /\ ~q.watched,
           q.ch = st.ch, q.replay = st.replay, q.owed = st.owed, q.got = st.got, q.lost = st.lost, q.dropped = st.dropped
    PROVE  StreamOK(q)
BY DEF StreamOK, InReplay

\* An event that is owed and that is nowhere else yet.
Unsent(st, e) ==
    /\ st.at = "replay" => st.registered /\ ~st.watched
    /\ Distinct(st.ch) /\ \A t \in Topics : Distinct(st.replay[t])
    /\ \A t, u \in Topics : t # u => ToSet(st.replay[t]) \cap ToSet(st.replay[u]) = {}
    /\ st.owed = st.got \cup ToSet(st.ch) \cup InReplay(st) \cup st.lost \cup {e}
    /\ (st.got \cup st.lost) \cap (ToSet(st.ch) \cup InReplay(st)) = {}
    /\ ToSet(st.ch) \cap InReplay(st) = {} /\ st.got \cap st.lost = {}
    /\ e \notin st.got \cup ToSet(st.ch) \cup InReplay(st) \cup st.lost
    /\ IsFiniteSet(st.lost) /\ st.dropped = Cardinality(st.lost)

\* The channel takes such an event, or loses it and counts it.
LEMMA SendIs ==
    ASSUME NEW st \in StreamType, NEW e \in Events, NEW q, q = Send(st, e), Unsent(st, e)
    PROVE  q \in StreamType /\ StreamOK(q) /\ q.owed = st.owed
<1> USE DEF Unsent
<1>1. CASE Len(st.ch) < Buffer
  <2>1. q = [st EXCEPT !.ch = Append(st.ch, e)]
    BY <1>1 DEF Send
  <2>2. st.ch \in Seq(Events)
    BY DEF StreamType
  <2>3. /\ Append(st.ch, e) \in Seq(Events) /\ ToSet(Append(st.ch, e)) = ToSet(st.ch) \cup {e}
        /\ Distinct(Append(st.ch, e))
    BY <2>2, AppendIs
  <2>4. /\ q \in StreamType /\ q.ch = Append(st.ch, e) /\ q.replay = st.replay /\ q.owed = st.owed /\ q.got = st.got
        /\ q.lost = st.lost /\ q.dropped = st.dropped /\ q.at = st.at /\ q.registered = st.registered /\ q.watched = st.watched
    BY <2>1, <2>3 DEF StreamType
  <2>5. InReplay(q) = InReplay(st)
    BY <2>4 DEF InReplay
  <2>6. QED BY <2>3, <2>4, <2>5 DEF StreamOK
<1>2. CASE ~(Len(st.ch) < Buffer)
  <2>1. q = [st EXCEPT !.dropped = st.dropped + 1, !.lost = st.lost \cup {e}]
    BY <1>2 DEF Send
  <2>2. IsFiniteSet(st.lost \cup {e}) /\ Cardinality(st.lost \cup {e}) = st.dropped + 1
    BY FS_AddElement
  <2>3. /\ q \in StreamType /\ q.ch = st.ch /\ q.replay = st.replay /\ q.owed = st.owed /\ q.got = st.got
        /\ q.lost = st.lost \cup {e} /\ q.dropped = st.dropped + 1
        /\ q.at = st.at /\ q.registered = st.registered /\ q.watched = st.watched
    <3>1. st.dropped \in Nat /\ st.lost \subseteq Events
      BY DEF StreamType
    <3>2. st.dropped + 1 \in Nat /\ st.lost \cup {e} \subseteq Events
      BY <3>1
    <3>3. QED BY <2>1, <3>2 DEF StreamType
  <2>4. InReplay(q) = InReplay(st)
    BY <2>3 DEF InReplay
  <2>5. QED BY <2>2, <2>3, <2>4 DEF StreamOK
<1>3. QED BY <1>1, <1>2

\* A live event.
LEMMA SendNew ==
    ASSUME NEW st \in StreamType, StreamOK(st), NEW e \in Events, e \notin st.owed,
           NEW q, q = Send([st EXCEPT !.owed = @ \cup {e}], e)
    PROVE  q \in StreamType /\ StreamOK(q) /\ q.owed = st.owed \cup {e}
<1> DEFINE s2 == [st EXCEPT !.owed = @ \cup {e}]
<1>1. /\ s2 \in StreamType /\ s2.ch = st.ch /\ s2.replay = st.replay /\ s2.owed = st.owed \cup {e} /\ s2.got = st.got
      /\ s2.lost = st.lost /\ s2.dropped = st.dropped /\ s2.at = st.at /\ s2.registered = st.registered /\ s2.watched = st.watched
  BY DEF StreamType
<1>2. q = Send(s2, e)
  OBVIOUS
<1> HIDE DEF s2
<1>3. InReplay(s2) = InReplay(st)
  BY <1>1 DEF InReplay
<1>4. Unsent(s2, e)
  BY <1>1, <1>3 DEF StreamOK, Unsent
<1>5. QED BY <1>1, <1>2, <1>4, SendIs

\* The next event of the replay.
LEMMA SendReplayed ==
    ASSUME NEW st \in StreamType, StreamOK(st), NEW t \in Topics, st.replay[t] # <<>>,
           NEW q, q = Send([st EXCEPT !.replay[t] = Tail(@)], Head(st.replay[t]))
    PROVE  q \in StreamType /\ StreamOK(q) /\ q.owed = st.owed
<1> DEFINE h == Head(st.replay[t])
           s2 == [st EXCEPT !.replay[t] = Tail(@)]
<1>1. st.replay \in [Topics -> Seq(Events)]
  BY DEF StreamType
<1>2. /\ h \in Events /\ Tail(st.replay[t]) \in Seq(Events) /\ ToSet(st.replay[t]) = ToSet(Tail(st.replay[t])) \cup {h}
      /\ Distinct(Tail(st.replay[t])) /\ h \notin ToSet(Tail(st.replay[t]))
  BY <1>1, TailIs DEF StreamOK
<1> HIDE DEF h
<1>3. /\ s2 \in StreamType /\ s2.ch = st.ch /\ s2.replay = [st.replay EXCEPT ![t] = Tail(st.replay[t])]
      /\ s2.owed = st.owed /\ s2.got = st.got
      /\ s2.lost = st.lost /\ s2.dropped = st.dropped /\ s2.at = st.at /\ s2.registered = st.registered /\ s2.watched = st.watched
  BY <1>1, <1>2 DEF StreamType
<1>4. q = Send(s2, h)
  BY DEF h
<1> HIDE DEF s2
<1>5. s2.replay[t] = Tail(st.replay[t]) /\ \A u \in Topics : u # t => s2.replay[u] = st.replay[u]
  BY <1>1, <1>3
<1>6. \A u \in Topics : Distinct(s2.replay[u]) /\ ToSet(s2.replay[u]) \subseteq ToSet(st.replay[u]) /\ h \notin ToSet(s2.replay[u])
  <2>1. SUFFICES ASSUME NEW u \in Topics, u # t
                 PROVE Distinct(st.replay[u]) /\ h \notin ToSet(st.replay[u])
    BY <1>2, <1>5
  <2>2. QED BY <1>2, <2>1 DEF StreamOK
<1>7. InReplay(st) = InReplay(s2) \cup {h} /\ h \notin InReplay(s2)
  <2>1. ASSUME NEW x \in InReplay(st) PROVE x = h \/ x \in InReplay(s2)
    BY <1>2, <1>5 DEF InReplay
  <2>2. h \in InReplay(st)
    BY <1>2 DEF InReplay
  <2>3. QED BY <1>6, <2>1, <2>2 DEF InReplay
<1>8. \A u, v \in Topics : u # v => ToSet(s2.replay[u]) \cap ToSet(s2.replay[v]) = {}
  BY <1>6 DEF StreamOK
<1>9. Unsent(s2, h)
  BY <1>2, <1>3, <1>6, <1>7, <1>8 DEF StreamOK, Unsent
<1>10. QED BY <1>2, <1>3, <1>4, <1>9, SendIs

\* What is written to the browser.
LEMMA ReceiveOne ==
    ASSUME NEW st \in StreamType, StreamOK(st), st.at # "replay", st.ch # <<>>,
           NEW q, q = [st EXCEPT !.ch = Tail(@), !.at = "top", !.got = @ \cup {Head(st.ch)}]
    PROVE  q \in StreamType /\ StreamOK(q) /\ q.owed = st.owed /\ Head(st.ch) \in Events
<1> DEFINE h == Head(st.ch)
<1>1. st.ch \in Seq(Events)
  BY DEF StreamType
<1>2. /\ h \in Events /\ Tail(st.ch) \in Seq(Events) /\ ToSet(st.ch) = ToSet(Tail(st.ch)) \cup {h}
      /\ Distinct(Tail(st.ch)) /\ h \notin ToSet(Tail(st.ch))
  BY <1>1, TailIs DEF StreamOK
<1> HIDE DEF h
<1>3. /\ q \in StreamType /\ q.ch = Tail(st.ch) /\ q.replay = st.replay /\ q.owed = st.owed /\ q.got = st.got \cup {h}
      /\ q.lost = st.lost /\ q.dropped = st.dropped /\ q.at = "top"
  BY <1>2 DEF StreamType, h
<1>4. InReplay(q) = InReplay(st)
  BY <1>3 DEF InReplay
<1>5. StreamOK(q)
  BY <1>2, <1>3, <1>4 DEF StreamOK
<1>6. QED BY <1>2, <1>3, <1>5 DEF h

(***************************************************************************)
(* The hub.  A number that is still to be delivered is nobody's yet.       *)
(***************************************************************************)
PendingAreNew ==
    /\ \A p \in Publishers : pub[p].seq <= seq
    /\ \A p, q \in Publishers : p # q /\ pub[p].seq = pub[q].seq => pub[p] = NoEvent
NobodysYet(e) == e <= seq /\ \A p \in Publishers : pub[p].seq # e
HistoryOK ==
    /\ \A t \in Topics : Distinct(recent[t]) /\ \A e \in ToSet(recent[t]) : NobodysYet(e)
    /\ \A t, u \in Topics : t # u => ToSet(recent[t]) \cap ToSet(recent[u]) = {}
StreamsOK == \A b \in Browsers : StreamOK(stream[b]) /\ \A e \in stream[b].owed : NobodysYet(e)

HubInv == HubTypeOK /\ PendingAreNew /\ HistoryOK /\ StreamsOK

BrowserType == [last : 0..MaxSeq, seen : SUBSET Events, told : Nat]
USE HubBoundsAssumption, TopicsAssumption

LEMMA HubInitInv == HubInit => HubInv
<1> SUFFICES ASSUME HubInit PROVE HubInv
  OBVIOUS
<1>1. \A p \in Publishers : pub[p] = NoEvent /\ pub[p].seq = 0
  BY DEF HubInit, NoEvent
<1>2. HubTypeOK
  <2>1. stream \in [Browsers -> StreamType]
    BY NoStreamIs DEF HubInit
  <2>2. browser \in [Browsers -> [last : 0..MaxSeq, seen : SUBSET Events, told : Nat]]
    BY DEF HubInit
  <2>3. QED BY <2>1, <2>2 DEF HubInit, HubTypeOK
<1>3. PendingAreNew
  BY <1>1 DEF HubInit, PendingAreNew
<1>4. HistoryOK
  BY DEF HubInit, HistoryOK, ToSet, Distinct
<1>5. StreamsOK
  BY NoStreamIs DEF HubInit, StreamsOK
<1>6. QED BY <1>2, <1>3, <1>4, <1>5 DEF HubInv

\* A step of one browser's handler or connection.
LEMMA OneStream ==
    ASSUME HubInv, NEW b \in Browsers, NEW q \in StreamType, StreamOK(q), \A e \in q.owed : NobodysYet(e),
           stream' = [stream EXCEPT ![b] = q], browser' \in [Browsers -> BrowserType], UNCHANGED hub
    PROVE  HubInv'
<1>1. HubTypeOK'
  BY DEF HubInv, HubTypeOK, hub, BrowserType
<1>2. PendingAreNew' /\ HistoryOK'
  BY DEF HubInv, PendingAreNew, HistoryOK, NobodysYet, hub
<1>3. StreamsOK'
  <2>1. \A e : NobodysYet(e) => NobodysYet(e)'
    BY DEF NobodysYet, hub
  <2>2. SUFFICES ASSUME NEW c \in Browsers
                 PROVE  StreamOK(stream'[c]) /\ \A e \in stream'[c].owed : NobodysYet(e)
    BY <2>1 DEF StreamsOK
  <2>3. stream'[c] = IF c = b THEN q ELSE stream[c]
    BY DEF HubInv, HubTypeOK
  <2>4. QED BY <2>3 DEF HubInv, StreamsOK
<1>4. QED BY <1>1, <1>2, <1>3 DEF HubInv

LEMMA NumberInv == ASSUME HubInv, NEW p \in Publishers, Number(p) PROVE HubInv'
<1>1. PICK t \in Topics : pub' = [pub EXCEPT ![p] = [seq |-> seq + 1, topic |-> t]]
  BY DEF Number
<1>2. seq \in 0..MaxSeq /\ seq < MaxSeq /\ seq' = seq + 1 /\ UNCHANGED <<recent, lastAt, stream, browser>>
  BY DEF Number, HubInv, HubTypeOK
<1>3. seq + 1 \in Events /\ seq' \in 0..MaxSeq
  BY <1>2 DEF Events
<1>4. pub' \in [Publishers -> [seq : Events, topic : Topics] \cup {NoEvent}]
  BY <1>1, <1>3 DEF HubInv, HubTypeOK
<1>5. \A q \in Publishers : pub'[q].seq = (IF q = p THEN seq + 1 ELSE pub[q].seq) /\ (q # p => pub'[q] = pub[q])
  BY <1>1 DEF HubInv, HubTypeOK
<1>6. \A q \in Publishers : pub[q].seq \in Nat /\ pub[q].seq <= seq
  BY DEF HubInv, HubTypeOK, PendingAreNew, NoEvent, Events
<1>7. HubTypeOK'
  BY <1>2, <1>3, <1>4 DEF HubInv, HubTypeOK
<1>8. PendingAreNew'
  BY <1>2, <1>5, <1>6 DEF HubInv, PendingAreNew
<1>9. ASSUME NEW e \in Events, NobodysYet(e) PROVE NobodysYet(e)'
  BY <1>2, <1>5, <1>9 DEF NobodysYet, Events
<1>10. HistoryOK'
  <2>1. \A t1 \in Topics : ToSet(recent[t1]) \subseteq Events
    BY ToSetOf DEF HubInv, HubTypeOK
  <2>2. QED BY <1>2, <1>9, <2>1 DEF HubInv, HistoryOK
<1>11. StreamsOK'
  <2>1. \A b \in Browsers : stream[b].owed \subseteq Events
    BY DEF HubInv, HubTypeOK, StreamType
  <2>2. QED BY <1>2, <1>9, <2>1 DEF HubInv, StreamsOK
<1>12. QED BY <1>7, <1>8, <1>10, <1>11 DEF HubInv

\* Trim only shortens.
LEMMA TrimIs ==
    ASSUME NEW s \in Seq(Events)
    PROVE  Trim(s) \in Seq(Events) /\ ToSet(Trim(s)) \subseteq ToSet(s) /\ (Distinct(s) => Distinct(Trim(s)))
<1>1. CASE Len(s) > HistoryLimit
  <2>1. s # <<>> /\ Trim(s) = Tail(s)
    BY <1>1 DEF Trim
  <2>2. QED BY <2>1, TailIs
<1>2. CASE ~(Len(s) > HistoryLimit)
  BY <1>2 DEF Trim
<1>3. QED BY <1>1, <1>2

LEMMA DeliverInv == ASSUME HubInv, NEW p \in Publishers, Deliver(p) PROVE HubInv'
<1>0. PICK e, t : e = pub[p].seq /\ t = pub[p].topic
  OBVIOUS
<1>1. pub[p] # NoEvent /\ e \in Events /\ t \in Topics
  BY <1>0 DEF Deliver, HubInv, HubTypeOK
<1>2. /\ recent' = [u \in Topics |-> IF u = t THEN Trim(Append(recent[t], e))
                                   ELSE IF u \in Evicted(t) THEN <<>> ELSE recent[u]]
      /\ lastAt' = [u \in Topics |-> IF u = t THEN e ELSE IF u \in Evicted(t) THEN 0 ELSE lastAt[u]]
      /\ stream' = [b \in Browsers |-> IF Registered(b) THEN Send([stream[b] EXCEPT !.owed = @ \cup {e}], e) ELSE stream[b]]
      /\ pub' = [pub EXCEPT ![p] = NoEvent] /\ UNCHANGED <<seq, browser>>
  BY <1>0 DEF Deliver
<1>3. pub' \in [Publishers -> [seq : Events, topic : Topics] \cup {NoEvent}]
  BY <1>2 DEF HubInv, HubTypeOK
<1>4. /\ \A q \in Publishers : q # p => pub'[q] = pub[q] /\ pub[q].seq # e
      /\ pub'[p] = NoEvent /\ pub'[p].seq = 0
  BY <1>0, <1>1, <1>2 DEF HubInv, HubTypeOK, PendingAreNew, NoEvent
<1>5. ASSUME NEW x \in Events, NobodysYet(x) PROVE NobodysYet(x)' /\ x # e
  <2>1. seq' = seq /\ x # 0
    BY <1>2 DEF Events
  <2>2. QED BY <1>0, <1>4, <1>5, <2>1 DEF NobodysYet
<1>6. NobodysYet(e)'
  <2>1. e <= seq' /\ e # 0
    BY <1>0, <1>1, <1>2 DEF HubInv, PendingAreNew, Events
  <2>2. QED BY <1>4, <2>1 DEF NobodysYet
<1>7. \A u \in Topics : recent[u] \in Seq(Events) /\ ToSet(recent[u]) \subseteq Events /\ e \notin ToSet(recent[u])
  <2>1. \A u \in Topics : recent[u] \in Seq(Events) /\ ToSet(recent[u]) \subseteq Events
    BY ToSetOf DEF HubInv, HubTypeOK
  <2>2. QED BY <1>5, <2>1 DEF HubInv, HistoryOK
<1>8. \A u \in Topics :
         /\ recent'[u] \in Seq(Events) /\ Distinct(recent'[u])
         /\ ToSet(recent'[u]) \subseteq IF u = t THEN ToSet(recent[u]) \cup {e} ELSE ToSet(recent[u])
  <2>1. SUFFICES ASSUME NEW u \in Topics
                 PROVE  /\ recent'[u] \in Seq(Events) /\ Distinct(recent'[u])
                        /\ ToSet(recent'[u]) \subseteq IF u = t THEN ToSet(recent[u]) \cup {e} ELSE ToSet(recent[u])
    OBVIOUS
  <2>2. Distinct(recent[u])
    BY DEF HubInv, HistoryOK
  <2>3. CASE u = t
    <3>1. recent'[u] = Trim(Append(recent[u], e))
      BY <1>2, <2>3
    <3>2. Append(recent[u], e) \in Seq(Events) /\ Distinct(Append(recent[u], e)) /\ ToSet(Append(recent[u], e)) = ToSet(recent[u]) \cup {e}
      BY <1>1, <1>7, <2>2, AppendIs
    <3>3. QED BY <2>3, <3>1, <3>2, TrimIs
  <2>4. CASE u # t /\ u \in Evicted(t)
    <3>1. recent'[u] = <<>>
      BY <1>2, <2>4
    <3>2. QED BY <2>4, <3>1 DEF ToSet, Distinct
  <2>5. CASE u # t /\ u \notin Evicted(t)
    <3>1. recent'[u] = recent[u]
      BY <1>2, <2>5
    <3>2. QED BY <1>7, <2>2, <2>5, <3>1
  <2>6. QED BY <2>3, <2>4, <2>5
<1>9. HistoryOK'
  <2>1. \A u \in Topics : \A x \in ToSet(recent'[u]) : NobodysYet(x)'
    BY <1>5, <1>6, <1>7, <1>8 DEF HubInv, HistoryOK
  <2>2. \A u, v \in Topics : u # v => ToSet(recent'[u]) \cap ToSet(recent'[v]) = {}
    <3>1. SUFFICES ASSUME NEW u \in Topics, NEW v \in Topics, u # v, NEW x \in ToSet(recent'[u]), x \in ToSet(recent'[v])
                   PROVE  FALSE
      OBVIOUS
    <3>2. CASE x = e
      BY <1>7, <1>8, <3>1, <3>2
    <3>3. CASE x # e
      <4>1. x \in ToSet(recent[u]) /\ x \in ToSet(recent[v])
        BY <1>8, <3>1, <3>3
      <4>2. QED BY <3>1, <4>1 DEF HubInv, HistoryOK
    <3>4. QED BY <3>2, <3>3
  <2>3. QED BY <1>8, <2>1, <2>2 DEF HistoryOK
<1>10. \A b \in Browsers : stream'[b] \in StreamType /\ StreamOK(stream'[b]) /\ \A x \in stream'[b].owed : NobodysYet(x)'
  <2>1. SUFFICES ASSUME NEW b \in Browsers
                 PROVE  stream'[b] \in StreamType /\ StreamOK(stream'[b]) /\ \A x \in stream'[b].owed : NobodysYet(x)'
    OBVIOUS
  <2>2. stream[b] \in StreamType /\ StreamOK(stream[b]) /\ stream[b].owed \subseteq Events
    BY DEF HubInv, HubTypeOK, StreamsOK, StreamType
  <2>3. \A x \in stream[b].owed : NobodysYet(x)' /\ x # e
    BY <1>5, <2>2 DEF HubInv, StreamsOK
  <2>4. CASE Registered(b)
    <3>1. stream'[b] = Send([stream[b] EXCEPT !.owed = @ \cup {e}], e)
      BY <1>2, <2>4
    <3>2. stream'[b] \in StreamType /\ StreamOK(stream'[b]) /\ stream'[b].owed = stream[b].owed \cup {e}
      BY <1>1, <2>2, <2>3, <3>1, SendNew
    <3>3. QED BY <1>6, <2>3, <3>2
  <2>5. CASE ~Registered(b)
    BY <1>2, <2>2, <2>3, <2>5
  <2>6. QED BY <2>4, <2>5
<1>11. HubTypeOK'
  <2>1. recent' \in [Topics -> Seq(Events)]
    BY <1>2, <1>8
  <2>2. lastAt' \in [Topics -> 0..MaxSeq]
    BY <1>1, <1>2 DEF HubInv, HubTypeOK, Events
  <2>3. stream' \in [Browsers -> StreamType]
    BY <1>2, <1>10
  <2>4. QED BY <1>2, <1>3, <2>1, <2>2, <2>3 DEF HubInv, HubTypeOK
<1>12. PendingAreNew'
  <2>1. \A q \in Publishers : pub'[q].seq <= seq'
    <3>1. seq \in Nat /\ seq' = seq
      BY <1>2 DEF HubInv, HubTypeOK
    <3>2. QED BY <1>4, <3>1 DEF HubInv, PendingAreNew
  <2>2. \A q, r \in Publishers : q # r /\ pub'[q].seq = pub'[r].seq => pub'[q] = NoEvent
    <3>1. \A q \in Publishers : pub[q].seq = 0 => pub[q] = NoEvent
      BY DEF HubInv, HubTypeOK, Events
    <3>2. QED BY <1>4, <3>1 DEF HubInv, PendingAreNew
  <2>3. QED BY <2>1, <2>2 DEF PendingAreNew
<1>13. StreamsOK'
  BY <1>10 DEF StreamsOK
<1>14. QED BY <1>9, <1>11, <1>12, <1>13 DEF HubInv

LEMMA SubscribeInv == ASSUME HubInv, NEW b \in Browsers, Subscribe(b) PROVE HubInv'
<1> DEFINE rep == [t \in Topics |-> ToReplay(b, t)]
           due == UNION {ToSet(ToReplay(b, t)) : t \in Topics}
           q == [NoStream EXCEPT !.at = "replay", !.alive = TRUE, !.registered = TRUE, !.replay = rep, !.owed = due]
<1>1. \A t \in Topics : /\ rep[t] \in Seq(Events) /\ Distinct(rep[t]) /\ ToSet(rep[t]) \subseteq ToSet(recent[t])
                       /\ ToSet(recent[t]) \subseteq Events
  <2>1. SUFFICES ASSUME NEW t \in Topics
                 PROVE  /\ ToReplay(b, t) \in Seq(Events) /\ Distinct(ToReplay(b, t)) /\ ToSet(ToReplay(b, t)) \subseteq ToSet(recent[t])
                        /\ ToSet(recent[t]) \subseteq Events
    OBVIOUS
  <2>2. recent[t] \in Seq(Events) /\ Distinct(recent[t])
    BY DEF HubInv, HubTypeOK, HistoryOK
  <2>3. QED BY <2>2, ToReplayIs, ToSetOf
<1>2. due = UNION {ToSet(rep[t]) : t \in Topics}
  OBVIOUS
<1>3. stream' = [stream EXCEPT ![b] = q]
  BY DEF Subscribe
<1> HIDE DEF rep, due
<1>4. due \subseteq Events
  BY <1>1, <1>2
<1>5. /\ q \in StreamType /\ q.registered /\ ~q.watched /\ q.ch = <<>> /\ q.replay = rep /\ q.dropped = 0
      /\ q.owed = due /\ q.got = {} /\ q.lost = {}
  <2>1. rep \in [Topics -> Seq(Events)]
    BY <1>1 DEF rep
  <2>2. /\ q.registered = TRUE /\ q.watched = FALSE /\ q.ch = <<>> /\ q.replay = rep /\ q.dropped = 0 /\ q.missed = 0
        /\ q.owed = due /\ q.got = {} /\ q.lost = {}
    BY DEF NoStream
  <2>3. q \in StreamType
    BY <1>4, <2>1, NoStreamIs DEF StreamType
  <2>4. QED BY <2>2, <2>3
<1> HIDE DEF q
<1>6. StreamOK(q)
  <2>1. InReplay(q) = q.owed
    BY <1>2, <1>5 DEF InReplay
  <2>2. ToSet(q.ch) = {} /\ Distinct(q.ch)
    BY <1>5 DEF ToSet, Distinct
  <2>3. IsFiniteSet({}) /\ Cardinality({}) = 0
    BY FS_EmptySet
  <2>4. \A t, u \in Topics : t # u => ToSet(q.replay[t]) \cap ToSet(q.replay[u]) = {}
    BY <1>1, <1>5 DEF HubInv, HistoryOK
  <2>5. QED BY <1>1, <1>5, <2>1, <2>2, <2>3, <2>4 DEF StreamOK
<1>7. \A e \in q.owed : NobodysYet(e)
  BY <1>1, <1>2, <1>5 DEF HubInv, HistoryOK
<1>8. browser' \in [Browsers -> BrowserType]
  BY DEF Subscribe, HubInv, HubTypeOK, BrowserType
<1>9. UNCHANGED hub
  BY DEF Subscribe
<1>10. QED BY <1>3, <1>5, <1>6, <1>7, <1>8, <1>9, OneStream

LEMMA ReplayInv == ASSUME HubInv, NEW b \in Browsers, Replay(b) PROVE HubInv'
<1>1. PICK t \in Topics :
         /\ stream[b].replay[t] # <<>>
         /\ stream' = [stream EXCEPT ![b] = Send([stream[b] EXCEPT !.replay[t] = Tail(@)], Head(stream[b].replay[t]))]
  BY DEF Replay
<1> DEFINE q == Send([stream[b] EXCEPT !.replay[t] = Tail(@)], Head(stream[b].replay[t]))
<1>2. stream[b] \in StreamType /\ StreamOK(stream[b])
  BY DEF HubInv, HubTypeOK, StreamsOK
<1>3. q \in StreamType /\ StreamOK(q) /\ q.owed = stream[b].owed
  BY <1>1, <1>2, SendReplayed
<1>4. stream' = [stream EXCEPT ![b] = q]
  BY <1>1
<1> HIDE DEF q
<1>5. browser' \in [Browsers -> BrowserType] /\ UNCHANGED hub /\ \A e \in q.owed : NobodysYet(e)
  BY <1>3 DEF Replay, HubInv, HubTypeOK, StreamsOK, BrowserType
<1>6. QED BY <1>3, <1>4, <1>5, OneStream

LEMMA ReceiveInv == ASSUME HubInv, NEW b \in Browsers, Receive(b) PROVE HubInv'
<1> DEFINE e == Head(stream[b].ch)
           q == [stream[b] EXCEPT !.ch = Tail(@), !.at = "top", !.got = @ \cup {e}]
<1>1. stream[b] \in StreamType /\ StreamOK(stream[b]) /\ stream[b].at # "replay" /\ stream[b].ch # <<>>
  BY DEF Receive, HubInv, HubTypeOK, StreamsOK
<1>2. q \in StreamType /\ StreamOK(q) /\ q.owed = stream[b].owed /\ e \in Events
  BY <1>1, ReceiveOne
<1>3. stream' = [stream EXCEPT ![b] = q]
  BY DEF Receive, HubInv, HubTypeOK
<1>4. browser' = [browser EXCEPT ![b].last = e, ![b].seen = @ \cup {e}] /\ UNCHANGED hub
  BY DEF Receive
<1> HIDE DEF q, e
<1>5. browser' \in [Browsers -> BrowserType]
  <2>1. browser \in [Browsers -> BrowserType] /\ e \in 0..MaxSeq
    BY <1>2 DEF HubInv, HubTypeOK, BrowserType, Events
  <2>2. QED BY <1>2, <1>4, <2>1 DEF BrowserType
<1>6. \A x \in q.owed : NobodysYet(x)
  BY <1>2 DEF HubInv, StreamsOK
<1>7. QED BY <1>2, <1>3, <1>4, <1>5, <1>6, OneStream

\* The steps that move no event.
LEMMA FlagsInv ==
    ASSUME HubInv, NEW b \in Browsers, NEW q \in StreamType, q.at = "replay" => q.registered /\ ~q.watched,
           q.ch = stream[b].ch, q.replay = stream[b].replay, q.owed = stream[b].owed, q.got = stream[b].got,
           q.lost = stream[b].lost, q.dropped = stream[b].dropped,
           stream' = [stream EXCEPT ![b] = q], browser' \in [Browsers -> BrowserType], UNCHANGED hub
    PROVE  HubInv'
<1>1. StreamOK(stream[b]) /\ \A e \in q.owed : NobodysYet(e)
  BY DEF HubInv, StreamsOK
<1>2. StreamOK(q)
  BY <1>1, OnlyFlags
<1>3. QED BY <1>1, <1>2, OneStream

LEMMA HandlerInv ==
    ASSUME HubInv, NEW b \in Browsers,
           WatchContext(b) \/ Baseline(b) \/ Desync(b) \/ Heartbeat(b) \/ Disconnect(b) \/ ContextDone(b)
    PROVE  HubInv'
<1>1. /\ stream[b] \in StreamType /\ stream \in [Browsers -> StreamType] /\ browser \in [Browsers -> BrowserType]
      /\ stream[b].at = "replay" => stream[b].registered /\ ~stream[b].watched
      /\ stream[b].dropped \in Nat
  BY DEF HubInv, HubTypeOK, StreamsOK, StreamOK, BrowserType, StreamType
<1>2. CASE WatchContext(b)
  <2> DEFINE q == [stream[b] EXCEPT !.watched = TRUE, !.at = "baseline"]
  <2>1. /\ q \in StreamType /\ q.at = "baseline" /\ q.ch = stream[b].ch /\ q.replay = stream[b].replay /\ q.owed = stream[b].owed
        /\ q.got = stream[b].got /\ q.lost = stream[b].lost /\ q.dropped = stream[b].dropped
    BY <1>1 DEF StreamType
  <2>2. stream' = [stream EXCEPT ![b] = q] /\ UNCHANGED hub /\ UNCHANGED browser
    BY <1>1, <1>2 DEF WatchContext
  <2> HIDE DEF q
  <2>3. QED BY <1>1, <2>1, <2>2, FlagsInv
<1>3. CASE Baseline(b)
  <2> DEFINE q == [stream[b] EXCEPT !.missed = stream[b].dropped, !.at = "top"]
  <2>1. /\ q \in StreamType /\ q.at = "top" /\ q.ch = stream[b].ch /\ q.replay = stream[b].replay /\ q.owed = stream[b].owed
        /\ q.got = stream[b].got /\ q.lost = stream[b].lost /\ q.dropped = stream[b].dropped
    BY <1>1 DEF StreamType
  <2>2. stream' = [stream EXCEPT ![b] = q] /\ UNCHANGED hub /\ UNCHANGED browser
    BY <1>1, <1>3 DEF Baseline
  <2> HIDE DEF q
  <2>3. QED BY <1>1, <2>1, <2>2, FlagsInv
<1>4. CASE Desync(b)
  <2> DEFINE q == [stream[b] EXCEPT !.missed = stream[b].dropped, !.at = "select"]
  <2>1. /\ q \in StreamType /\ q.at = "select" /\ q.ch = stream[b].ch /\ q.replay = stream[b].replay /\ q.owed = stream[b].owed
        /\ q.got = stream[b].got /\ q.lost = stream[b].lost /\ q.dropped = stream[b].dropped
    BY <1>1 DEF StreamType
  <2>2. stream' = [stream EXCEPT ![b] = q] /\ UNCHANGED hub
    BY <1>1, <1>4 DEF Desync
  <2>3. browser' \in [Browsers -> BrowserType]
    BY <1>1, <1>4 DEF Desync, BrowserType
  <2> HIDE DEF q
  <2>4. QED BY <2>1, <2>2, <2>3, FlagsInv
<1>5. CASE Heartbeat(b)
  <2> DEFINE q == [stream[b] EXCEPT !.at = "top"]
  <2>1. /\ q \in StreamType /\ q.at = "top" /\ q.ch = stream[b].ch /\ q.replay = stream[b].replay /\ q.owed = stream[b].owed
        /\ q.got = stream[b].got /\ q.lost = stream[b].lost /\ q.dropped = stream[b].dropped
    BY <1>1 DEF StreamType
  <2>2. stream' = [stream EXCEPT ![b] = q] /\ UNCHANGED hub /\ UNCHANGED browser
    BY <1>1, <1>5 DEF Heartbeat
  <2> HIDE DEF q
  <2>3. QED BY <1>1, <2>1, <2>2, FlagsInv
<1>6. CASE Disconnect(b)
  <2> DEFINE q == [stream[b] EXCEPT !.alive = FALSE]
  <2>1. /\ q \in StreamType /\ q.at = stream[b].at /\ q.registered = stream[b].registered /\ q.watched = stream[b].watched
        /\ q.ch = stream[b].ch /\ q.replay = stream[b].replay /\ q.owed = stream[b].owed
        /\ q.got = stream[b].got /\ q.lost = stream[b].lost /\ q.dropped = stream[b].dropped
    BY <1>1 DEF StreamType
  <2>2. stream' = [stream EXCEPT ![b] = q] /\ UNCHANGED hub /\ UNCHANGED browser
    BY <1>1, <1>6 DEF Disconnect
  <2> HIDE DEF q
  <2>3. QED BY <1>1, <2>1, <2>2, FlagsInv
<1>7. CASE ContextDone(b)
  <2> DEFINE q == [stream[b] EXCEPT !.registered = FALSE]
  <2>1. /\ q \in StreamType /\ q.at = stream[b].at /\ q.watched = stream[b].watched
        /\ q.ch = stream[b].ch /\ q.replay = stream[b].replay /\ q.owed = stream[b].owed
        /\ q.got = stream[b].got /\ q.lost = stream[b].lost /\ q.dropped = stream[b].dropped
    BY <1>1 DEF StreamType
  <2>2. stream' = [stream EXCEPT ![b] = q] /\ UNCHANGED hub /\ UNCHANGED browser /\ stream[b].watched
    BY <1>1, <1>7 DEF ContextDone
  <2> HIDE DEF q
  <2>3. QED BY <1>1, <2>1, <2>2, FlagsInv
<1>8. QED BY <1>2, <1>3, <1>4, <1>5, <1>6, <1>7

LEMMA HandlerReturnsInv == ASSUME HubInv, NEW b \in Browsers, HandlerReturns(b) PROVE HubInv'
<1>1. browser' \in [Browsers -> BrowserType]
  BY DEF HandlerReturns, HubInv, HubTypeOK, BrowserType
<1>2. QED BY <1>1, NoStreamIs, OneStream DEF HandlerReturns

LEMMA SweepInv == ASSUME HubInv, Sweep PROVE HubInv'
<1>1. PICK old : /\ recent' = [t \in Topics |-> IF t \in old THEN <<>> ELSE recent[t]]
                 /\ lastAt' = [t \in Topics |-> IF t \in old THEN 0 ELSE lastAt[t]]
                 /\ UNCHANGED <<seq, pub, stream, browser>>
  BY DEF Sweep
<1>2. ToSet(<<>>) = {} /\ Distinct(<<>>)
  BY DEF ToSet, Distinct
<1>3. HubTypeOK'
  BY <1>1 DEF HubInv, HubTypeOK
<1>4. \A e : NobodysYet(e)' <=> NobodysYet(e)
  BY <1>1 DEF NobodysYet
<1>5. HistoryOK'
  BY <1>1, <1>2, <1>4 DEF HubInv, HistoryOK
<1>6. PendingAreNew' /\ StreamsOK'
  BY <1>1, <1>4 DEF HubInv, PendingAreNew, StreamsOK
<1>7. QED BY <1>3, <1>5, <1>6 DEF HubInv

LEMMA RestartInv == ASSUME HubInv, Restart PROVE HubInv'
<1>1. \A p \in Publishers : pub'[p] = NoEvent /\ pub'[p].seq = 0
  BY DEF Restart, NoEvent
<1>2. HubTypeOK'
  <2>1. stream' \in [Browsers -> StreamType]
    BY NoStreamIs DEF Restart
  <2>2. QED BY <2>1 DEF Restart, HubInv, HubTypeOK
<1>3. PendingAreNew'
  BY <1>1 DEF Restart, PendingAreNew
<1>4. HistoryOK'
  BY DEF Restart, HistoryOK, ToSet, Distinct
<1>5. StreamsOK'
  BY NoStreamIs DEF Restart, StreamsOK
<1>6. QED BY <1>2, <1>3, <1>4, <1>5 DEF HubInv

LEMMA HubNextInv == HubInv /\ [HubNext]_hubVars => HubInv'
<1> SUFFICES ASSUME HubInv, [HubNext]_hubVars PROVE HubInv'
  OBVIOUS
<1>1. CASE \E p \in Publishers : Number(p) \/ Deliver(p)
  BY <1>1, NumberInv, DeliverInv
<1>2. CASE \E b \in Browsers : Subscribe(b) \/ HandlerStep(b) \/ Disconnect(b) \/ ContextDone(b)
  BY <1>2, SubscribeInv, ReplayInv, ReceiveInv, HandlerInv, HandlerReturnsInv DEF HandlerStep
<1>3. CASE Sweep \/ Restart
  BY <1>3, SweepInv, RestartInv
<1>4. CASE UNCHANGED hubVars
  <2>1. HubTypeOK' /\ PendingAreNew' /\ HistoryOK'
    BY <1>4 DEF hubVars, hub, HubInv, HubTypeOK, PendingAreNew, HistoryOK, NobodysYet
  <2>2. StreamsOK'
    BY <1>4 DEF hubVars, hub, HubInv, StreamsOK, NobodysYet
  <2>3. QED BY <2>1, <2>2 DEF HubInv
<1>5. QED BY <1>1, <1>2, <1>3, <1>4 DEF HubNext

\* Whatever publishers, replays, broken connections, closing streams, sweeps and restarts interleave,
\* every variable of the hub keeps its type.
THEOREM HubTypeCorrect == HubSpec => []HubTypeOK
<1>1. HubInv => HubTypeOK
  BY DEF HubInv
<1>2. QED BY <1>1, HubInitInv, HubNextInv, PTL DEF HubSpec

\* A subscription accounts for every event it is owed exactly once - written to the browser, in the
\* channel, still to be replayed, or dropped and counted - and nothing is sent on a closed channel.
THEOREM EachEventOnceAlways == HubSpec => []EachEventOnce
<1>1. HubInv => EachEventOnce
  <2>1. SUFFICES ASSUME HubInv PROVE EachEventOnce
    OBVIOUS
  <2>2. \A b \in Browsers : StreamOK(stream[b])
    BY <2>1 DEF HubInv, StreamsOK
  <2>3. \A b \in Browsers : InReplay(stream[b]) = Replaying(b)
    BY DEF InReplay, Replaying
  <2>4. NoSendOnClosed /\ DroppedIsExact
    BY <2>2 DEF NoSendOnClosed, DroppedIsExact, StreamOK, Registered
  <2>5. NeverNeither
    BY <2>2, <2>3 DEF NeverNeither, StreamOK, InChannel
  <2>6. NeverBoth
    BY <2>2, <2>3 DEF NeverBoth, StreamOK, InChannel, Distinct
  <2>7. QED BY <2>4, <2>5, <2>6 DEF EachEventOnce
<1>2. QED BY <1>1, HubInitInv, HubNextInv, PTL DEF HubSpec

(***************************************************************************)
(* The hub's history between sweeps.  A topic that does not fit pushes out *)
(* the one that was silent longest, of which there has to be one.          *)
(***************************************************************************)
HistoryFits == IsFiniteSet(Known) /\ HistoryIsBounded

\* A set of natural numbers that is not empty has a least one.
LEMMA LeastOf == ASSUME NEW T, T \subseteq Nat, T # {} PROVE \E m \in T : \A y \in T : m <= y
<1>1. PICK m \in T : \A y \in T : ~(<<y, m>> \in OpToRel(<, Nat))
  BY NatLessThanWellFounded, WFMin
<1>2. \A y \in T : y < m => <<y, m>> \in OpToRel(<, Nat)
  BY DEF OpToRel
<1>3. \A y \in T : ~(y < m)
  BY <1>1, <1>2
<1>4. \A y \in T : y \in Nat /\ m \in Nat
  OBVIOUS
<1>5. QED BY <1>3, <1>4

LEMMA SomeoneIsSilentLongest ==
    ASSUME HubTypeOK, Known # {}
    PROVE  \E u \in Known : \A v \in Known : lastAt[u] <= lastAt[v]
<1> DEFINE T == {lastAt[v] : v \in Known}
<1>1. \A v \in Known : lastAt[v] \in Nat
  BY DEF HubTypeOK, Known
<1>2. T \subseteq Nat /\ T # {}
  BY <1>1
<1>3. PICK m \in T : \A y \in T : m <= y
  <2> HIDE DEF T
  <2> QED BY <1>2, LeastOf
<1>4. QED BY <1>3

\* A smaller set of topics fits where a larger one did.
LEMMA FewerTopicsFit ==
    ASSUME HistoryFits, Known' \subseteq Known, \A t \in Topics : Len(recent'[t]) <= HistoryLimit
    PROVE  HistoryFits'
<1>1. /\ IsFiniteSet(Known) /\ Cardinality(Known) \in Nat /\ Cardinality(Known) <= MaxTopics
      /\ IsFiniteSet(Known') /\ Cardinality(Known') <= Cardinality(Known) /\ Cardinality(Known') \in Nat
  BY FS_Subset, FS_CardinalityType DEF HistoryFits, HistoryIsBounded
<1>2. IsFiniteSet(Known)' /\ (Cardinality(Known) <= MaxTopics)'
  BY <1>1
<1>3. QED BY <1>2 DEF HistoryFits, HistoryIsBounded

\* One topic more fits where there was room, or where one made room.
LEMMA OneMoreTopicFits ==
    ASSUME NEW S, IsFiniteSet(S), Cardinality(S) <= MaxTopics, NEW t, t \notin S,
           NEW V \in SUBSET S, Cardinality(S) < MaxTopics \/ V # S,
           NEW R, R \subseteq V \cup {t}
    PROVE  IsFiniteSet(R) /\ Cardinality(R) <= MaxTopics
<1>1. /\ Cardinality(S) \in Nat /\ IsFiniteSet(V) /\ Cardinality(V) \in Nat
      /\ Cardinality(V) <= Cardinality(S) /\ (Cardinality(S) = Cardinality(V) => S = V)
  BY FS_Subset, FS_CardinalityType
<1>2. Cardinality(V) + 1 <= MaxTopics
  BY <1>1
<1>3. IsFiniteSet(V \cup {t}) /\ Cardinality(V \cup {t}) = Cardinality(V) + 1
  BY <1>1, FS_AddElement
<1>4. IsFiniteSet(R) /\ Cardinality(R) <= Cardinality(V \cup {t}) /\ Cardinality(R) \in Nat
  BY <1>3, FS_Subset, FS_CardinalityType
<1>5. QED BY <1>1, <1>2, <1>3, <1>4

LEMMA DeliverFits ==
    ASSUME HubTypeOK, HistoryFits, NEW p \in Publishers, Deliver(p)
    PROVE  HistoryFits'
<1>0. PICK e, t : e = pub[p].seq /\ t = pub[p].topic
  OBVIOUS
<1>1. e \in Events /\ t \in Topics
  BY <1>0 DEF Deliver, HubTypeOK
<1>2. recent' = [u \in Topics |-> IF u = t THEN Trim(Append(recent[t], e))
                                 ELSE IF u \in Evicted(t) THEN <<>> ELSE recent[u]]
  BY <1>0 DEF Deliver
<1>3. \A u \in Topics : recent[u] \in Seq(Events) /\ Len(recent[u]) <= HistoryLimit
  BY DEF HubTypeOK, HistoryFits, HistoryIsBounded
<1>4. Len(Trim(Append(recent[t], e))) <= HistoryLimit
  <2> DEFINE s == Append(recent[t], e)
  <2>1. s \in Seq(Events) /\ Len(s) = Len(recent[t]) + 1 /\ Len(recent[t]) \in Nat
    BY <1>1, <1>3
  <2>2. s # <<>> /\ Len(Tail(s)) = Len(s) - 1
    BY <2>1
  <2> HIDE DEF s
  <2>3. Len(Trim(s)) <= HistoryLimit
    BY <1>1, <1>3, <2>1, <2>2 DEF Trim
  <2>4. QED BY <2>3 DEF s
<1>5. \A u \in Topics : Len(recent'[u]) <= HistoryLimit
  <2>1. Len(<<>>) = 0
    OBVIOUS
  <2>2. QED BY <1>2, <1>3, <1>4, <2>1
<1> DEFINE Stay == Known \ Evicted(t)
<1>6. Known' \subseteq Stay \cup {t}
  BY <1>2 DEF Known
<1>7. CASE t \in Known
  <2>1. Evicted(t) = {}
    BY <1>7 DEF Evicted
  <2>2. QED BY <1>5, <1>6, <1>7, <2>1, FewerTopicsFit
<1>8. CASE t \notin Known
  <2>1. /\ IsFiniteSet(Known) /\ Cardinality(Known) <= MaxTopics /\ Cardinality(Known) \in Nat
    BY FS_CardinalityType DEF HistoryFits, HistoryIsBounded
  <2>2. ASSUME ~(Cardinality(Known) < MaxTopics) PROVE Stay # Known
    <3>1. Known # {}
      BY <2>1, <2>2, FS_EmptySet
    <3>2. PICK u \in Known : \A v \in Known : lastAt[u] <= lastAt[v]
      BY <3>1, SomeoneIsSilentLongest
    <3>3. u \in Evicted(t)
      BY <1>8, <2>2, <3>2 DEF Evicted
    <3>4. QED BY <3>2, <3>3
  <2>3. Stay \in SUBSET Known
    OBVIOUS
  <2> HIDE DEF Stay
  <2>4. IsFiniteSet(Known') /\ Cardinality(Known') <= MaxTopics
    BY <1>6, <1>8, <2>1, <2>2, <2>3, OneMoreTopicFits
  <2>5. QED BY <1>5, <2>4 DEF HistoryFits, HistoryIsBounded
<1>9. QED BY <1>7, <1>8

\* Between sweeps the hub keeps at most maxTopics topics and at most historyLimit events of each,
\* whatever is published on however many topics: a new one that does not fit always finds one to push out.
THEOREM HistoryStaysBounded == HubSpec => []HistoryIsBounded
<1>1. HubInit => HistoryFits
  <2>1. SUFFICES ASSUME HubInit PROVE HistoryFits
    OBVIOUS
  <2>2. Known = {} /\ \A t \in Topics : Len(recent[t]) = 0
    BY <2>1 DEF HubInit, Known
  <2>3. QED BY <2>2, FS_EmptySet DEF HistoryFits, HistoryIsBounded
<1>2. HubInv /\ HistoryFits /\ [HubNext]_hubVars => HistoryFits'
  <2>1. SUFFICES ASSUME HubTypeOK, HistoryFits, [HubNext]_hubVars PROVE HistoryFits'
    BY DEF HubInv
  <2>2. \A t \in Topics : Len(recent[t]) <= HistoryLimit
    BY <2>1 DEF HistoryFits, HistoryIsBounded
  <2>3. CASE UNCHANGED recent
    BY <2>1, <2>2, <2>3, FewerTopicsFit DEF Known
  <2>4. CASE \E p \in Publishers : Deliver(p)
    BY <2>1, <2>4, DeliverFits
  <2>5. CASE Sweep \/ Restart
    <3>1. \A t \in Topics : recent'[t] = <<>> \/ recent'[t] = recent[t]
      BY <2>5 DEF Sweep, Restart
    <3>2. Len(<<>>) = 0
      OBVIOUS
    <3>3. Known' \subseteq Known
      BY <3>1 DEF Known
    <3>4. \A t \in Topics : Len(recent'[t]) <= HistoryLimit
      <4>1. SUFFICES ASSUME NEW t \in Topics PROVE Len(recent'[t]) <= HistoryLimit
        OBVIOUS
      <4>2. CASE recent'[t] = <<>>
        BY <3>2, <4>2
      <4>3. CASE recent'[t] = recent[t]
        BY <2>2, <4>3
      <4>4. QED BY <3>1, <4>2, <4>3
    <3>5. QED BY <2>1, <3>3, <3>4, FewerTopicsFit
  <2>6. CASE \E p \in Publishers : Number(p)
    BY <2>3, <2>6 DEF Number
  <2>7. ASSUME NEW b \in Browsers, Subscribe(b) \/ HandlerStep(b) \/ Disconnect(b) \/ ContextDone(b)
        PROVE  UNCHANGED recent
    BY <2>7 DEF Subscribe, HandlerStep, Replay, WatchContext, Baseline, Desync, Receive, Heartbeat, HandlerReturns,
       Disconnect, ContextDone, hub
  <2>8. QED BY <2>1, <2>3, <2>4, <2>5, <2>6, <2>7 DEF HubNext, hubVars, hub
<1>3. HistoryFits => HistoryIsBounded
  BY DEF HistoryFits
<1>4. QED BY <1>1, <1>2, <1>3, HubInitInv, HubNextInv, PTL DEF HubSpec

-----------------------------------------------------------------------------
(* The minute tick.                                                        *)

TickPlaces == {"off", "aligning", "tick", "policies", "prune", "idle"}
Loops == [at : TickPlaces, last : Nat, now : Nat, first : BOOLEAN, minutes : SUBSET Nat, left : SUBSET Policies]
Mixes == [faults : SUBSET TickFaults, history : BOOLEAN, setting : Nat, until : 0..LastMinute, lapses : Nat]

\* Types, and the clock within its bound.
TickTypeOK ==
    /\ clock \in 0..LastMinute /\ loop \in Loops /\ ticks \in BOOLEAN
    /\ taken \in [Policies -> Nat] /\ lapsed \in [Policies -> Nat]
    /\ rewound \in Nat /\ again \in [Policies -> Nat]
    /\ tmix \in Mixes

\* `last` and `now`: only the first pass looks at `last` itself, and what a pass looks
\* at is what minutesAfter answered for the two.
LoopOK ==
    /\ loop.last <= LastMinute /\ loop.now <= LastMinute
    /\ loop.at = "tick" => ~ticks /\ (loop.first => loop.last = clock)
    /\ loop.at = "policies" =>
         /\ loop.first => loop.last = loop.now
         /\ loop.minutes = MinutesAfter(loop.last, loop.now)
    /\ loop.at \in {"prune", "idle"} => ~loop.first
    /\ loop.at = "aligning" => loop.first

TickInv == TickTypeOK /\ LoopOK

\* The policy is still to be run for the minute of a pass that was evaluated before.
Late(p) == IF loop.at = "policies" /\ p \in loop.left /\ Repeats THEN 1 ELSE 0
\* The next pass will be at such a minute, if the clock stays as it is.
Behind ==
    LET done == IF loop.at = "policies" THEN loop.now ELSE loop.last
    IN  IF /\ loop.at \in {"tick", "policies", "prune", "idle"}
           /\ loop.at = "tick" => ~loop.first
           /\ clock < done \/ (clock = done /\ (ticks \/ loop.at = "tick"))
          THEN 1 ELSE 0

\* Whatever is repeated, or will be, was paid for by a clock set back or a lapse.
RepeatsArePaid == \A p \in Policies : again[p] + Late(p) + Behind <= rewound + lapsed[p]

LEMMA TickFacts == LastMinute \in Nat /\ CatchUpLimit \in Nat /\ CatchUpLimit > 0 /\ TickMixes \subseteq Mixes
BY TickAssumption DEF Mixes

LEMMA TickStarts == TickInit => TickInv
<1> SUFFICES ASSUME TickInit PROVE TickInv
  OBVIOUS
<1>1. loop = NoLoop /\ NoLoop \in Loops
  BY DEF TickInit, NoLoop, Loops, TickPlaces
<1>2. tmix \in Mixes
  BY TickFacts DEF TickInit
<1>3. 0 \in 0..LastMinute
  BY TickFacts
<1>4. TickTypeOK
  BY <1>1, <1>2, <1>3 DEF TickInit, TickTypeOK
<1>5. LoopOK
  BY <1>1, TickFacts DEF TickInit, LoopOK, NoLoop
<1>6. QED BY <1>4, <1>5 DEF TickInv

LEMMA StruckKeeps == ASSUME tmix \in Mixes, NEW f, Struck(f) PROVE tmix' \in Mixes
BY DEF Struck, Mixes

LEMMA MinutesAreNumbers == ASSUME NEW a \in Nat, NEW b \in Nat PROVE MinutesAfter(a, b) \subseteq Nat
BY TickFacts DEF MinutesAfter

\* Each step keeps the invariant.
LEMMA TickKeeps == TickInv /\ [TickNext]_tickVars => TickInv'
<1> SUFFICES ASSUME TickInv, [TickNext]_tickVars PROVE TickInv'
  OBVIOUS
<1> USE TickFacts
<1>0. clock \in Nat /\ clock <= LastMinute /\ loop.last \in Nat /\ loop.now \in Nat /\ tmix.until \in Nat /\ tmix.until <= LastMinute
  BY DEF TickInv, TickTypeOK, Loops, Mixes
<1>1. CASE MinuteBegins
  BY <1>0, <1>1 DEF MinuteBegins, TickInv, TickTypeOK, LoopOK
<1>1a. CASE ClockIsSetBack
  <2>1. tmix' \in Mixes
    BY <1>1a, StruckKeeps DEF ClockIsSetBack, TickInv, TickTypeOK
  <2>2. clock' \in 0..LastMinute /\ loop' = loop /\ loop.at # "tick" /\ rewound' \in Nat
    BY <1>0, <1>1a DEF ClockIsSetBack, TickInv, TickTypeOK
  <2>3. QED BY <1>0, <1>1a, <2>1, <2>2 DEF ClockIsSetBack, TickInv, TickTypeOK, LoopOK
<1>2. CASE Start
  <2>1. loop' \in Loops /\ loop'.at = "aligning" /\ loop'.last = 0 /\ loop'.now = 0 /\ loop'.first
    BY <1>2 DEF Start, NoLoop, Loops, TickPlaces
  <2>2. TickTypeOK'
    BY <1>0, <1>2, <2>1 DEF Start, TickInv, TickTypeOK
  <2>3. LoopOK'
    BY <1>0, <1>2, <2>1 DEF Start, TickInv, TickTypeOK, LoopOK
  <2>4. QED BY <2>2, <2>3 DEF TickInv
<1>3. CASE Stops
  <2>1. loop' \in Loops /\ loop'.at = "off" /\ loop'.last = 0 /\ loop'.now = 0 /\ loop'.first
    BY <1>3 DEF Stops, NoLoop, Loops, TickPlaces
  <2>2. tmix' \in Mixes /\ lapsed' \in [Policies -> Nat]
    BY <1>3, StruckKeeps DEF Stops, TickInv, TickTypeOK
  <2>3. TickTypeOK'
    BY <1>0, <1>3, <2>1, <2>2 DEF Stops, TickInv, TickTypeOK
  <2>4. LoopOK'
    BY <1>0, <1>3, <2>1, <2>2 DEF Stops, TickInv, TickTypeOK, LoopOK
  <2>5. QED BY <2>3, <2>4 DEF TickInv
<1>4. CASE TickPanics
  <2>1. /\ loop' \in Loops /\ loop'.at = "idle" /\ loop'.last = loop.last /\ loop'.now = loop.now /\ ~loop'.first
    BY <1>4 DEF TickPanics, Loops, TickPlaces, TickInv, TickTypeOK
  <2>2. tmix' \in Mixes /\ lapsed' \in [Policies -> Nat]
    BY <1>4, StruckKeeps DEF TickPanics, TickInv, TickTypeOK
  <2>3. QED BY <1>0, <1>4, <2>1, <2>2 DEF TickPanics, TickInv, TickTypeOK, LoopOK
<1>5. CASE Aligned
  <2>1. /\ loop' \in Loops /\ loop'.at = "tick" /\ loop'.last = clock /\ loop'.now = loop.now /\ loop'.first = loop.first
    BY <1>0, <1>5 DEF Aligned, Loops, TickPlaces, TickInv, TickTypeOK
  <2>2. lapsed' \in [Policies -> Nat]
    BY <1>5 DEF Aligned, TickInv, TickTypeOK
  <2>3. loop.first
    BY <1>5 DEF Aligned, TickInv, LoopOK
  <2>4. TickTypeOK'
    BY <1>0, <1>5, <2>1, <2>2, <2>3 DEF Aligned, TickInv, TickTypeOK
  <2>5. LoopOK'
    BY <1>0, <1>5, <2>1, <2>2, <2>3 DEF Aligned, TickInv, TickTypeOK, LoopOK
  <2>6. QED BY <2>4, <2>5 DEF TickInv
<1>6. CASE TickArrives
  <2>1. /\ loop' \in Loops /\ loop'.at = "tick" /\ loop'.last = loop.last /\ loop'.now = loop.now /\ loop'.first = loop.first
    BY <1>6 DEF TickArrives, Loops, TickPlaces, TickInv, TickTypeOK
  <2>2. QED BY <1>0, <1>6, <2>1 DEF TickArrives, TickInv, TickTypeOK, LoopOK
<1>7. CASE BeginTick
  <2>1. CASE loop' = [loop EXCEPT !.at = "policies", !.now = clock, !.left = Policies,
                                  !.minutes = MinutesAfter(loop.last, clock)] /\ UNCHANGED <<lapsed, tmix>>
    <3>1. MinutesAfter(loop.last, clock) \subseteq Nat
      BY <1>0, MinutesAreNumbers
    <3>2. /\ loop' \in Loops /\ loop'.at = "policies" /\ loop'.last = loop.last /\ loop'.now = clock /\ loop'.first = loop.first
          /\ loop'.minutes = MinutesAfter(loop'.last, loop'.now)
      BY <1>0, <2>1, <3>1 DEF Loops, TickPlaces, TickInv, TickTypeOK
    <3>3. QED BY <1>0, <1>7, <2>1, <3>2 DEF BeginTick, TickInv, TickTypeOK, LoopOK, MinutesAfter
  <2>2. CASE /\ Struck("list")
             /\ loop' = [loop EXCEPT !.at = "prune", !.now = clock, !.last = clock, !.first = FALSE]
             /\ lapsed' = [p \in Policies |-> lapsed[p] + 1]
    <3>1. /\ loop' \in Loops /\ loop'.at = "prune" /\ loop'.last = clock /\ loop'.now = clock /\ ~loop'.first
      BY <1>0, <2>2 DEF Loops, TickPlaces, TickInv, TickTypeOK
    <3>2. tmix' \in Mixes /\ lapsed' \in [Policies -> Nat]
      BY <2>2, StruckKeeps DEF TickInv, TickTypeOK
    <3>3. QED BY <1>0, <1>7, <2>2, <3>1, <3>2 DEF BeginTick, TickInv, TickTypeOK, LoopOK
  <2>3. QED BY <1>7, <2>1, <2>2 DEF BeginTick
<1>8. CASE PoliciesDone
  <2>1. /\ loop' \in Loops /\ loop'.at = "prune" /\ loop'.last = loop.now /\ loop'.now = loop.now /\ ~loop'.first
    BY <1>8 DEF PoliciesDone, Loops, TickPlaces, TickInv, TickTypeOK
  <2>2. QED BY <1>0, <1>8, <2>1 DEF PoliciesDone, TickInv, TickTypeOK, LoopOK
<1>9. CASE PruneHistory
  <2>1. /\ loop' \in Loops /\ loop'.at = "idle" /\ loop'.last = loop.last /\ loop'.now = loop.now /\ loop'.first = loop.first
    BY <1>9 DEF PruneHistory, Loops, TickPlaces, TickInv, TickTypeOK
  <2>2. QED BY <1>0, <1>9, <2>1 DEF PruneHistory, TickInv, TickTypeOK, LoopOK
<1>10. ASSUME NEW p \in Policies, RunScheduledAt(p) PROVE TickInv'
  <2>1. /\ loop' \in Loops /\ loop'.at = "policies" /\ loop'.last = loop.last /\ loop'.now = loop.now /\ loop'.first = loop.first
        /\ loop'.minutes = loop.minutes
    BY <1>10 DEF RunScheduledAt, Loops, TickPlaces, TickInv, TickTypeOK
  <2>2. taken' \in [Policies -> Nat] /\ again' \in [Policies -> Nat]
    BY <1>10 DEF RunScheduledAt, CountRepeat, TickInv, TickTypeOK
  <2>3. QED BY <1>0, <1>10, <2>1, <2>2 DEF RunScheduledAt, TickInv, TickTypeOK, LoopOK
<1>11. CASE UNCHANGED <<clock, loop, ticks, taken, lapsed, rewound, again, tmix>>
  BY <1>11 DEF TickInv, TickTypeOK, LoopOK
<1>12. QED
  BY <1>1, <1>1a, <1>2, <1>3, <1>4, <1>5, <1>6, <1>7, <1>8, <1>9, <1>10, <1>11
     DEF TickNext, TickStep, tickVars, DeploymentBegins, DeploymentEnds, RowsAreWritten

\* What the two summands can be.
LEMMA SummandsAre ==
    ASSUME NEW p
    PROVE  /\ Late(p) \in {0, 1} /\ Behind \in {0, 1}
           /\ loop.at # "policies" => Late(p) = 0
           /\ loop.at \in {"off", "aligning"} => Behind = 0
BY DEF Late, Behind

LEMMA RepeatsStayPaid == TickInv /\ TickInv' /\ RepeatsArePaid /\ [TickNext]_tickVars => RepeatsArePaid'
<1> SUFFICES ASSUME TickInv, TickInv', RepeatsArePaid, [TickNext]_tickVars, NEW p \in Policies
             PROVE  again'[p] + Late(p)' + Behind' <= rewound' + lapsed'[p]
  BY DEF RepeatsArePaid
<1>0. /\ clock \in Nat /\ clock' \in Nat /\ loop \in Loops /\ loop' \in Loops /\ ticks \in BOOLEAN /\ ticks' \in BOOLEAN
      /\ again \in [Policies -> Nat] /\ lapsed \in [Policies -> Nat] /\ rewound \in Nat
      /\ again' \in [Policies -> Nat] /\ lapsed' \in [Policies -> Nat] /\ rewound' \in Nat
      /\ loop.last \in Nat /\ loop.now \in Nat /\ loop.first \in BOOLEAN
  BY TickFacts DEF TickInv, TickTypeOK, Loops
<1>a. again[p] + Late(p) + Behind <= rewound + lapsed[p]
  BY DEF RepeatsArePaid
<1>b. /\ again[p] \in Nat /\ lapsed[p] \in Nat /\ again'[p] \in Nat /\ lapsed'[p] \in Nat
  BY <1>0
<1>c. Late(p) \in {0, 1} /\ Behind \in {0, 1} /\ (loop.at # "policies" => Late(p) = 0)
  BY SummandsAre
<1>d. /\ Late(p)' \in {0, 1} /\ Behind' \in {0, 1} /\ (loop'.at # "policies" => Late(p)' = 0)
      /\ loop'.at \in {"off", "aligning"} => Behind' = 0
  BY DEF Late, Behind
<1>1. CASE MinuteBegins
  <2>1. loop' = loop /\ again' = again /\ lapsed' = lapsed /\ rewound' = rewound /\ clock' = clock + 1 /\ loop.at # "tick"
    BY <1>1 DEF MinuteBegins
  <2>2. Late(p)' = Late(p)
    BY <2>1 DEF Late, Repeats
  <2>3. Behind' <= Behind
    BY <1>0, <2>1 DEF Behind
  <2>4. QED BY <1>a, <1>b, <1>c, <1>d, <1>0, <2>1, <2>2, <2>3
<1>2. CASE ClockIsSetBack
  <2>1. loop' = loop /\ again' = again /\ lapsed' = lapsed /\ rewound' = rewound + 1
    BY <1>2 DEF ClockIsSetBack
  <2>2. Late(p)' = Late(p)
    BY <2>1 DEF Late, Repeats
  <2>3. QED BY <1>a, <1>b, <1>c, <1>d, <1>0, <2>1, <2>2
<1>3. CASE Start
  <2>1. loop'.at = "aligning" /\ again' = again /\ lapsed' = lapsed /\ rewound' = rewound
    BY <1>3 DEF Start, NoLoop
  <2>2. QED BY <1>a, <1>b, <1>c, <1>d, <1>0, <2>1
<1>4. CASE Stops \/ TickPanics
  <2>1. loop'.at # "policies" /\ again' = again /\ lapsed'[p] = lapsed[p] + 1 /\ rewound' = rewound
    <3>1. CASE Stops
      BY <1>0, <3>1 DEF Stops, NoLoop
    <3>2. CASE TickPanics
      BY <1>0, <3>2 DEF TickPanics, Loops
    <3>3. QED BY <1>4, <3>1, <3>2
  <2>2. QED BY <1>a, <1>b, <1>c, <1>d, <1>0, <2>1
<1>5. CASE Aligned
  <2>1. /\ loop'.at # "policies" /\ again' = again /\ lapsed'[p] = lapsed[p] + 1 /\ rewound' = rewound
    BY <1>5, <1>0 DEF Aligned, Loops
  <2>2. QED BY <1>a, <1>b, <1>c, <1>d, <1>0, <2>1
<1>6. CASE TickArrives
  <2>1. /\ loop.at = "idle" /\ loop'.at = "tick" /\ loop'.last = loop.last /\ loop'.first = loop.first /\ ticks
        /\ clock' = clock /\ again' = again /\ lapsed' = lapsed /\ rewound' = rewound
    BY <1>6, <1>0 DEF TickArrives, Loops
  <2>2. Behind' <= Behind
    BY <1>0, <2>1 DEF Behind
  <2>3. QED BY <1>a, <1>b, <1>c, <1>d, <1>0, <2>1, <2>2
<1>7. CASE BeginTick
  <2>0. loop.at = "tick" /\ ~ticks /\ ticks' = ticks /\ clock' = clock /\ again' = again /\ rewound' = rewound
    BY <1>7 DEF BeginTick, TickInv, LoopOK
  <2>1. CASE lapsed' = [x \in Policies |-> lapsed[x] + 1] /\ loop'.at = "prune"
    BY <1>a, <1>b, <1>c, <1>d, <1>0, <2>0, <2>1
  <2>2. CASE lapsed' = lapsed /\ loop'.at = "policies" /\ loop'.now = clock /\ loop'.last = loop.last /\ loop'.first = loop.first
    <3>1. Behind' = 0
      BY <1>0, <2>0, <2>2 DEF Behind
    <3>2. Late(p)' <= Behind
      BY <1>0, <2>0, <2>2 DEF Late, Behind, Repeats
    <3>3. QED BY <1>a, <1>b, <1>c, <1>d, <1>0, <2>0, <2>2, <3>1, <3>2
  <2>3. QED BY <1>7, <1>0, <2>1, <2>2 DEF BeginTick, Loops
<1>8. CASE PoliciesDone
  <2>1. /\ loop.at = "policies" /\ loop'.at = "prune" /\ loop'.last = loop.now /\ ticks' = ticks
        /\ clock' = clock /\ again' = again /\ lapsed' = lapsed /\ rewound' = rewound
    BY <1>8, <1>0 DEF PoliciesDone, Loops
  <2>2. Behind' <= Behind
    BY <1>0, <2>1 DEF Behind
  <2>3. QED BY <1>a, <1>b, <1>c, <1>d, <1>0, <2>1, <2>2
<1>9. CASE PruneHistory
  <2>1. /\ loop.at = "prune" /\ loop'.at = "idle" /\ loop'.last = loop.last /\ ticks' = ticks
        /\ clock' = clock /\ again' = again /\ lapsed' = lapsed /\ rewound' = rewound
    BY <1>9, <1>0 DEF PruneHistory, Loops
  <2>2. Behind' <= Behind
    BY <1>0, <2>1 DEF Behind
  <2>3. QED BY <1>a, <1>b, <1>c, <1>d, <1>0, <2>1, <2>2
<1>10. ASSUME NEW q \in Policies, RunScheduledAt(q) PROVE again'[p] + Late(p)' + Behind' <= rewound' + lapsed'[p]
  <2>1. /\ loop.at = "policies" /\ q \in loop.left /\ loop'.at = "policies" /\ loop'.left = loop.left \ {q}
        /\ loop'.last = loop.last /\ loop'.now = loop.now /\ loop'.first = loop.first /\ ticks' = ticks
        /\ clock' = clock /\ lapsed' = lapsed /\ rewound' = rewound
    BY <1>10, <1>0 DEF RunScheduledAt, Loops
  <2>2. Behind' = Behind
    BY <1>0, <2>1 DEF Behind
  <2>3. CASE p = q
    <3>1. Late(p)' = 0 /\ again'[p] <= again[p] + Late(p)
      BY <1>10, <1>0, <2>1, <2>3 DEF RunScheduledAt, CountRepeat, Late, Repeats
    <3>2. QED BY <1>a, <1>b, <1>c, <1>d, <1>0, <2>1, <2>2, <3>1
  <2>4. CASE p # q
    <3>1. Late(p)' = Late(p) /\ again'[p] = again[p]
      BY <1>10, <1>0, <2>1, <2>4 DEF RunScheduledAt, CountRepeat, Late, Repeats
    <3>2. QED BY <1>a, <1>b, <1>c, <1>d, <1>0, <2>1, <2>2, <3>1
  <2>5. QED BY <2>3, <2>4
<1>11. CASE UNCHANGED <<clock, loop, ticks, lapsed, rewound, again>>
  BY <1>a, <1>11 DEF Late, Behind, Repeats
<1>12. QED
  BY <1>1, <1>2, <1>3, <1>4, <1>5, <1>6, <1>7, <1>8, <1>9, <1>10, <1>11
     DEF TickNext, TickStep, tickVars, DeploymentBegins, DeploymentEnds, RowsAreWritten

-----------------------------------------------------------------------------
(* The refinement.                                                         *)

\* What a policy is settled to, by where the loop is.
LEMMA SettledIs ==
    TickInv => \A p \in Policies :
           /\ SettledTo(p) \in 0..LastMinute + 1
           /\ loop.at \in {"off", "aligning"} => SettledTo(p) = 0
           /\ loop.at = "policies" /\ p \notin loop.left => SettledTo(p) = loop.now + 1
           /\ loop.at \notin {"off", "aligning"} /\ (loop.at = "policies" => p \in loop.left)
                => SettledTo(p) = IF loop.first THEN loop.last ELSE loop.last + 1
<1> SUFFICES ASSUME TickInv, NEW p \in Policies
    PROVE  /\ SettledTo(p) \in 0..LastMinute + 1
           /\ loop.at \in {"off", "aligning"} => SettledTo(p) = 0
           /\ loop.at = "policies" /\ p \notin loop.left => SettledTo(p) = loop.now + 1
           /\ loop.at \notin {"off", "aligning"} /\ (loop.at = "policies" => p \in loop.left)
                => SettledTo(p) = IF loop.first THEN loop.last ELSE loop.last + 1
  OBVIOUS
<1>1. /\ clock \in Nat /\ clock <= LastMinute /\ loop.last \in Nat /\ loop.now \in Nat /\ LastMinute \in Nat
      /\ loop.last <= LastMinute /\ loop.now <= LastMinute /\ loop.first \in BOOLEAN
  BY TickFacts DEF TickInv, TickTypeOK, Loops, LoopOK
<1>2. CASE loop.at \in {"off", "aligning"}
  <2>1. SettledTo(p) = 0
    BY <1>2 DEF SettledTo
  <2>2. QED BY <1>1, <1>2, <2>1
<1>3. CASE loop.at = "policies" /\ p \notin loop.left
  <2>1. SettledTo(p) = loop.now + 1
    BY <1>3 DEF SettledTo
  <2>2. QED BY <1>1, <1>3, <2>1
<1>4. CASE loop.at \notin {"off", "aligning"} /\ (loop.at = "policies" => p \in loop.left)
  <2>1. SettledTo(p) = IF loop.first THEN loop.last ELSE loop.last + 1
    BY <1>1, <1>4 DEF SettledTo
  <2>2. QED BY <1>1, <1>4, <2>1
<1>5. QED BY <1>2, <1>3, <1>4

SettledInRange == \A p \in Policies : SettledTo(p) \in 0..LastMinute + 1
LEMMA SettledStaysInRange == TickInv => SettledInRange
BY SettledIs DEF SettledInRange

\* When every policy lapses, or there is none, the ledger lapses or stutters.
LEMMA EveryoneLapses ==
    ASSUME TickInv, TickInv', lapsed' = [p \in Policies |-> lapsed[p] + 1],
           taken' = taken, rewound' = rewound, again' = again
    PROVE  [Ledger!LedgerNext]_(Ledger!ledgerVars)
<1> DEFINE S == [p \in Policies |-> SettledTo(p)]
<1>1. S' \in [Policies -> 0..LastMinute + 1]
  <2>1. (TickInv => SettledInRange)'
    BY SettledStaysInRange, PTL
  <2>2. QED BY <2>1 DEF SettledInRange
<1>2. CASE Policies = {}
  <2>1. S' = S /\ lapsed' = lapsed
    BY <1>2 DEF TickInv, TickTypeOK
  <2>2. QED BY <2>1 DEF Ledger!ledgerVars
<1>3. CASE Policies # {}
  <2>1. lapsed' = [p \in Policies |-> IF p \in Policies THEN lapsed[p] + 1 ELSE lapsed[p]]
    OBVIOUS
  <2>2. Ledger!Lapse
    BY <1>1, <1>3, <2>1 DEF Ledger!Lapse
  <2>3. QED BY <2>2 DEF Ledger!LedgerNext
<1>4. QED BY <1>2, <1>3

\* One policy run in one pass is one settlement, of the minutes of the pass.
LEMMA OneIsSettled ==
    ASSUME TickInv, TickInv', NEW p \in Policies, RunScheduledAt(p), ~Repeats
    PROVE  Ledger!Settle(p, loop.now + 1) /\ loop.now + 1 \in 0..LastMinute + 1
<1> DEFINE S == [x \in Policies |-> SettledTo(x)]
           due(m) == DueNow(ScheduleOf[p], m)
<1>0. /\ clock \in Nat /\ clock <= LastMinute /\ loop.last \in Nat /\ loop.now \in Nat
      /\ loop.last <= LastMinute /\ loop.now <= LastMinute /\ loop.first \in BOOLEAN /\ LastMinute \in Nat
      /\ CatchUpLimit \in Nat /\ CatchUpLimit > 0
  BY TickFacts DEF TickInv, TickTypeOK, Loops, LoopOK
<1>1. /\ loop.at = "policies" /\ p \in loop.left /\ loop'.at = "policies" /\ loop'.left = loop.left \ {p}
      /\ loop'.now = loop.now /\ loop'.last = loop.last /\ loop'.first = loop.first
      /\ lapsed' = lapsed /\ rewound' = rewound /\ again' = again
  BY DEF RunScheduledAt, CountRepeat, TickInv, TickTypeOK, Loops
<1>2. SettledTo(p) = IF loop.first THEN loop.last ELSE loop.last + 1
  BY <1>1, SettledIs
<1>3. /\ SettledTo(p) < loop.now + 1
      /\ loop.minutes = MinutesAfter(loop.last, loop.now) /\ (loop.first => loop.last = loop.now) /\ (~loop.first => loop.last < loop.now)
  BY <1>0, <1>1, <1>2 DEF TickInv, LoopOK, Repeats
<1>4. SettledTo(p)' = loop.now + 1
  BY <1>1 DEF SettledTo
<1>5. ASSUME NEW x \in Policies, x # p PROVE SettledTo(x)' = SettledTo(x)
  BY <1>1, <1>5 DEF SettledTo
<1>6. S' = [S EXCEPT ![p] = loop.now + 1]
  BY <1>4, <1>5
<1> DEFINE owed == {m \in 0..LastMinute + 1 : m > S[p] /\ m <= loop.now + 1 /\ m + CatchUpLimit > loop.now + 1}
<1>7. ASSUME NEW m \in Nat PROVE m \in loop.minutes <=> m + 1 \in owed
  BY <1>0, <1>2, <1>3 DEF MinutesAfter
<1>8. loop.minutes \subseteq Nat
  BY <1>0, <1>3, MinutesAreNumbers
<1>9. \A m \in owed : m - 1 \in Nat /\ m > 0 /\ (m - 1) + 1 = m /\ m \in Nat
  BY <1>0, <1>2
<1>10. (\E m \in loop.minutes : due(m)) <=> \E m \in owed : DuePolicy(p, m)
  <2> HIDE DEF owed
  <2>1. ASSUME NEW m \in loop.minutes, due(m) PROVE \E k \in owed : DuePolicy(p, k)
    <3>1. m + 1 \in owed /\ m + 1 > 0 /\ (m + 1) - 1 = m
      BY <1>7, <1>8
    <3>2. DuePolicy(p, m + 1)
      BY <2>1, <3>1 DEF DuePolicy
    <3>3. QED BY <3>1, <3>2
  <2>2. ASSUME NEW m \in owed, DuePolicy(p, m) PROVE \E k \in loop.minutes : due(k)
    <3>1. m - 1 \in loop.minutes
      BY <1>7, <1>9
    <3>2. due(m - 1)
      BY <2>2 DEF DuePolicy
    <3>3. QED BY <3>1, <3>2
  <2>3. QED BY <2>1, <2>2
<1>11. taken' = [taken EXCEPT ![p] = @ + IF \E m \in owed : DuePolicy(p, m) THEN 1 ELSE 0]
  <2> HIDE DEF owed
  <2>1. taken' = [taken EXCEPT ![p] = @ + IF \E m \in loop.minutes : due(m) THEN 1 ELSE 0]
    BY DEF RunScheduledAt
  <2>2. QED BY <1>10, <2>1
<1>12. Ledger!Settle(p, loop.now + 1)
  BY <1>1, <1>3, <1>6, <1>11 DEF Ledger!Settle
<1>13. QED BY <1>0, <1>12

\* A policy run for a minute that was evaluated before is settled again, for that one.
LEMMA OneIsSettledAgain ==
    ASSUME TickInv, TickInv', RepeatsArePaid, NEW p \in Policies, RunScheduledAt(p), Repeats
    PROVE  Ledger!SettleAgain(p, loop.now + 1) /\ loop.now + 1 \in 0..LastMinute + 1
<1> DEFINE S == [x \in Policies |-> SettledTo(x)]
<1>0. /\ loop.last \in Nat /\ loop.now \in Nat /\ loop.now <= LastMinute /\ LastMinute \in Nat
      /\ again \in [Policies -> Nat] /\ lapsed \in [Policies -> Nat] /\ rewound \in Nat
  BY TickFacts DEF TickInv, TickTypeOK, Loops, LoopOK
<1>1. /\ loop.at = "policies" /\ p \in loop.left /\ loop'.at = "policies" /\ loop'.left = loop.left \ {p}
      /\ loop'.now = loop.now /\ loop'.last = loop.last /\ loop'.first = loop.first
      /\ lapsed' = lapsed /\ rewound' = rewound /\ again' = [again EXCEPT ![p] = @ + 1]
  BY DEF RunScheduledAt, CountRepeat, TickInv, TickTypeOK, Loops
<1>2. SettledTo(p) = loop.last + 1 /\ ~loop.first /\ loop.now <= loop.last
  BY <1>1, SettledIs DEF Repeats
<1>3. S' = [S EXCEPT ![p] = loop.now + 1]
  <2>1. SettledTo(p)' = loop.now + 1
    BY <1>1 DEF SettledTo
  <2>2. ASSUME NEW x \in Policies, x # p PROVE SettledTo(x)' = SettledTo(x)
    BY <1>1, <2>2 DEF SettledTo
  <2>3. QED BY <2>1, <2>2
<1>4. again[p] < rewound + lapsed[p]
  <2>1. again[p] + Late(p) + Behind <= rewound + lapsed[p] /\ Late(p) = 1 /\ Behind \in {0, 1}
    BY <1>1, SummandsAre DEF RepeatsArePaid, Late
  <2>2. QED BY <1>0, <2>1
<1>5. taken' = [taken EXCEPT ![p] = @ + IF DuePolicy(p, loop.now + 1) THEN 1 ELSE 0]
  <2>1. loop.minutes = {loop.now}
    BY <1>0, <1>1, <1>2 DEF TickInv, LoopOK, MinutesAfter
  <2>2. DuePolicy(p, loop.now + 1) <=> \E m \in loop.minutes : DueNow(ScheduleOf[p], m)
    <3>1. loop.now + 1 > 0 /\ (loop.now + 1) - 1 = loop.now
      BY <1>0
    <3>2. QED BY <2>1, <3>1 DEF DuePolicy
  <2>3. taken' = [taken EXCEPT ![p] = @ + IF \E m \in loop.minutes : DueNow(ScheduleOf[p], m) THEN 1 ELSE 0]
    BY DEF RunScheduledAt
  <2>4. QED BY <2>2, <2>3
<1>6. loop.now + 1 <= S[p]
  BY <1>0, <1>2
<1>7. Ledger!SettleAgain(p, loop.now + 1)
  BY <1>1, <1>3, <1>4, <1>5, <1>6 DEF Ledger!SettleAgain
<1>8. QED BY <1>0, <1>7

\* What leaves the loop where SettledTo reads it, and the counts, is a stutter.
LEMMA NothingIsSettled ==
    ASSUME TickInv, TickInv', taken' = taken, lapsed' = lapsed, rewound' = rewound, again' = again,
           \A p \in Policies : SettledTo(p)' = SettledTo(p)
    PROVE  UNCHANGED Ledger!ledgerVars
BY DEF Ledger!ledgerVars

LEMMA TickStepsAreLedgerSteps ==
    TickInv /\ TickInv' /\ RepeatsArePaid /\ [TickNext]_tickVars => [Ledger!LedgerNext]_(Ledger!ledgerVars)
<1> SUFFICES ASSUME TickInv, TickInv', RepeatsArePaid, [TickNext]_tickVars PROVE [Ledger!LedgerNext]_(Ledger!ledgerVars)
  OBVIOUS
<1>0. loop \in Loops
  BY DEF TickInv, TickTypeOK
<1>1. CASE Stops \/ TickPanics \/ Aligned
  BY <1>1, EveryoneLapses DEF Stops, TickPanics, Aligned
<1>2. CASE Start
  <2>1. loop.at = "off" /\ loop'.at = "aligning" /\ taken' = taken /\ lapsed' = lapsed /\ rewound' = rewound /\ again' = again
    BY <1>2 DEF Start, NoLoop
  <2>2. \A p \in Policies : SettledTo(p)' = SettledTo(p)
    BY <2>1 DEF SettledTo
  <2>3. QED BY <2>1, <2>2, NothingIsSettled
<1>3. CASE TickArrives
  <2>1. /\ loop.at = "idle" /\ loop'.at = "tick" /\ loop'.last = loop.last /\ loop'.first = loop.first
        /\ taken' = taken /\ lapsed' = lapsed /\ rewound' = rewound /\ again' = again
    BY <1>0, <1>3 DEF TickArrives, Loops
  <2>2. \A p \in Policies : SettledTo(p)' = SettledTo(p)
    BY <2>1 DEF SettledTo
  <2>3. QED BY <2>1, <2>2, NothingIsSettled
<1>4. CASE BeginTick
  <2>1. CASE lapsed' = [p \in Policies |-> lapsed[p] + 1]
    BY <1>4, <2>1, EveryoneLapses DEF BeginTick
  <2>2. CASE loop' = [loop EXCEPT !.at = "policies", !.now = clock, !.left = Policies,
                                  !.minutes = MinutesAfter(loop.last, clock)] /\ UNCHANGED <<lapsed, tmix>>
    <3>1. /\ loop.at = "tick" /\ loop'.at = "policies" /\ loop'.last = loop.last /\ loop'.first = loop.first
          /\ loop'.left = Policies /\ taken' = taken /\ lapsed' = lapsed /\ rewound' = rewound /\ again' = again
      BY <1>0, <1>4, <2>2 DEF BeginTick, Loops
    <3>2. \A p \in Policies : SettledTo(p)' = SettledTo(p)
      BY <3>1 DEF SettledTo
    <3>3. QED BY <3>1, <3>2, NothingIsSettled
  <2>3. QED BY <1>4, <2>1, <2>2 DEF BeginTick
<1>5. CASE PoliciesDone
  <2>1. /\ loop.at = "policies" /\ loop.left = {} /\ loop'.at = "prune" /\ loop'.last = loop.now /\ loop'.first = FALSE
        /\ taken' = taken /\ lapsed' = lapsed /\ rewound' = rewound /\ again' = again
    BY <1>0, <1>5 DEF PoliciesDone, Loops
  <2>2. \A p \in Policies : SettledTo(p)' = SettledTo(p)
    BY <2>1 DEF SettledTo
  <2>3. QED BY <2>1, <2>2, NothingIsSettled
<1>6. CASE PruneHistory
  <2>1. /\ loop.at = "prune" /\ loop'.at = "idle" /\ loop'.last = loop.last /\ loop'.first = loop.first
        /\ taken' = taken /\ lapsed' = lapsed /\ rewound' = rewound /\ again' = again
    BY <1>0, <1>6 DEF PruneHistory, Loops
  <2>2. \A p \in Policies : SettledTo(p)' = SettledTo(p)
    BY <2>1 DEF SettledTo
  <2>3. QED BY <2>1, <2>2, NothingIsSettled
<1>7. ASSUME NEW p \in Policies, RunScheduledAt(p) PROVE [Ledger!LedgerNext]_(Ledger!ledgerVars)
  BY <1>7, OneIsSettled, OneIsSettledAgain DEF Ledger!LedgerNext
<1>7a. CASE ClockIsSetBack
  <2>1. loop' = loop /\ taken' = taken /\ lapsed' = lapsed /\ again' = again /\ rewound' = rewound + 1
    BY <1>7a DEF ClockIsSetBack
  <2>2. \A p \in Policies : SettledTo(p)' = SettledTo(p)
    BY <2>1 DEF SettledTo
  <2>3. Ledger!Rewind
    BY <2>1, <2>2 DEF Ledger!Rewind
  <2>4. QED BY <2>3 DEF Ledger!LedgerNext
<1>8. CASE UNCHANGED <<loop, taken, lapsed, rewound, again>>
  <2>1. \A p \in Policies : SettledTo(p)' = SettledTo(p)
    BY <1>8 DEF SettledTo
  <2>2. QED BY <1>8, <2>1, NothingIsSettled
<1>9. QED
  BY <1>1, <1>2, <1>3, <1>4, <1>5, <1>6, <1>7, <1>7a, <1>8
     DEF TickNext, TickStep, tickVars, DeploymentBegins, DeploymentEnds, RowsAreWritten, MinuteBegins

LEMMA TickStartsTheLedger == TickInit => Ledger!LedgerInit
<1> SUFFICES ASSUME TickInit PROVE Ledger!LedgerInit
  OBVIOUS
<1>1. TickInv
  BY TickStarts
<1>2. [p \in Policies |-> SettledTo(p)] \in [Policies -> 0..LastMinute + 1]
  BY <1>1, SettledIs
<1>3. QED BY <1>2 DEF TickInit, Ledger!LedgerInit

\* The scheduler implements the ledger of minutes: whatever ticks are late or dropped,
\* each policy's minutes are settled in order, each once, with one backup at most for
\* the minutes settled together; a clock set back, or a lapse (a start, a stop, policies
\* that cannot be read, a panic), lets one pass settle its own minute again and go on from
\* there, and only a lapse loses one (runScheduler, minutesAfter, RunScheduledAt).
THEOREM TheLedgerIsKept == TicksSpec => MinutesAreSettled
<1>1. TickInit => TickInv /\ RepeatsArePaid
  <2>1. TickInit => \A p \in Policies : again[p] = 0 /\ lapsed[p] = 0 /\ rewound = 0 /\ Late(p) = 0 /\ Behind = 0
    BY DEF TickInit, NoLoop, Late, Behind
  <2>2. QED BY <2>1, TickStarts DEF RepeatsArePaid
<1>2. TicksSpec => [](TickInv /\ RepeatsArePaid)
  BY <1>1, TickKeeps, RepeatsStayPaid, PTL DEF TicksSpec
<1>3. QED
  BY <1>2, TickStartsTheLedger, TickStepsAreLedgerSteps, PTL DEF TicksSpec, MinutesAreSettled, Ledger!LedgerSpec

-----------------------------------------------------------------------------
(* Schedules.                                                              *)

\* The i-th of a finite set of numbers, lowest first, is one of them, and each of them is some i-th:
\* the number of those below it is its place.
LEMMA RankedIs ==
    ASSUME NEW V, V \subseteq Nat, IsFiniteSet(V)
    PROVE  /\ \A i \in 1..Cardinality(V) : Ranked(V, i) \in V
           /\ \A v \in V : \E i \in 1..Cardinality(V) : Ranked(V, i) = v
<1> DEFINE below(v) == {w \in V : w < v}
           place == [v \in V |-> Cardinality(below(v)) + 1]
<1>1. Cardinality(V) \in Nat
  BY FS_CardinalityType
<1>2. ASSUME NEW v \in V PROVE IsFiniteSet(below(v)) /\ Cardinality(below(v)) \in Nat /\ Cardinality(below(v)) < Cardinality(V)
  <2>1. below(v) \subseteq V /\ v \notin below(v)
    OBVIOUS
  <2>2. QED BY <1>1, <2>1, FS_Subset, FS_CardinalityType
<1>3. ASSUME NEW u \in V, NEW v \in V, u < v PROVE place[u] < place[v]
  <2>1. below(u) \subseteq below(v) /\ u \in below(v) /\ u \notin below(u)
    <3>1. u \in Nat /\ v \in Nat /\ ~(u < u)
      OBVIOUS
    <3>2. \A w \in V : w < u => w < v
      <4>1. \A w \in Nat : w < u => w < v
        BY <1>3, <3>1
      <4>2. QED BY <4>1
    <3>3. QED BY <1>3, <3>1, <3>2
  <2>2. Cardinality(below(u)) < Cardinality(below(v))
    BY <1>2, <2>1, FS_Subset
  <2>3. QED BY <1>2, <2>2
<1>4. place \in Injection(V, 1..Cardinality(V))
  <2>1. place \in [V -> 1..Cardinality(V)]
    BY <1>1, <1>2
  <2>2. \A u, v \in V : place[u] = place[v] => u = v
    <3>1. SUFFICES ASSUME NEW u \in V, NEW v \in V, place[u] = place[v], u # v PROVE FALSE
      OBVIOUS
    <3>2. u \in Nat /\ v \in Nat /\ place[u] \in Nat
      BY <2>1
    <3>3. u < v \/ v < u
      BY <3>1, <3>2
    <3>4. QED BY <1>3, <3>1, <3>2, <3>3
  <2>3. QED BY <2>1, <2>2 DEF Injection, IsInjective
<1>5. IsFiniteSet(1..Cardinality(V)) /\ Cardinality(1..Cardinality(V)) = Cardinality(V)
  BY <1>1, FS_Interval
<1>6. place \in Surjection(V, 1..Cardinality(V))
  BY <1>4, <1>5, FS_Injection
<1>7. ASSUME NEW v \in V PROVE place[v] \in 1..Cardinality(V) /\ Ranked(V, place[v]) = v
  <2>1. place[v] \in 1..Cardinality(V) /\ place[v] = Cardinality(below(v)) + 1
    BY <1>4 DEF Injection, IsInjective
  <2>2. Cardinality(below(v)) = place[v] - 1
    BY <1>2, <2>1
  <2>3. \A u \in V : Cardinality(below(u)) = place[v] - 1 => u = v
    <3>1. SUFFICES ASSUME NEW u \in V, Cardinality(below(u)) = place[v] - 1 PROVE u = v
      OBVIOUS
    <3>2. place[u] = place[v]
      BY <1>2, <2>2, <3>1
    <3>3. QED BY <1>4, <3>2 DEF Injection, IsInjective
  <2>4. QED BY <2>1, <2>2, <2>3 DEF Ranked
<1>8. ASSUME NEW i \in 1..Cardinality(V) PROVE Ranked(V, i) \in V
  <2>1. PICK v \in V : place[v] = i
    BY <1>6 DEF Surjection
  <2>2. QED BY <1>7, <2>1
<1>9. QED BY <1>7, <1>8

Parts == [kind : {"star", "range", "value", "junk"}, low : Nat, high : Nat, step : Nat]
FieldsTyped == [star : BOOLEAN, parts : Seq(Parts)]

LEMMA CronFacts ==
    /\ Highs.weekday \in Nat /\ Highs.weekday > 0 /\ Expressions \subseteq Seq(FieldsTyped)
    /\ Lows["weekday"] = 0 /\ Fields[5] = "weekday"
<1>1. 5 \in DOMAIN Fields /\ Fields[5] = "weekday"
  BY DEF Fields
<1>2. Lows["weekday"] = 0
  BY <1>1 DEF Lows, ToSet
<1>3. QED BY <1>1, <1>2, CronAssumption DEF FieldsTyped, Parts

LEMMA FieldOfSeq == ASSUME NEW S, NEW s \in Seq(S), NEW i \in 1..Len(s) PROVE s[i] \in S
OBVIOUS

\* A field that is not refused holds values between its bounds only.
LEMMA FieldValues ==
    ASSUME NEW f \in FieldsTyped, NEW low \in Nat, NEW high \in Nat
    PROVE  ParseField(f, low, high) \subseteq low..high
<1>1. \A a, b, s \in Nat : RangeOf(a, b, s) \subseteq a..b
  BY DEF RangeOf
<1>2. CASE f.star
  BY <1>1, <1>2 DEF ParseField
<1>3. CASE ~f.star
  <2>1. ToSet(f.parts) \subseteq Parts
    BY DEF FieldsTyped, ToSet
  <2>2. ASSUME NEW p \in Parts, ~PartRefused(p, low, high) PROVE PartValues(p, low, high) \subseteq low..high
    <3>1. p.low \in Nat /\ p.high \in Nat /\ p.step \in Nat /\ p.kind \in {"star", "range", "value"}
      BY <2>2 DEF Parts, PartRefused
    <3>2. CASE p.kind = "star"
      <4>1. PartValues(p, low, high) = RangeOf(low, high, p.step)
        BY <3>2 DEF PartValues
      <4>2. QED BY <1>1, <3>1, <4>1
    <3>3. CASE p.kind = "range"
      <4>1. PartValues(p, low, high) = RangeOf(p.low, p.high, p.step)
        BY <3>3 DEF PartValues
      <4>2. low <= p.low /\ p.high <= high
        BY <2>2, <3>1, <3>3 DEF PartRefused
      <4>3. QED BY <1>1, <3>1, <4>1, <4>2
    <3>4. CASE p.kind = "value"
      <4>1. low <= p.low /\ p.low <= high
        BY <2>2, <3>1, <3>4 DEF PartRefused
      <4>2. PartValues(p, low, high) = RangeOf(p.low, high, p.step) \/ PartValues(p, low, high) = {p.low}
        BY <3>4 DEF PartValues
      <4>3. QED BY <1>1, <3>1, <4>1, <4>2
    <3>5. QED BY <3>1, <3>2, <3>3, <3>4
  <2>3. QED BY <1>3, <2>1, <2>2 DEF ParseField
<1>4. QED BY <1>2, <1>3

\* A field written out value by value is read back as those values.
LEMMA JoinedIsRead ==
    ASSUME NEW high \in Nat, NEW V, V \subseteq 0..high
    PROVE  /\ JoinValues(V).star = FALSE
           /\ \A p \in ToSet(JoinValues(V).parts) : p.low \in V
           /\ ParseField(JoinValues(V), 0, high) = V
<1> DEFINE ps == JoinValues(V).parts
<1>1. V \subseteq Nat /\ IsFiniteSet(V)
  <2>1. V \subseteq Nat
    OBVIOUS
  <2>2. 0 \in Int /\ high \in Int
    OBVIOUS
  <2>3. IsFiniteSet(0..high)
    BY <2>2, FS_Interval
  <2>4. QED BY <2>1, <2>3, FS_Subset
<1>2. Cardinality(V) \in Nat /\ ps = [i \in 1..Cardinality(V) |-> Part("value", Ranked(V, i), 0, 1)] /\ ~JoinValues(V).star
      /\ JoinValues(V).star = FALSE
  BY <1>1, FS_CardinalityType DEF JoinValues, ListOf
<1>3. ToSet(ps) = {Part("value", v, 0, 1) : v \in V}
  <2>1. ASSUME NEW p \in ToSet(ps) PROVE p \in {Part("value", v, 0, 1) : v \in V}
    <3>1. PICK i \in 1..Cardinality(V) : p = Part("value", Ranked(V, i), 0, 1)
      BY <1>2 DEF ToSet
    <3>2. QED BY <1>1, <3>1, RankedIs
  <2>2. ASSUME NEW v \in V PROVE Part("value", v, 0, 1) \in ToSet(ps)
    <3>1. PICK i \in 1..Cardinality(V) : Ranked(V, i) = v
      BY <1>1, RankedIs
    <3>2. ps[i] = Part("value", v, 0, 1) /\ DOMAIN ps = 1..Cardinality(V)
      BY <1>2, <3>1
    <3>3. QED BY <3>2 DEF ToSet
  <2>3. QED BY <2>1, <2>2
<1>4. ASSUME NEW v \in V
      PROVE  /\ Part("value", v, 0, 1).low = v
             /\ ~PartRefused(Part("value", v, 0, 1), 0, high)
             /\ PartValues(Part("value", v, 0, 1), 0, high) = {v}
  <2>1. v \in Nat /\ 0 <= v /\ v <= high
    OBVIOUS
  <2>2. Part("value", v, 0, 1) = [kind |-> "value", low |-> v, high |-> 0, step |-> 1]
    BY DEF Part
  <2>3. ~PartRefused(Part("value", v, 0, 1), 0, high)
    BY <2>1, <2>2 DEF PartRefused
  <2>4. PartValues(Part("value", v, 0, 1), 0, high) = {v}
    BY <2>1, <2>2 DEF PartValues
  <2>5. QED BY <2>2, <2>3, <2>4
<1>5. ParseField(JoinValues(V), 0, high) = V
  <2>1. ParseField(JoinValues(V), 0, high) = UNION {PartValues(p, 0, high) : p \in ToSet(ps)}
    BY <1>2, <1>3, <1>4 DEF ParseField
  <2>2. {PartValues(p, 0, high) : p \in ToSet(ps)} = {{v} : v \in V}
    BY <1>3, <1>4
  <2>3. QED BY <2>1, <2>2
<1>6. QED BY <1>2, <1>3, <1>4, <1>5

\* What is kept of an expression: the same fields but for the weekday, which is read as the same set,
\* and which is kept again as it is.
LEMMA CanonicalIs ==
    ASSUME NEW t \in Expressions, NEW e \in Canonical(t)
    PROVE  /\ ParseSchedule(e) = ParseSchedule(t)
           /\ e[5].star \/ \A p \in ToSet(e[5].parts) : p.low < Highs.weekday
           /\ Canonical(e) = {e}
<1> DEFINE W == ParseSchedule(t).weekdays
           V == ParseField(t[5], 0, Highs.weekday)
<1>1. ParseSchedule(t).ok /\ Len(t) = 5 /\ t \in Seq(FieldsTyped)
  BY CronFacts DEF Canonical, ParseSchedule
<1>2. CASE t[5].star
  BY <1>1, <1>2 DEF Canonical
<1>3. CASE ~t[5].star
  <2>1. e = [t EXCEPT ![5] = JoinValues(W)] /\ DOMAIN t = 1..5
    BY <1>1, <1>3 DEF Canonical
  <2>2. e[5] = JoinValues(W) /\ \A i \in 1..4 : e[i] = t[i]
    BY <2>1
  <2>3. Len(e) = 5 /\ DOMAIN e = 1..5
    <3>1. JoinValues(W) \in {JoinValues(W)} /\ e \in [1..5 -> FieldsTyped \cup {JoinValues(W)}]
      BY <1>1, <2>1
    <3>2. QED BY <3>1
  <2>4. V \subseteq 0..Highs.weekday /\ V # {} /\ W = {IF v = Highs.weekday THEN 0 ELSE v : v \in V}
    <3>1. t[5] \in FieldsTyped
      <4>1. 5 \in 1..Len(t)
        BY <1>1
      <4>2. QED BY <1>1, <4>1, FieldOfSeq
    <3>2. V \subseteq 0..Highs.weekday
      BY <3>1, CronFacts, FieldValues
    <3>3. V # {}
      <4>1. \A i \in 1..Len(t) : ParseField(t[i], Lows[Fields[i]], Highs[Fields[i]]) # {}
        BY <1>1 DEF ParseSchedule
      <4>2. 5 \in 1..Len(t)
        BY <1>1
      <4>3. QED BY <4>1, <4>2, CronFacts
    <3>4. W = {IF v = Highs.weekday THEN 0 ELSE v : v \in V}
      BY CronFacts DEF ParseSchedule
    <3>5. QED BY <3>2, <3>3, <3>4
  <2>5. W \subseteq 0..Highs.weekday /\ W # {} /\ \A w \in W : w < Highs.weekday /\ w # Highs.weekday
    BY <2>4, CronFacts
  <2>6. /\ ~e[5].star /\ e[5].star = FALSE /\ \A p \in ToSet(e[5].parts) : p.low \in W
        /\ ParseField(e[5], 0, Highs.weekday) = W
    <3> HIDE DEF W, V
    <3>1. Highs.weekday \in Nat
      BY CronFacts
    <3>2. QED BY <2>2, <2>5, <3>1, JoinedIsRead
  <2>7. {IF w = Highs.weekday THEN 0 ELSE w : w \in W} = W
    BY <2>5
  <2>8. t[5].star = FALSE
    BY <1>1, <1>3 DEF FieldsTyped
  <2>9. ParseSchedule(e) = ParseSchedule(t)
    <3> DEFINE val(x, i) == ParseField(x[i], Lows[Fields[i]], Highs[Fields[i]])
    <3>1. val(e, 1) = val(t, 1) /\ val(e, 2) = val(t, 2) /\ val(e, 3) = val(t, 3) /\ val(e, 4) = val(t, 4)
      BY <2>2
    <3>2. val(e, 5) = W /\ val(t, 5) = V
      BY <2>6, CronFacts
    <3>3. \A i \in 1..5 : val(e, i) # {} <=> val(t, i) # {}
      <4>1. SUFFICES ASSUME NEW i \in 1..5 PROVE val(e, i) # {} <=> val(t, i) # {}
        OBVIOUS
      <4>2. i = 1 \/ i = 2 \/ i = 3 \/ i = 4 \/ i = 5
        OBVIOUS
      <4>3. QED BY <2>4, <2>5, <3>1, <3>2, <4>2
    <3>4. e[3].star = t[3].star /\ e[5].star = t[5].star
      <4>1. e[3] = t[3]
        BY <2>2
      <4>2. QED BY <2>6, <2>8, <4>1
    <3> HIDE DEF W, V, val
    <3>5. \A x : ParseSchedule(x) =
            [ok |-> Len(x) = 5 /\ \A i \in 1..Len(x) : val(x, i) # {},
             minutes |-> val(x, 1), hours |-> val(x, 2), days |-> val(x, 3), months |-> val(x, 4),
             weekdays |-> {IF v = Highs.weekday THEN 0 ELSE v : v \in val(x, 5)},
             dayRestricted |-> ~x[3].star, weekdayRestricted |-> ~x[5].star]
      BY DEF ParseSchedule, val
    <3>6. ParseSchedule(e) =
            [ok |-> Len(e) = 5 /\ \A i \in 1..Len(e) : val(e, i) # {},
             minutes |-> val(t, 1), hours |-> val(t, 2), days |-> val(t, 3), months |-> val(t, 4),
             weekdays |-> W,
             dayRestricted |-> ~t[3].star, weekdayRestricted |-> ~t[5].star]
      BY <2>7, <3>1, <3>2, <3>4, <3>5
    <3>7. ParseSchedule(t) =
            [ok |-> Len(t) = 5 /\ \A i \in 1..Len(t) : val(t, i) # {},
             minutes |-> val(t, 1), hours |-> val(t, 2), days |-> val(t, 3), months |-> val(t, 4),
             weekdays |-> W,
             dayRestricted |-> ~t[3].star, weekdayRestricted |-> ~t[5].star]
      BY <2>4, <3>2, <3>5
    <3>8. (Len(e) = 5 /\ \A i \in 1..Len(e) : val(e, i) # {}) = (Len(t) = 5 /\ \A i \in 1..Len(t) : val(t, i) # {})
      BY <1>1, <2>3, <3>3
    <3>9. QED BY <3>6, <3>7, <3>8
  <2>10. Canonical(e) = {e}
    <3>1. Canonical(e) = {[e EXCEPT ![5] = JoinValues(W)]}
      BY <1>1, <2>6, <2>9 DEF Canonical
    <3>2. [e EXCEPT ![5] = JoinValues(W)] = e
      BY <2>1, <2>2, <2>3
    <3>3. QED BY <3>1, <3>2
  <2>11. QED BY <2>5, <2>6, <2>9, <2>10
<1>4. QED BY <1>2, <1>3

\* A field that is not refused holds the values a direct reading of it allows.
LEMMA FieldReads ==
    ASSUME NEW f \in FieldsTyped, NEW low \in Nat, NEW high \in Nat, ParseField(f, low, high) # {},
           NEW v \in Nat, low <= v, v <= high
    PROVE  v \in ParseField(f, low, high) <=> Says(f, v, low, high)
<1>1. CASE f.star
  <2>1. v \in RangeOf(low, high, 1)
    <3>1. (v - low) % 1 = 0
      OBVIOUS
    <3>2. QED BY <3>1 DEF RangeOf
  <2>2. QED BY <1>1, <2>1 DEF ParseField, Says
<1>2. CASE ~f.star
  <2>1. ToSet(f.parts) \subseteq Parts
    BY DEF FieldsTyped, ToSet
  <2>2. /\ \A p \in ToSet(f.parts) : ~PartRefused(p, low, high)
        /\ ParseField(f, low, high) = UNION {PartValues(p, low, high) : p \in ToSet(f.parts)}
    BY <1>2 DEF ParseField
  <2>3. ASSUME NEW p \in Parts, ~PartRefused(p, low, high)
        PROVE  v \in PartValues(p, low, high)
                 <=> Begin(p, low) <= v /\ v <= End(p, high) /\ (v - Begin(p, low)) % p.step = 0
    <3>1. p.low \in Nat /\ p.high \in Nat /\ p.step \in Nat /\ p.step >= 1 /\ p.kind \in {"star", "range", "value"}
      BY <2>3 DEF Parts, PartRefused
    <3>2. CASE p.kind = "star"
      BY <3>1, <3>2 DEF PartValues, RangeOf, Begin, End
    <3>3. CASE p.kind = "range"
      BY <3>1, <3>3 DEF PartValues, RangeOf, Begin, End
    <3>4. CASE p.kind = "value" /\ p.step > 1
      BY <3>1, <3>4 DEF PartValues, RangeOf, Begin, End
    <3>5. CASE p.kind = "value" /\ ~(p.step > 1)
      <4>1. PartValues(p, low, high) = {p.low} /\ Begin(p, low) = p.low /\ End(p, high) = p.low /\ p.step = 1
        BY <3>1, <3>5 DEF PartValues, Begin, End
      <4>2. (v - p.low) % 1 = 0
        BY <3>1
      <4>3. QED BY <3>1, <4>1, <4>2
    <3>6. QED BY <3>1, <3>2, <3>3, <3>4, <3>5
  <2>4. QED BY <1>2, <2>1, <2>2, <2>3 DEF Says
<1>3. QED BY <1>1, <1>2

\* The minutes of the calendar are minutes, hours, days, months and weekdays of the fields.
LEMMA TimesAre ==
    ASSUME NEW n \in Nat
    PROVE  /\ TimeOf(n).minute \in 0..Highs.minute /\ TimeOf(n).hour \in 0..Highs.hour
           /\ TimeOf(n).day \in 1..Highs.day /\ TimeOf(n).month \in 1..Highs.month
           /\ TimeOf(n).weekday \in 0..Highs.weekday - 1
<1> DEFINE d == n \div DayMinutes
<1>1. /\ Highs.minute \in Nat /\ Highs.hour \in Nat /\ Highs.weekday \in Nat /\ Highs.weekday > 0
      /\ Len(CycleDays) \in Nat /\ Len(CycleDays) > 0
  BY CronAssumption
<1>2. \A a \in Nat, b \in Nat : b > 0 => a % b \in 0..b - 1 /\ a \div b \in Nat
  OBVIOUS
<1>3. DayMinutes \in Nat /\ DayMinutes > 0
  <2>1. \A a, b \in Nat : (a + 1) * (b + 1) \in Nat /\ (a + 1) * (b + 1) > 0
    OBVIOUS
  <2>2. QED BY <1>1, <2>1 DEF DayMinutes
<1>4. d \in Nat
  BY <1>2, <1>3
<1> HIDE DEF d
<1>5. CycleDays[(d % Len(CycleDays)) + 1] \in [month : 1..Highs.month, day : 1..Highs.day]
  <2>1. (d % Len(CycleDays)) + 1 \in 1..Len(CycleDays)
    BY <1>1, <1>2, <1>4
  <2>2. CycleDays \in Seq([month : 1..Highs.month, day : 1..Highs.day])
    BY CronAssumption
  <2>3. QED BY <2>1, <2>2, FieldOfSeq
<1>6. /\ n % (Highs.minute + 1) \in 0..Highs.minute
      /\ n \div (Highs.minute + 1) \in Nat
  <2>1. Highs.minute + 1 \in Nat /\ Highs.minute + 1 > 0 /\ (Highs.minute + 1) - 1 = Highs.minute
    BY <1>1
  <2>2. n % (Highs.minute + 1) \in 0..(Highs.minute + 1) - 1 /\ n \div (Highs.minute + 1) \in Nat
    BY <1>2, <2>1
  <2>3. QED BY <2>1, <2>2
<1>7. (n \div (Highs.minute + 1)) % (Highs.hour + 1) \in 0..Highs.hour
  BY <1>1, <1>2, <1>6
<1>8. d % Highs.weekday \in 0..Highs.weekday - 1
  BY <1>1, <1>2, <1>4
<1>9. QED BY <1>5, <1>6, <1>7, <1>8 DEF TimeOf, d

\* What the parser and Matches make of an expression is what a direct reading gives.
LEMMA ParsedIsRead ==
    ASSUME NEW e \in Expressions, ParseSchedule(e).ok, NEW n \in Nat
    PROVE  DueNow(e, n) <=> ReadDirectly(e, TimeOf(n))
<1> DEFINE t == TimeOf(n)
           val(i) == ParseField(e[i], Lows[Fields[i]], Highs[Fields[i]])
<1>1. /\ Lows[Fields[1]] = 0 /\ Lows[Fields[2]] = 0 /\ Lows[Fields[3]] = 1 /\ Lows[Fields[4]] = 1 /\ Lows[Fields[5]] = 0
      /\ Fields[1] = "minute" /\ Fields[2] = "hour" /\ Fields[3] = "day" /\ Fields[4] = "month" /\ Fields[5] = "weekday"
  <2>1. ToSet(Fields) = {"minute", "hour", "day", "month", "weekday"}
    <3>1. DOMAIN Fields = 1..5
      BY DEF Fields
    <3>2. \A i \in 1..5 : i = 1 \/ i = 2 \/ i = 3 \/ i = 4 \/ i = 5
      OBVIOUS
    <3>3. QED BY <3>1, <3>2 DEF ToSet, Fields
  <2>2. QED BY <2>1 DEF Lows, Fields
<1>2. e \in Seq(FieldsTyped) /\ Len(e) = 5 /\ \A i \in 1..5 : val(i) # {}
  BY CronFacts DEF ParseSchedule
<1>3. \A i \in 1..5 : e[i] \in FieldsTyped
  BY <1>2, FieldOfSeq
<1>4. /\ Highs.minute \in Nat /\ Highs.hour \in Nat /\ Highs.day \in Nat /\ Highs.month \in Nat /\ Highs.weekday \in Nat
      /\ Highs.weekday > 0
  BY CronAssumption
<1>5. /\ t.minute \in 0..Highs.minute /\ t.hour \in 0..Highs.hour /\ t.day \in 1..Highs.day
      /\ t.month \in 1..Highs.month /\ t.weekday \in 0..Highs.weekday - 1
  BY TimesAre
<1> HIDE DEF t
<1>6. /\ val(1) = ParseField(e[1], 0, Highs.minute) /\ val(2) = ParseField(e[2], 0, Highs.hour)
      /\ val(3) = ParseField(e[3], 1, Highs.day) /\ val(4) = ParseField(e[4], 1, Highs.month)
      /\ val(5) = ParseField(e[5], 0, Highs.weekday)
  BY <1>1
<1>7. /\ t.minute \in val(1) <=> Says(e[1], t.minute, 0, Highs.minute)
      /\ t.hour \in val(2) <=> Says(e[2], t.hour, 0, Highs.hour)
      /\ t.day \in val(3) <=> Says(e[3], t.day, 1, Highs.day)
      /\ t.month \in val(4) <=> Says(e[4], t.month, 1, Highs.month)
  <2>1. /\ e[1] \in FieldsTyped /\ e[2] \in FieldsTyped /\ e[3] \in FieldsTyped /\ e[4] \in FieldsTyped
        /\ val(1) # {} /\ val(2) # {} /\ val(3) # {} /\ val(4) # {}
    BY <1>2, <1>3
  <2> HIDE DEF val
  <2>2. t.minute \in val(1) <=> Says(e[1], t.minute, 0, Highs.minute)
    BY <1>4, <1>5, <1>6, <2>1, FieldReads
  <2>3. t.hour \in val(2) <=> Says(e[2], t.hour, 0, Highs.hour)
    BY <1>4, <1>5, <1>6, <2>1, FieldReads
  <2>4. t.day \in val(3) <=> Says(e[3], t.day, 1, Highs.day)
    BY <1>4, <1>5, <1>6, <2>1, FieldReads
  <2>5. t.month \in val(4) <=> Says(e[4], t.month, 1, Highs.month)
    BY <1>4, <1>5, <1>6, <2>1, FieldReads
  <2>6. QED BY <2>2, <2>3, <2>4, <2>5
<1> DEFINE W == {IF v = Highs.weekday THEN 0 ELSE v : v \in val(5)}
           weekday == \/ Says(e[5], t.weekday, 0, Highs.weekday)
                      \/ t.weekday = 0 /\ Says(e[5], Highs.weekday, 0, Highs.weekday)
<1>8. t.weekday \in W <=> weekday
  <2>1. e[5] \in FieldsTyped /\ val(5) # {} /\ val(5) = ParseField(e[5], 0, Highs.weekday)
    BY <1>2, <1>3, <1>6
  <2> HIDE DEF val
  <2>2. t.weekday \in Nat /\ t.weekday < Highs.weekday
    BY <1>4, <1>5
  <2>3. t.weekday \in val(5) <=> Says(e[5], t.weekday, 0, Highs.weekday)
    BY <1>4, <2>1, <2>2, FieldReads
  <2>4. Highs.weekday \in val(5) <=> Says(e[5], Highs.weekday, 0, Highs.weekday)
    BY <1>4, <2>1, FieldReads
  <2>5. t.weekday \in W <=> t.weekday \in val(5) \/ (t.weekday = 0 /\ Highs.weekday \in val(5))
    BY <1>4, <2>2
  <2>6. QED BY <2>3, <2>4, <2>5
<1>9. ParseSchedule(e) =
        [ok |-> TRUE, minutes |-> val(1), hours |-> val(2), days |-> val(3), months |-> val(4), weekdays |-> W,
         dayRestricted |-> ~e[3].star, weekdayRestricted |-> ~e[5].star]
  <2>1. Len(e) = 5 /\ \A i \in 1..Len(e) : val(i) # {}
    BY <1>2
  <2>2. QED BY <2>1 DEF ParseSchedule
<1>10. /\ e[3].star => Says(e[3], t.day, 1, Highs.day)
       /\ e[5].star => weekday
  BY DEF Says
<1>11. e[3].star \in BOOLEAN /\ e[5].star \in BOOLEAN
  BY <1>3 DEF FieldsTyped
<1>12. Matches(ParseSchedule(e), t)
         <=> /\ t.minute \in val(1) /\ t.hour \in val(2) /\ t.month \in val(4)
             /\ IF ~e[3].star /\ ~e[5].star THEN t.day \in val(3) \/ t.weekday \in W
                ELSE (~e[3].star => t.day \in val(3)) /\ (~e[5].star => t.weekday \in W)
  <2> DEFINE s == ParseSchedule(e)
  <2>1. /\ s.minutes = val(1) /\ s.hours = val(2) /\ s.days = val(3) /\ s.months = val(4) /\ s.weekdays = W
        /\ s.dayRestricted = (~e[3].star) /\ s.weekdayRestricted = (~e[5].star)
    <3> HIDE DEF val, W
    <3>1. QED BY <1>9
  <2> HIDE DEF val, W, s
  <2>2. Matches(s, t)
          <=> /\ t.minute \in s.minutes /\ t.hour \in s.hours /\ t.month \in s.months
              /\ IF s.dayRestricted /\ s.weekdayRestricted THEN t.day \in s.days \/ t.weekday \in s.weekdays
                 ELSE /\ s.dayRestricted => t.day \in s.days
                      /\ s.weekdayRestricted => t.weekday \in s.weekdays
    BY DEF Matches
  <2>3. Matches(s, t)
          <=> /\ t.minute \in val(1) /\ t.hour \in val(2) /\ t.month \in val(4)
              /\ IF ~e[3].star /\ ~e[5].star THEN t.day \in val(3) \/ t.weekday \in W
                 ELSE (~e[3].star => t.day \in val(3)) /\ (~e[5].star => t.weekday \in W)
    BY <2>1, <2>2
  <2>4. QED BY <2>3 DEF s
<1>13. DueNow(e, n) <=> Matches(ParseSchedule(e), t)
  BY DEF DueNow, t
<1>14. ReadDirectly(e, t)
         <=> /\ Says(e[1], t.minute, 0, Highs.minute) /\ Says(e[2], t.hour, 0, Highs.hour)
             /\ Says(e[4], t.month, 1, Highs.month)
             /\ IF e[3].star \/ e[5].star THEN Says(e[3], t.day, 1, Highs.day) /\ weekday
                ELSE Says(e[3], t.day, 1, Highs.day) \/ weekday
  BY DEF ReadDirectly
<1>15. DueNow(e, n) <=> ReadDirectly(e, t)
  <2> HIDE DEF val, W, weekday
  <2>1. QED BY <1>7, <1>8, <1>10, <1>11, <1>12, <1>13, <1>14
<1>16. QED BY <1>15 DEF t

KeptIsCanonical == typed \in Expressions /\ (stored = {} \/ stored = Canonical(typed))

\* The schedule the cluster runs is the one that was typed (cron.ParseSchedule, Matches, Canonical), for every
\* expression and on every calendar: the minutes a direct reading of its five fields gives, Sunday spelled 0, and nothing to change when it is made canonical again.
THEOREM CanonicalMeansTheSameAlways == CronSpec => []CanonicalMeansTheSame
<1>1. CronInit => KeptIsCanonical
  BY DEF CronInit, KeptIsCanonical
<1>2. KeptIsCanonical /\ [CronNext]_cronVars => KeptIsCanonical'
  BY DEF KeptIsCanonical, CronNext, ValidateSchedule, ShowNextRun, cronVars, Canonical, ParseSchedule, JoinValues, ListOf
<1>3. KeptIsCanonical => CanonicalMeansTheSame
  <2>1. SUFFICES ASSUME KeptIsCanonical, NEW e \in stored
                 PROVE  /\ \A n \in 0..Len(CycleDays) * DayMinutes - 1 : DueNow(e, n) <=> ReadDirectly(typed, TimeOf(n))
                        /\ e[5].star \/ \A p \in ToSet(e[5].parts) : p.low < Highs.weekday
                        /\ Canonical(e) = {e}
    BY DEF CanonicalMeansTheSame
  <2>2. typed \in Expressions /\ e \in Canonical(typed)
    BY <2>1 DEF KeptIsCanonical
  <2>3. ParseSchedule(e) = ParseSchedule(typed)
    BY <2>2, CanonicalIs
  <2>4. \A n \in Nat : DueNow(e, n) <=> ReadDirectly(typed, TimeOf(n))
    <3>1. ParseSchedule(typed).ok
      BY <2>2 DEF Canonical
    <3>2. ASSUME NEW n \in Nat PROVE DueNow(e, n) <=> ReadDirectly(typed, TimeOf(n))
      <4>1. DueNow(typed, n) <=> ReadDirectly(typed, TimeOf(n))
        BY <2>2, <3>1, ParsedIsRead
      <4>2. QED BY <2>3, <4>1 DEF DueNow
    <3>3. QED BY <3>2
  <2>5. QED BY <2>2, <2>4, CanonicalIs
<1>4. QED BY <1>1, <1>2, <1>3, PTL DEF CronSpec
=============================================================================
