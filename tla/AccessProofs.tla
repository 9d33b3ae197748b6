---------------------------- MODULE AccessProofs ----------------------------
(***************************************************************************)
(* What is proved of who is let in: teams and invitations, for every set   *)
(* of people, teams, callers and invitations; and one-time codes, for      *)
(* every set of requests in progress and every clock.                      *)
(***************************************************************************)
EXTENDS Auth, Teams, FiniteSetTheorems, TLAPS

-----------------------------------------------------------------------------
(* Teams.                                                                  *)

MemberKinds == {"add", "remove", "invite", "revoke"}
CallPlaces == {"off", "user", "team", "owner", "finish", "check", "write", "join"}
RolesOrNone == Roles \cup {"none"}
InvitationRows == [state : {"none", "open", "expired", "accepted", "gone"}, t : TeamIds \cup {"none"},
                   p : People \cup {"none"}, role : RolesOrNone]
CallRecords == [kind : TeamKinds \cup {"none"}, at : CallPlaces, by : People \cup {"none"}, t : TeamIds \cup {"none"},
                p : People \cup {"none"}, role : RolesOrNone, i : Nat]
TeamMixTypes == [kinds : SUBSET TeamKinds, faults : BOOLEAN, overlap : BOOLEAN, calls : Nat, owners : SUBSET People]

TeamTypes ==
    /\ account \subseteq People /\ team \subseteq TeamIds
    /\ role \in [TeamIds -> [People -> RolesOrNone]]
    /\ invitation \in [Invitations -> InvitationRows]
    /\ call \in [Callers -> CallRecords]
    /\ tmix \in TeamMixTypes

\* A row of an invitation that was made names a team, a person and a role.
Filled(v) == /\ v.state = "none" => v = NoInvitation
             /\ v.state # "none" => v.t \in TeamIds /\ v.p \in People /\ v.role \in Roles

\* What a request in progress names, by its kind.
Fits(c, inv) ==
    /\ c.kind = "none" => c = NoCall
    /\ c.kind \in {"setup", "create"} => c.by \in People /\ c.t \in TeamIds
    /\ c.kind \in MemberKinds => c.by \in People /\ c.t \in TeamIds /\ c.p \in People /\ c.role \in Roles
    /\ c.kind \in {"revoke", "accept"} => c.i \in Invitations /\ inv[c.i].state # "none"
    /\ c.kind = "accept" => c.p \in People

RowsFit == (\A i \in Invitations : Filled(invitation[i])) /\ (\A q \in Callers : Fits(call[q], invitation))

HasOwner(ro, t) == \E p \in People : ro[t][p] = "owner"

\* What a request that overlaps with no other one still finds as it left it.
Safe(c, ro, ac, te) ==
    /\ c.kind \in {"setup", "create"} =>
         /\ c.at \in {"team", "owner", "finish"} => c.by \in ac
         /\ c.at \in {"owner", "finish"} => c.t \in te
    /\ c.kind \in MemberKinds => ro[c.t][c.by] # "none"
    /\ c.kind = "add" /\ c.at = "write" =>
         /\ c.p \in ac
         /\ ro[c.t][c.p] = "owner" /\ c.role # "owner" => \E p \in People \ {c.p} : ro[c.t][p] = "owner"
    /\ c.kind = "remove" /\ c.at = "write" =>
         (ro[c.t][c.p] = "owner" => \E p \in People \ {c.p} : ro[c.t][p] = "owner")
    /\ c.kind = "accept" /\ c.at = "join" => c.p \in ac /\ \A t \in TeamIds : ro[t][c.p] = "none"

Alone == \A q, r \in Callers : q # r => Quiet(q) \/ Quiet(r)
MembersHaveAccounts == \A t \in TeamIds, p \in People : role[t][p] # "none" => p \in account /\ t \in team
TeamsHaveOwners == \A t \in TeamIds, p \in People : role[t][p] # "none" => HasOwner(role, t)
InvitersHaveOwners ==
    \A i \in Invitations : invitation[i].state # "none" => invitation[i].t \in team /\ HasOwner(role, invitation[i].t)
AllSafe == \A q \in Callers : Safe(call[q], role, account, team)

OneAtATime == Alone /\ MembersHaveAccounts /\ TeamsHaveOwners /\ InvitersHaveOwners /\ AllSafe

TeamInv == TeamTypes /\ RowsFit /\ (~tmix.overlap => OneAtATime)

LEMMA TeamFacts ==
    /\ TeamMixes \subseteq TeamMixTypes /\ TeamIds # {} /\ "none" \notin People /\ "none" \notin TeamIds
    /\ NoCall \in CallRecords /\ NoInvitation \in InvitationRows /\ MaxInvitations \in Nat
    /\ \A inv : Fits(NoCall, inv)
    /\ \A ro, ac, te : Safe(NoCall, ro, ac, te)
<1>1. NoCall \in CallRecords /\ NoInvitation \in InvitationRows
  BY DEF NoCall, CallRecords, NoInvitation, InvitationRows, CallPlaces, RolesOrNone
<1>2. /\ \A inv : Fits(NoCall, inv)
      /\ \A ro, ac, te : Safe(NoCall, ro, ac, te)
  BY DEF Fits, Safe, NoCall, MemberKinds
<1>3. QED BY <1>1, <1>2, TeamMixesAssumption DEF TeamMixTypes

\* One request's record changes; the others' do not.
LEMMA OneCallMoves ==
    ASSUME call \in [Callers -> CallRecords], NEW q \in Callers, NEW c \in CallRecords, call' = [call EXCEPT ![q] = c]
    PROVE  call' \in [Callers -> CallRecords] /\ call'[q] = c /\ \A r \in Callers : r # q => call'[r] = call[r]
OBVIOUS

\* A request moves on and writes nothing.
LEMMA OnlyTheCall ==
    ASSUME TeamInv, NEW q \in Callers, NEW c \in CallRecords, call' = [call EXCEPT ![q] = c],
           UNCHANGED <<account, team, role, invitation, tmix>>, Fits(c, invitation),
           ~tmix.overlap => Safe(c, role, account, team) /\ \A r \in Callers : r # q => Quiet(r)
    PROVE  TeamInv'
<1>1. call' \in [Callers -> CallRecords] /\ call'[q] = c /\ \A r \in Callers : r # q => call'[r] = call[r]
  BY OneCallMoves DEF TeamInv, TeamTypes
<1>2. TeamTypes'
  BY <1>1 DEF TeamInv, TeamTypes
<1>3. RowsFit'
  BY <1>1 DEF TeamInv, RowsFit
<1>4. ASSUME ~tmix'.overlap PROVE OneAtATime'
  <2>1. Alone'
    BY <1>1, <1>4 DEF Alone, Quiet
  <2>2. AllSafe'
    BY <1>1, <1>4 DEF TeamInv, OneAtATime, AllSafe
  <2>3. MembersHaveAccounts' /\ TeamsHaveOwners' /\ InvitersHaveOwners'
    BY <1>4 DEF TeamInv, OneAtATime, MembersHaveAccounts, TeamsHaveOwners, InvitersHaveOwners
  <2>4. QED BY <2>1, <2>2, <2>3 DEF OneAtATime
<1>5. QED BY <1>2, <1>3, <1>4 DEF TeamInv

\* A request that is alone writes and moves on.
LEMMA TheCallWrites ==
    ASSUME TeamInv, NEW q \in Callers, ~Quiet(q), NEW c \in CallRecords, call' = [call EXCEPT ![q] = c],
           tmix' = tmix, account' \subseteq People, team' \subseteq TeamIds, role' \in [TeamIds -> [People -> RolesOrNone]],
           invitation' \in [Invitations -> InvitationRows], \A i \in Invitations : Filled(invitation'[i]),
           \A i \in Invitations : invitation[i].state # "none" => invitation'[i].state # "none",
           Fits(c, invitation'),
           ~tmix.overlap /\ OneAtATime =>
              MembersHaveAccounts' /\ TeamsHaveOwners' /\ InvitersHaveOwners' /\ Safe(c, role', account', team')
    PROVE  TeamInv'
<1>1. call' \in [Callers -> CallRecords] /\ call'[q] = c /\ \A r \in Callers : r # q => call'[r] = call[r]
  BY OneCallMoves DEF TeamInv, TeamTypes
<1>2. TeamTypes'
  BY <1>1 DEF TeamInv, TeamTypes
<1>3. RowsFit'
  <2>1. ASSUME NEW r \in Callers PROVE Fits(call'[r], invitation')
    <3>1. CASE r = q
      BY <1>1, <3>1
    <3>2. CASE r # q
      <4>1. Fits(call[r], invitation)
        BY DEF TeamInv, RowsFit
      <4>2. QED BY <1>1, <3>2, <4>1 DEF Fits
    <3>3. QED BY <3>1, <3>2
  <2>2. QED BY <2>1 DEF RowsFit
<1>4. ASSUME ~tmix'.overlap PROVE OneAtATime'
  <2>0. OneAtATime /\ \A r \in Callers : r # q => call[r] = NoCall
    BY <1>4 DEF TeamInv, OneAtATime, Alone, Quiet
  <2>1. Alone'
    BY <1>1, <2>0 DEF Alone, Quiet
  <2>2. AllSafe'
    BY <1>1, <1>4, <2>0, TeamFacts DEF AllSafe
  <2>3. QED BY <1>4, <2>0, <2>1, <2>2 DEF OneAtATime
<1>5. QED BY <1>2, <1>3, <1>4 DEF TeamInv

LEMMA TeamStarts == TeamInit => TeamInv
<1> SUFFICES ASSUME TeamInit PROVE TeamInv
  OBVIOUS
<1>1. tmix \in TeamMixTypes /\ tmix.owners \subseteq People
  BY TeamFacts DEF TeamInit, TeamMixTypes
<1>2. team \subseteq TeamIds
  BY TeamFacts DEF TeamInit
<1>3. role \in [TeamIds -> [People -> RolesOrNone]]
  BY DEF TeamInit, RolesOrNone, Roles
<1>4. TeamTypes
  BY <1>1, <1>2, <1>3, TeamFacts DEF TeamInit, TeamTypes
<1>5. RowsFit
  BY TeamFacts DEF TeamInit, RowsFit, Filled, NoInvitation
<1>6. ASSUME NEW t \in TeamIds, NEW p \in People, role[t][p] # "none"
      PROVE  role[t][p] = "owner" /\ t \in team /\ p \in account
  BY <1>6 DEF TeamInit
<1>7. MembersHaveAccounts /\ TeamsHaveOwners
  BY <1>6 DEF MembersHaveAccounts, TeamsHaveOwners, HasOwner
<1>8. InvitersHaveOwners /\ Alone /\ AllSafe
  BY TeamFacts DEF TeamInit, InvitersHaveOwners, NoInvitation, Alone, Quiet, AllSafe
<1>9. QED BY <1>4, <1>5, <1>7, <1>8 DEF TeamInv, OneAtATime

-----------------------------------------------------------------------------
(* The steps that write nothing.                                           *)

\* A request that begins is alone, unless requests may overlap.
LEMMA BeginsAlone ==
    ASSUME NEW q \in Callers, NEW k, MayCall(q, k), ~tmix.overlap PROVE \A r \in Callers : r # q => Quiet(r)
BY DEF MayCall
LEMMA GoesOnAlone ==
    ASSUME TeamInv, NEW q \in Callers, ~Quiet(q), ~tmix.overlap PROVE \A r \in Callers : r # q => Quiet(r)
BY DEF TeamInv, OneAtATime, Alone

LEMMA SetupCheckKeeps ==
    ASSUME TeamInv, NEW q \in Callers, NEW p \in People, NEW t \in TeamIds, NEW right \in BOOLEAN, SetupCheck(q, p, t, right)
    PROVE  TeamInv'
<1>1. CASE UNCHANGED call
  BY <1>1 DEF SetupCheck, TeamInv, TeamTypes, RowsFit, OneAtATime, Alone, Quiet, MembersHaveAccounts, TeamsHaveOwners,
              InvitersHaveOwners, AllSafe
<1>2. CASE CallBegins(q, [NoCall EXCEPT !.kind = "setup", !.at = "user", !.by = p, !.t = t])
  <2> DEFINE c == [NoCall EXCEPT !.kind = "setup", !.at = "user", !.by = p, !.t = t]
  <2>1. c \in CallRecords /\ c.kind = "setup" /\ c.at = "user" /\ c.by = p /\ c.t = t
    BY DEF NoCall, CallRecords, CallPlaces, TeamKinds, RolesOrNone
  <2> HIDE DEF c
  <2>2. Fits(c, invitation) /\ Safe(c, role, account, team)
    BY <2>1 DEF Fits, Safe, MemberKinds
  <2>3. call' = [call EXCEPT ![q] = c]
    BY <1>2 DEF CallBegins, c
  <2>4. ~tmix.overlap => \A r \in Callers : r # q => Quiet(r)
    BY BeginsAlone DEF SetupCheck
  <2>5. UNCHANGED <<account, team, role, invitation, tmix>>
    BY DEF SetupCheck
  <2>6. QED BY <2>1, <2>2, <2>3, <2>4, <2>5, OnlyTheCall
<1>3. QED BY <1>1, <1>2 DEF SetupCheck

LEMMA AskCreateTeamKeeps ==
    ASSUME TeamInv, NEW q \in Callers, NEW p \in People, NEW t \in TeamIds, AskCreateTeam(q, p, t)
    PROVE  TeamInv'
<1> DEFINE c == [NoCall EXCEPT !.kind = "create", !.at = "team", !.by = p, !.t = t]
<1>1. c \in CallRecords /\ c.kind = "create" /\ c.at = "team" /\ c.by = p /\ c.t = t
  BY DEF NoCall, CallRecords, CallPlaces, TeamKinds, RolesOrNone
<1>2. call' = [call EXCEPT ![q] = c]
  BY DEF AskCreateTeam, CallBegins
<1> HIDE DEF c
<1>3. Fits(c, invitation) /\ Safe(c, role, account, team)
  BY <1>1 DEF AskCreateTeam, Fits, Safe, MemberKinds
<1>4. ~tmix.overlap => \A r \in Callers : r # q => Quiet(r)
  BY BeginsAlone DEF AskCreateTeam
<1>5. UNCHANGED <<account, team, role, invitation, tmix>>
  BY DEF AskCreateTeam
<1>6. QED BY <1>1, <1>2, <1>3, <1>4, <1>5, OnlyTheCall

LEMMA AuthorizeTeamKeeps ==
    ASSUME TeamInv, NEW q \in Callers, NEW k \in TeamKinds, NEW p \in People, NEW t \in TeamIds, AuthorizeTeam(q, k, p, t)
    PROVE  TeamInv'
<1>1. PICK target \in People, r \in Roles, i \in Invitations :
        /\ k = "revoke" => invitation[i].t = t
        /\ CallBegins(q, [kind |-> k, at |-> "check", by |-> p, t |-> t, p |-> target, role |-> r, i |-> i])
  BY DEF AuthorizeTeam
<1> DEFINE c == [kind |-> k, at |-> "check", by |-> p, t |-> t, p |-> target, role |-> r, i |-> i]
<1>2. k \in MemberKinds /\ role[t][p] # "none"
  BY DEF AuthorizeTeam, MemberKinds, AtLeast, Ranks
<1>3. i \in Nat
  BY TeamFacts DEF Invitations
<1>4. c \in CallRecords /\ c.kind = k /\ c.at = "check" /\ c.by = p /\ c.t = t /\ c.p = target /\ c.role = r /\ c.i = i
  BY <1>3 DEF CallRecords, CallPlaces, RolesOrNone
<1>5. call' = [call EXCEPT ![q] = c]
  BY <1>1 DEF CallBegins
<1> HIDE DEF c
<1>6. k = "revoke" => invitation[i].state # "none"
  <2>1. ASSUME invitation[i].t = t PROVE invitation[i] # NoInvitation
    BY <2>1, TeamFacts DEF NoInvitation
  <2>2. QED
    BY <1>1, <2>1 DEF TeamInv, RowsFit, Filled
<1>7. Fits(c, invitation)
  BY <1>2, <1>4, <1>6 DEF Fits, MemberKinds
<1>8. Safe(c, role, account, team)
  BY <1>2, <1>4 DEF Safe, MemberKinds
<1>9. ~tmix.overlap => \A x \in Callers : x # q => Quiet(x)
  BY BeginsAlone DEF AuthorizeTeam
<1>10. UNCHANGED <<account, team, role, invitation, tmix>>
  BY DEF AuthorizeTeam
<1>11. QED BY <1>4, <1>5, <1>7, <1>8, <1>9, <1>10, OnlyTheCall

LEMMA InvitationFromKeeps ==
    ASSUME TeamInv, NEW q \in Callers, NEW i \in Invitations, InvitationFrom(q, i)
    PROVE  TeamInv'
<1> DEFINE c == [NoCall EXCEPT !.kind = "accept", !.at = "user", !.p = invitation[i].p, !.i = i]
<1>1. invitation[i].state = "open" /\ Filled(invitation[i]) /\ i \in Nat
  BY TeamFacts DEF InvitationFrom, TeamInv, RowsFit, Invitations
<1>2. invitation[i].p \in People
  BY <1>1 DEF Filled
<1>3. c \in CallRecords /\ c.kind = "accept" /\ c.at = "user" /\ c.p = invitation[i].p /\ c.i = i
  BY <1>1, <1>2 DEF NoCall, CallRecords, CallPlaces, TeamKinds, RolesOrNone
<1>4. call' = [call EXCEPT ![q] = c]
  BY DEF InvitationFrom, CallBegins
<1> HIDE DEF c
<1>5. Fits(c, invitation) /\ Safe(c, role, account, team)
  BY <1>1, <1>2, <1>3 DEF Fits, Safe, MemberKinds
<1>6. ~tmix.overlap => \A r \in Callers : r # q => Quiet(r)
  BY BeginsAlone DEF InvitationFrom
<1>7. UNCHANGED <<account, team, role, invitation, tmix>>
  BY DEF InvitationFrom
<1>8. QED BY <1>3, <1>4, <1>5, <1>6, <1>7, OnlyTheCall

\* A request that ends leaves nothing behind.
LEMMA EndingKeeps ==
    ASSUME TeamInv, NEW q \in Callers, ~Quiet(q), CallEnds(q), UNCHANGED <<account, team, role, invitation, tmix>>
    PROVE  TeamInv'
<1>1. ~tmix.overlap => \A r \in Callers : r # q => Quiet(r)
  BY GoesOnAlone
<1>2. QED BY <1>1, OnlyTheCall, TeamFacts DEF CallEnds

\* What a record is once the request has moved on.
LEMMA MovedOn ==
    ASSUME TeamInv, NEW q \in Callers, NEW where \in CallPlaces, CallGo(q, where)
    PROVE  \E c \in CallRecords :
              /\ call' = [call EXCEPT ![q] = c] /\ c.at = where /\ c.kind = call[q].kind /\ c.by = call[q].by
              /\ c.t = call[q].t /\ c.p = call[q].p /\ c.role = call[q].role /\ c.i = call[q].i
<1> DEFINE c == [call[q] EXCEPT !.at = where]
<1>1. call[q] \in CallRecords
  BY DEF TeamInv, TeamTypes
<1>2. /\ c \in CallRecords /\ c.at = where /\ c.kind = call[q].kind /\ c.by = call[q].by
      /\ c.t = call[q].t /\ c.p = call[q].p /\ c.role = call[q].role /\ c.i = call[q].i
  BY <1>1 DEF CallRecords
<1>3. call' = [call EXCEPT ![q] = c]
  BY DEF CallGo
<1> HIDE DEF c
<1>4. QED BY <1>2, <1>3

\* More than one owner is another one than the one named.
LEMMA AnotherOwner ==
    ASSUME NEW t, NEW p, CountOwners(t) > 1 PROVE \E x \in People \ {p} : role[t][x] = "owner"
<1> SUFFICES ASSUME \A x \in People \ {p} : role[t][x] # "owner" PROVE FALSE
  OBVIOUS
<1>1. Owners(t) = {} \/ Owners(t) = {p}
  BY DEF Owners
<1>2. Cardinality(Owners(t)) = 0 \/ Cardinality(Owners(t)) = 1
  BY <1>1, FS_EmptySet, FS_Singleton
<1>3. QED BY <1>2 DEF CountOwners

LEMMA CheckCallKeeps ==
    ASSUME TeamInv, NEW q \in Callers, CheckCall(q) PROVE TeamInv'
<1>0. /\ UNCHANGED <<account, team, role, invitation, tmix>> /\ call[q].kind \in MemberKinds /\ call[q].at = "check"
  BY DEF CheckCall, MemberKinds
<1>1. ~Quiet(q)
  BY <1>0 DEF Quiet, NoCall, MemberKinds
<1>2. CASE CallEnds(q)
  BY <1>0, <1>1, <1>2, EndingKeeps
<1>3. CASE CallGo(q, "write") /\ (call[q].kind = "add" => MayAdd(call[q])) /\ (call[q].kind = "remove" => MayRemove(call[q]))
  <2>1. PICK c \in CallRecords :
              /\ call' = [call EXCEPT ![q] = c] /\ c.at = "write" /\ c.kind = call[q].kind /\ c.by = call[q].by
              /\ c.t = call[q].t /\ c.p = call[q].p /\ c.role = call[q].role /\ c.i = call[q].i
    BY <1>3, MovedOn DEF CallPlaces
  <2>2. Fits(call[q], invitation)
    BY DEF TeamInv, RowsFit
  <2>3. Fits(c, invitation)
    BY <1>0, <2>1, <2>2 DEF Fits, MemberKinds
  <2>4. ASSUME ~tmix.overlap PROVE Safe(c, role, account, team)
    <3>1. Safe(call[q], role, account, team)
      BY <2>4 DEF TeamInv, OneAtATime, AllSafe
    <3>2. role[c.t][c.by] # "none"
      BY <1>0, <2>1, <3>1 DEF Safe
    <3>3. c.kind = "add" => c.p \in account /\ (role[c.t][c.p] = "owner" /\ c.role # "owner" => \E p \in People \ {c.p} : role[c.t][p] = "owner")
      <4>1. c.kind = "add" => c.p \in account /\ (role[c.t][c.p] = "owner" /\ c.role # "owner" => CountOwners(c.t) > 1)
        BY <1>3, <2>1 DEF MayAdd
      <4>2. QED BY <4>1, AnotherOwner
    <3>4. c.kind = "remove" => (role[c.t][c.p] = "owner" => \E p \in People \ {c.p} : role[c.t][p] = "owner")
      <4>1. c.kind = "remove" => (role[c.t][c.p] = "owner" => CountOwners(c.t) > 1)
        BY <1>3, <2>1 DEF MayRemove
      <4>2. QED BY <4>1, AnotherOwner
    <3>5. QED BY <1>0, <2>1, <3>2, <3>3, <3>4 DEF Safe, MemberKinds
  <2>5. ~tmix.overlap => \A r \in Callers : r # q => Quiet(r)
    BY <1>1, GoesOnAlone
  <2>6. QED BY <1>0, <2>1, <2>3, <2>4, <2>5, OnlyTheCall
<1>4. QED BY <1>2, <1>3 DEF CheckCall

LEMMA SetupFinishKeeps ==
    ASSUME TeamInv, NEW q \in Callers, SetupFinish(q) PROVE TeamInv'
<1>1. ~Quiet(q) /\ CallEnds(q) /\ UNCHANGED <<account, team, role, invitation, tmix>>
  BY DEF SetupFinish, CallAt, Quiet, NoCall
<1>2. QED BY <1>1, EndingKeeps

LEMMA CallCutKeeps ==
    ASSUME TeamInv, NEW q \in Callers, CallCut(q) PROVE TeamInv'
BY EndingKeeps DEF CallCut

-----------------------------------------------------------------------------
(* The steps that write.                                                   *)

\* The invitations are as they were.
LEMMA InvitationsStay ==
    ASSUME TeamInv, invitation' = invitation
    PROVE  /\ invitation' \in [Invitations -> InvitationRows] /\ \A i \in Invitations : Filled(invitation'[i])
           /\ \A i \in Invitations : invitation[i].state # "none" => invitation'[i].state # "none"
BY DEF TeamInv, TeamTypes, RowsFit

\* One cell of the memberships is written.
LEMMA OneRoleIsWritten ==
    ASSUME TeamInv, NEW t \in TeamIds, NEW p \in People, NEW r \in RolesOrNone, role' = [role EXCEPT ![t][p] = r]
    PROVE  /\ role' \in [TeamIds -> [People -> RolesOrNone]] /\ role'[t][p] = r
           /\ \A u \in TeamIds, x \in People : u # t \/ x # p => role'[u][x] = role[u][x]
<1>1. role \in [TeamIds -> [People -> RolesOrNone]]
  BY DEF TeamInv, TeamTypes
<1>2. QED BY <1>1

\* An account is made: by setup or by somebody who accepts an invitation.
LEMMA AccountIsMade ==
    ASSUME TeamInv, NEW q \in Callers, ~Quiet(q), NEW p \in People, NEW admin, NEW where \in {"team", "join"},
           p \notin account, CreateUser(p, admin), CallGo(q, where), UNCHANGED <<team, role, invitation, tmix>>,
           IF where = "team" THEN call[q].kind = "setup" /\ call[q].by = p ELSE call[q].kind = "accept" /\ call[q].p = p
    PROVE  TeamInv'
<1>1. PICK c \in CallRecords :
            /\ call' = [call EXCEPT ![q] = c] /\ c.at = where /\ c.kind = call[q].kind /\ c.by = call[q].by
            /\ c.t = call[q].t /\ c.p = call[q].p /\ c.role = call[q].role /\ c.i = call[q].i
  BY MovedOn DEF CallPlaces
<1>2. account' = account \cup {p} /\ account' \subseteq People
  BY DEF CreateUser, TeamInv, TeamTypes
<1>3. Fits(call[q], invitation)
  BY DEF TeamInv, RowsFit
<1>4. Fits(c, invitation)
  BY <1>1, <1>3 DEF Fits, MemberKinds
<1>5. ASSUME OneAtATime
      PROVE  MembersHaveAccounts' /\ TeamsHaveOwners' /\ InvitersHaveOwners' /\ Safe(c, role', account', team')
  <2>1. MembersHaveAccounts'
    BY <1>2, <1>5 DEF OneAtATime, MembersHaveAccounts
  <2>2. TeamsHaveOwners' /\ InvitersHaveOwners'
    BY <1>5 DEF OneAtATime, TeamsHaveOwners, InvitersHaveOwners
  <2>3. \A t \in TeamIds : role[t][p] = "none"
    BY <1>5 DEF OneAtATime, MembersHaveAccounts
  <2>4. Safe(c, role', account', team')
    BY <1>1, <1>2, <2>3 DEF Safe, MemberKinds
  <2>5. QED BY <2>1, <2>2, <2>4
<1>6. team' \subseteq TeamIds /\ role' \in [TeamIds -> [People -> RolesOrNone]]
  BY DEF TeamInv, TeamTypes
<1>7. QED BY <1>1, <1>2, <1>4, <1>5, <1>6, InvitationsStay, TheCallWrites

LEMMA SetupUserKeeps ==
    ASSUME TeamInv, NEW q \in Callers, SetupUser(q) PROVE TeamInv'
<1>1. ~Quiet(q) /\ call[q].kind = "setup" /\ UNCHANGED <<team, role, invitation, tmix>>
  BY DEF SetupUser, CallAt, Quiet, NoCall
<1>2. call[q].by \in People
  BY <1>1 DEF TeamInv, RowsFit, Fits
<1>3. CASE CallEnds(q) /\ UNCHANGED <<account, admins>>
  BY <1>1, <1>3, EndingKeeps
<1>4. CASE call[q].by \notin account /\ CreateUser(call[q].by, TRUE) /\ CallGo(q, "team")
  BY <1>1, <1>2, <1>4, AccountIsMade
<1>5. QED BY <1>3, <1>4 DEF SetupUser

LEMMA AcceptUserKeeps ==
    ASSUME TeamInv, NEW q \in Callers, AcceptUser(q) PROVE TeamInv'
<1>1. ~Quiet(q) /\ call[q].kind = "accept" /\ UNCHANGED <<team, role, invitation, tmix>>
  BY DEF AcceptUser, CallAt, Quiet, NoCall
<1>2. call[q].p \in People
  BY <1>1 DEF TeamInv, RowsFit, Fits
<1>3. CASE CallEnds(q) /\ UNCHANGED <<account, admins>>
  BY <1>1, <1>3, EndingKeeps
<1>4. CASE call[q].p \notin account /\ CreateUser(call[q].p, FALSE) /\ CallGo(q, "join")
  BY <1>1, <1>2, <1>4, AccountIsMade
<1>5. QED BY <1>3, <1>4 DEF AcceptUser

LEMMA CreateTeamRowKeeps ==
    ASSUME TeamInv, NEW q \in Callers, CreateTeamRow(q) PROVE TeamInv'
<1>1. /\ ~Quiet(q) /\ call[q].kind \in {"setup", "create"} /\ call[q].at = "team"
      /\ UNCHANGED <<account, role, invitation, tmix>>
  BY DEF CreateTeamRow, Quiet, NoCall
<1>2. CASE CallEnds(q) /\ UNCHANGED team
  BY <1>1, <1>2, EndingKeeps
<1>3. CASE CreateTeam(call[q].t) /\ CallGo(q, "owner")
  <2>1. PICK c \in CallRecords :
            /\ call' = [call EXCEPT ![q] = c] /\ c.at = "owner" /\ c.kind = call[q].kind /\ c.by = call[q].by
            /\ c.t = call[q].t /\ c.p = call[q].p /\ c.role = call[q].role /\ c.i = call[q].i
    BY <1>3, MovedOn DEF CallPlaces
  <2>2. Fits(call[q], invitation)
    BY DEF TeamInv, RowsFit
  <2>3. Fits(c, invitation)
    BY <1>1, <2>1, <2>2 DEF Fits, MemberKinds
  <2>4. call[q].t \in TeamIds
    BY <1>1, <2>2 DEF Fits
  <2>5. /\ team' = team \cup {c.t} /\ team' \subseteq TeamIds /\ role' \in [TeamIds -> [People -> RolesOrNone]]
        /\ account' \subseteq People
    BY <1>1, <1>3, <2>1, <2>4 DEF CreateTeam, TeamInv, TeamTypes
  <2>6. ASSUME OneAtATime
        PROVE  MembersHaveAccounts' /\ TeamsHaveOwners' /\ InvitersHaveOwners' /\ Safe(c, role', account', team')
    <3>1. MembersHaveAccounts' /\ TeamsHaveOwners'
      BY <1>1, <2>5, <2>6 DEF OneAtATime, MembersHaveAccounts, TeamsHaveOwners
    <3>2. InvitersHaveOwners'
      BY <1>1, <2>5, <2>6 DEF OneAtATime, InvitersHaveOwners
    <3>3. Safe(call[q], role, account, team)
      BY <2>6 DEF OneAtATime, AllSafe
    <3>4. Safe(c, role', account', team')
      BY <1>1, <2>1, <2>5, <3>3 DEF Safe, MemberKinds
    <3>5. QED BY <3>1, <3>2, <3>4
  <2>7. QED BY <1>1, <2>1, <2>3, <2>5, <2>6, InvitationsStay, TheCallWrites
<1>4. QED BY <1>2, <1>3 DEF CreateTeamRow

\* A member is written who keeps every team with members an owner.
LEMMA MemberIsWritten ==
    ASSUME TeamInv, NEW q \in Callers, ~Quiet(q), NEW t \in TeamIds, NEW p \in People, NEW r \in RolesOrNone,
           role' = [role EXCEPT ![t][p] = r], UNCHANGED <<account, team, tmix>>,
           invitation' \in [Invitations -> InvitationRows], \A i \in Invitations : Filled(invitation'[i]),
           \A i \in Invitations : invitation[i].state # "none" => invitation'[i].state # "none",
           \A i \in Invitations : invitation'[i].state # "none" => invitation[i].state # "none" /\ invitation'[i].t = invitation[i].t,
           NEW c \in CallRecords, call' = [call EXCEPT ![q] = c], Fits(c, invitation'),
           OneAtATime =>
              /\ r # "none" => p \in account /\ t \in team
              /\ r # "owner" => \E x \in People : x # p /\ role[t][x] = "owner"
              /\ Safe(c, role', account, team)
    PROVE  TeamInv'
<1>1. /\ role' \in [TeamIds -> [People -> RolesOrNone]] /\ role'[t][p] = r
      /\ \A u \in TeamIds, x \in People : u # t \/ x # p => role'[u][x] = role[u][x]
  <2>1. role \in [TeamIds -> [People -> RolesOrNone]]
    BY DEF TeamInv, TeamTypes
  <2>2. QED BY ONLY <2>1, role' = [role EXCEPT ![t][p] = r], t \in TeamIds, p \in People, r \in RolesOrNone
<1>2. ASSUME OneAtATime
      PROVE  MembersHaveAccounts' /\ TeamsHaveOwners' /\ InvitersHaveOwners' /\ Safe(c, role', account', team')
  <2>1. MembersHaveAccounts'
    BY <1>1, <1>2 DEF OneAtATime, MembersHaveAccounts
  <2>2. \A u \in TeamIds : u # t => (HasOwner(role, u) <=> HasOwner(role', u))
    BY <1>1 DEF HasOwner
  <2>3. HasOwner(role', t)
    <3>1. CASE r = "owner"
      BY <1>1, <3>1 DEF HasOwner
    <3>2. CASE r # "owner"
      <4>1. PICK x \in People : x # p /\ role[t][x] = "owner"
        BY <1>2, <3>2
      <4>2. role'[t][x] = "owner"
        BY <1>1, <4>1
      <4>3. QED BY <4>2 DEF HasOwner
    <3>3. QED BY <3>1, <3>2
  <2>4. TeamsHaveOwners'
    <3>1. ASSUME NEW u \in TeamIds, NEW x \in People, role'[u][x] # "none" PROVE HasOwner(role', u)
      <4>1. CASE u = t
        BY <2>3, <4>1
      <4>2. CASE u # t
        <5>1. role[u][x] # "none"
          BY <1>1, <3>1, <4>2
        <5>2. HasOwner(role, u)
          BY <1>2, <5>1 DEF OneAtATime, TeamsHaveOwners
        <5>3. QED BY <2>2, <4>2, <5>2
      <4>3. QED BY <4>1, <4>2
    <3>2. QED BY <3>1 DEF TeamsHaveOwners
  <2>5. InvitersHaveOwners'
    <3>1. ASSUME NEW i \in Invitations, invitation'[i].state # "none"
          PROVE  invitation'[i].t \in team' /\ HasOwner(role', invitation'[i].t)
      <4>1. invitation[i].t \in team /\ HasOwner(role, invitation[i].t) /\ invitation'[i].t = invitation[i].t
        BY <1>2, <3>1 DEF OneAtATime, InvitersHaveOwners
      <4>2. invitation[i].t \in TeamIds
        BY <4>1 DEF TeamInv, TeamTypes
      <4>3. QED BY <2>2, <2>3, <4>1, <4>2
    <3>2. QED BY <3>1 DEF InvitersHaveOwners
  <2>6. QED BY <1>2, <2>1, <2>4, <2>5
<1>3. account' \subseteq People /\ team' \subseteq TeamIds
  BY DEF TeamInv, TeamTypes
<1>4. QED BY <1>1, <1>2, <1>3, TheCallWrites

LEMMA CreateTeamOwnerKeeps ==
    ASSUME TeamInv, NEW q \in Callers, CreateTeamOwner(q) PROVE TeamInv'
<1>1. /\ ~Quiet(q) /\ call[q].kind \in {"setup", "create"} /\ call[q].at = "owner"
      /\ UNCHANGED <<account, team, invitation, tmix>>
  BY DEF CreateTeamOwner, Quiet, NoCall
<1>2. Fits(call[q], invitation) /\ call[q].t \in TeamIds /\ call[q].by \in People
  BY <1>1 DEF TeamInv, RowsFit, Fits
<1>3. role' = [role EXCEPT ![call[q].t][call[q].by] = "owner"]
  BY DEF CreateTeamOwner, AddMember
<1>4. ASSUME OneAtATime PROVE call[q].by \in account /\ call[q].t \in team
  <2>1. Safe(call[q], role, account, team)
    BY <1>4 DEF OneAtATime, AllSafe
  <2>2. QED BY <1>1, <2>1 DEF Safe
<1>5. \E c \in CallRecords : call' = [call EXCEPT ![q] = c] /\ Fits(c, invitation')
                             /\ (OneAtATime => Safe(c, role', account, team))
  <2>1. CASE CallEnds(q)
    BY <2>1, TeamFacts DEF CallEnds
  <2>2. CASE CallGo(q, "finish")
    <3>1. PICK c \in CallRecords :
            /\ call' = [call EXCEPT ![q] = c] /\ c.at = "finish" /\ c.kind = call[q].kind /\ c.by = call[q].by
            /\ c.t = call[q].t /\ c.p = call[q].p /\ c.role = call[q].role /\ c.i = call[q].i
      BY <2>2, MovedOn DEF CallPlaces
    <3>2. Fits(c, invitation')
      BY <1>1, <1>2, <3>1 DEF Fits, MemberKinds
    <3>3. OneAtATime => Safe(c, role', account, team)
      BY <1>1, <1>4, <3>1 DEF Safe, MemberKinds
    <3>4. QED BY <3>1, <3>2, <3>3
  <2>3. QED BY <2>1, <2>2 DEF CreateTeamOwner
<1>6. PICK c \in CallRecords : call' = [call EXCEPT ![q] = c] /\ Fits(c, invitation')
                             /\ (OneAtATime => Safe(c, role', account, team))
  BY <1>5
<1>7. "owner" \in RolesOrNone
  BY DEF RolesOrNone, Roles
<1>8. QED BY <1>1, <1>2, <1>3, <1>4, <1>6, <1>7, InvitationsStay, MemberIsWritten

LEMMA HandleAddMemberKeeps ==
    ASSUME TeamInv, NEW q \in Callers, HandleAddMember(q) PROVE TeamInv'
<1>1. /\ ~Quiet(q) /\ call[q].kind = "add" /\ call[q].at = "write" /\ UNCHANGED <<account, team, invitation, tmix>>
      /\ call' = [call EXCEPT ![q] = NoCall]
  BY DEF HandleAddMember, CallAt, Quiet, NoCall, CallEnds
<1>2. call[q].t \in TeamIds /\ call[q].p \in People /\ call[q].role \in Roles /\ call[q].by \in People
  BY <1>1 DEF TeamInv, RowsFit, Fits, MemberKinds
<1>3. role' = [role EXCEPT ![call[q].t][call[q].p] = call[q].role]
  BY DEF HandleAddMember, AddMember
<1>4. ASSUME OneAtATime
      PROVE  /\ call[q].p \in account /\ call[q].t \in team
             /\ call[q].role # "owner" => \E x \in People : x # call[q].p /\ role[call[q].t][x] = "owner"
  <2>1. Safe(call[q], role, account, team)
    BY <1>4 DEF OneAtATime, AllSafe
  <2>2. /\ role[call[q].t][call[q].by] # "none" /\ call[q].p \in account
        /\ role[call[q].t][call[q].p] = "owner" /\ call[q].role # "owner" => \E p \in People \ {call[q].p} : role[call[q].t][p] = "owner"
    BY <1>1, <2>1 DEF Safe, MemberKinds
  <2>3. call[q].t \in team /\ HasOwner(role, call[q].t)
    BY <1>2, <1>4, <2>2 DEF OneAtATime, MembersHaveAccounts, TeamsHaveOwners
  <2>4. QED BY <2>2, <2>3 DEF HasOwner
<1>5. call[q].role \in RolesOrNone
  BY <1>2 DEF RolesOrNone
<1>6. QED BY <1>1, <1>2, <1>3, <1>4, <1>5, InvitationsStay, MemberIsWritten, TeamFacts

LEMMA HandleRemoveMemberKeeps ==
    ASSUME TeamInv, NEW q \in Callers, HandleRemoveMember(q) PROVE TeamInv'
<1>1. /\ ~Quiet(q) /\ call[q].kind = "remove" /\ call[q].at = "write" /\ UNCHANGED <<account, team, invitation, tmix>>
      /\ call' = [call EXCEPT ![q] = NoCall]
  BY DEF HandleRemoveMember, CallAt, Quiet, NoCall, CallEnds
<1>2. call[q].t \in TeamIds /\ call[q].p \in People /\ call[q].by \in People
  BY <1>1 DEF TeamInv, RowsFit, Fits, MemberKinds
<1>3. role' = [role EXCEPT ![call[q].t][call[q].p] = "none"]
  BY DEF HandleRemoveMember, RemoveMember
<1>4. ASSUME OneAtATime PROVE \E x \in People : x # call[q].p /\ role[call[q].t][x] = "owner"
  <2>1. Safe(call[q], role, account, team)
    BY <1>4 DEF OneAtATime, AllSafe
  <2>2. /\ role[call[q].t][call[q].by] # "none"
        /\ role[call[q].t][call[q].p] = "owner" => \E p \in People \ {call[q].p} : role[call[q].t][p] = "owner"
    BY <1>1, <2>1 DEF Safe, MemberKinds
  <2>3. HasOwner(role, call[q].t)
    BY <1>2, <1>4, <2>2 DEF OneAtATime, TeamsHaveOwners
  <2>4. QED BY <2>2, <2>3 DEF HasOwner
<1>5. "none" \in RolesOrNone
  BY DEF RolesOrNone
<1>6. QED BY <1>1, <1>2, <1>3, <1>4, <1>5, InvitationsStay, MemberIsWritten, TeamFacts

LEMMA HandleInviteKeeps ==
    ASSUME TeamInv, NEW q \in Callers, HandleInvite(q) PROVE TeamInv'
<1>1. /\ ~Quiet(q) /\ call[q].kind = "invite" /\ call[q].at = "write" /\ UNCHANGED <<account, team, role, tmix>>
      /\ call' = [call EXCEPT ![q] = NoCall]
  BY DEF HandleInvite, CallAt, Quiet, NoCall, CallEnds
<1>2. call[q].t \in TeamIds /\ call[q].p \in People /\ call[q].role \in Roles /\ call[q].by \in People
  BY <1>1 DEF TeamInv, RowsFit, Fits, MemberKinds
<1>3. PICK i \in Invitations : CreateInvitation(i, call[q].t, call[q].p, call[q].role)
  BY DEF HandleInvite
<1> DEFINE new == [state |-> "open", t |-> call[q].t, p |-> call[q].p, role |-> call[q].role]
<1>4. new \in InvitationRows /\ new.state = "open" /\ new.t = call[q].t /\ Filled(new)
  BY <1>2 DEF InvitationRows, RolesOrNone, Filled
<1>5. invitation'[i] = new /\ DOMAIN invitation' = Invitations
  BY <1>3 DEF CreateInvitation
<1> HIDE DEF new
<1>6. ASSUME NEW j \in Invitations, j # i
      PROVE  /\ invitation'[j] \in InvitationRows /\ Filled(invitation'[j]) /\ invitation'[j].t = invitation[j].t
             /\ invitation'[j].state # "none" <=> invitation[j].state # "none"
  <2>1. invitation[j] \in InvitationRows /\ Filled(invitation[j])
    BY DEF TeamInv, TeamTypes, RowsFit
  <2>2. CASE invitation'[j] = invitation[j]
    BY <2>1, <2>2
  <2>3. CASE invitation[j].state \in {"open", "expired"} /\ invitation'[j] = [invitation[j] EXCEPT !.state = "gone"]
    BY <2>1, <2>3 DEF InvitationRows, Filled
  <2>4. QED BY <1>3, <1>6, <2>2, <2>3 DEF CreateInvitation
<1>7. /\ \A j \in Invitations : invitation'[j] \in InvitationRows /\ Filled(invitation'[j])
      /\ \A j \in Invitations : invitation[j].state # "none" => invitation'[j].state # "none"
  BY <1>4, <1>5, <1>6
<1>8. invitation' \in [Invitations -> InvitationRows]
  <2>1. invitation' = [j \in Invitations |-> invitation'[j]]
    BY <1>3 DEF CreateInvitation
  <2>2. QED BY <1>7, <2>1
<1>9. ASSUME OneAtATime
      PROVE  MembersHaveAccounts' /\ TeamsHaveOwners' /\ InvitersHaveOwners' /\ Safe(NoCall, role', account', team')
  <2>1. MembersHaveAccounts' /\ TeamsHaveOwners'
    BY <1>1, <1>9 DEF OneAtATime, MembersHaveAccounts, TeamsHaveOwners
  <2>2. Safe(call[q], role, account, team)
    BY <1>9 DEF OneAtATime, AllSafe
  <2>3. role[call[q].t][call[q].by] # "none"
    BY <1>1, <2>2 DEF Safe, MemberKinds
  <2>4. call[q].t \in team /\ HasOwner(role, call[q].t)
    BY <1>2, <1>9, <2>3 DEF OneAtATime, MembersHaveAccounts, TeamsHaveOwners
  <2>5. \A j \in Invitations : j # i /\ invitation'[j].state # "none" => invitation'[j].t \in team /\ HasOwner(role, invitation'[j].t)
    BY <1>6, <1>9 DEF OneAtATime, InvitersHaveOwners
  <2>6. InvitersHaveOwners'
    BY <1>1, <1>4, <1>5, <2>4, <2>5 DEF InvitersHaveOwners
  <2>7. QED BY <2>1, <2>6, TeamFacts
<1>10. account' \subseteq People /\ team' \subseteq TeamIds /\ role' \in [TeamIds -> [People -> RolesOrNone]]
  BY <1>1 DEF TeamInv, TeamTypes
<1>11. QED BY <1>1, <1>7, <1>8, <1>9, <1>10, TheCallWrites, TeamFacts

\* One invitation changes its state, and is one that was made.
LEMMA OneInvitationChanges ==
    ASSUME TeamInv, NEW i \in Invitations, NEW st \in {"open", "expired", "accepted", "gone"}, invitation[i].state # "none",
           invitation' = [invitation EXCEPT ![i].state = st]
    PROVE  /\ invitation' \in [Invitations -> InvitationRows] /\ (\A j \in Invitations : Filled(invitation'[j]))
           /\ \A j \in Invitations : invitation[j].state # "none" <=> invitation'[j].state # "none"
           /\ \A j \in Invitations : invitation'[j].t = invitation[j].t
           /\ invitation'[i].state = st
<1> DEFINE v == [invitation[i] EXCEPT !.state = st]
<1>1. invitation \in [Invitations -> InvitationRows] /\ \A j \in Invitations : Filled(invitation[j])
  BY DEF TeamInv, TeamTypes, RowsFit
<1>2. invitation[i] \in InvitationRows /\ Filled(invitation[i])
  BY <1>1
<1>3. v \in InvitationRows /\ v.state = st /\ v.t = invitation[i].t /\ v.p = invitation[i].p /\ v.role = invitation[i].role
  BY <1>2 DEF InvitationRows
<1>4. invitation' = [invitation EXCEPT ![i] = v]
  OBVIOUS
<1> HIDE DEF v
<1>5. Filled(v)
  BY <1>2, <1>3 DEF Filled
<1>6. invitation' \in [Invitations -> InvitationRows] /\ invitation'[i] = v /\ \A j \in Invitations : j # i => invitation'[j] = invitation[j]
  BY <1>1, <1>3, <1>4
<1>7. QED BY <1>1, <1>3, <1>5, <1>6

LEMMA HandleRevokeInvitationKeeps ==
    ASSUME TeamInv, NEW q \in Callers, HandleRevokeInvitation(q) PROVE TeamInv'
<1>1. /\ ~Quiet(q) /\ call[q].kind = "revoke" /\ UNCHANGED <<account, team, role, tmix>>
      /\ call' = [call EXCEPT ![q] = NoCall] /\ invitation' = [invitation EXCEPT ![call[q].i].state = "gone"]
  BY DEF HandleRevokeInvitation, CallAt, Quiet, NoCall, CallEnds, DeleteInvitation
<1>2. call[q].i \in Invitations /\ invitation[call[q].i].state # "none"
  BY <1>1 DEF TeamInv, RowsFit, Fits
<1>3. /\ invitation' \in [Invitations -> InvitationRows] /\ (\A j \in Invitations : Filled(invitation'[j]))
      /\ \A j \in Invitations : invitation[j].state # "none" <=> invitation'[j].state # "none"
      /\ \A j \in Invitations : invitation'[j].t = invitation[j].t
  BY <1>1, <1>2, OneInvitationChanges
<1>4. ASSUME OneAtATime
      PROVE  MembersHaveAccounts' /\ TeamsHaveOwners' /\ InvitersHaveOwners' /\ Safe(NoCall, role', account', team')
  <2>1. MembersHaveAccounts' /\ TeamsHaveOwners'
    BY <1>1, <1>4 DEF OneAtATime, MembersHaveAccounts, TeamsHaveOwners
  <2>2. InvitersHaveOwners'
    BY <1>1, <1>3, <1>4 DEF OneAtATime, InvitersHaveOwners
  <2>3. QED BY <2>1, <2>2, TeamFacts
<1>5. account' \subseteq People /\ team' \subseteq TeamIds /\ role' \in [TeamIds -> [People -> RolesOrNone]]
  BY <1>1 DEF TeamInv, TeamTypes
<1>6. QED BY <1>1, <1>3, <1>4, <1>5, TheCallWrites, TeamFacts

LEMMA HandleAcceptInvitationKeeps ==
    ASSUME TeamInv, NEW q \in Callers, HandleAcceptInvitation(q) PROVE TeamInv'
<1>1. /\ ~Quiet(q) /\ call[q].kind = "accept" /\ call[q].at = "join" /\ UNCHANGED <<account, team, tmix>>
      /\ call' = [call EXCEPT ![q] = NoCall] /\ CallEnds(q)
  BY DEF HandleAcceptInvitation, CallAt, Quiet, NoCall, CallEnds
<1>2. call[q].i \in Invitations /\ invitation[call[q].i].state # "none" /\ call[q].p \in People
  BY <1>1 DEF TeamInv, RowsFit, Fits
<1>3. CASE UNCHANGED <<role, invitation>>
  BY <1>1, <1>3, EndingKeeps
<1>4. CASE AcceptInvitation(call[q].i, call[q].p)
  <2>1. PICK v \in InvitationRows : v = invitation[call[q].i]
    BY <1>2 DEF TeamInv, TeamTypes
  <2>2. v.t \in TeamIds /\ v.role \in Roles /\ v.state # "none"
    BY <1>2, <2>1 DEF TeamInv, RowsFit, Filled
  <2>3. role' = [role EXCEPT ![v.t][call[q].p] = v.role] /\ invitation' = [invitation EXCEPT ![call[q].i].state = "accepted"]
    BY <1>4, <2>1 DEF AcceptInvitation, AddMember
  <2>4. /\ invitation' \in [Invitations -> InvitationRows] /\ (\A j \in Invitations : Filled(invitation'[j]))
        /\ \A j \in Invitations : invitation[j].state # "none" <=> invitation'[j].state # "none"
        /\ \A j \in Invitations : invitation'[j].t = invitation[j].t
    BY <1>2, <2>3, OneInvitationChanges
  <2>5. ASSUME OneAtATime
        PROVE  /\ call[q].p \in account /\ v.t \in team
               /\ \E x \in People : x # call[q].p /\ role[v.t][x] = "owner"
    <3>1. Safe(call[q], role, account, team)
      BY <2>5 DEF OneAtATime, AllSafe
    <3>2. call[q].p \in account /\ role[v.t][call[q].p] = "none"
      BY <1>1, <2>2, <3>1 DEF Safe
    <3>3. v.t \in team /\ HasOwner(role, v.t)
      BY <1>2, <2>1, <2>5 DEF OneAtATime, InvitersHaveOwners
    <3>4. QED BY <3>2, <3>3 DEF HasOwner
  <2>6. v.role \in RolesOrNone
    BY <2>2 DEF RolesOrNone
  <2>7. QED BY <1>1, <1>2, <2>2, <2>3, <2>4, <2>5, <2>6, MemberIsWritten, TeamFacts
<1>5. QED BY <1>3, <1>4 DEF HandleAcceptInvitation

LEMMA InvitationExpiresKeeps ==
    ASSUME TeamInv, NEW i \in Invitations, InvitationExpires(i) PROVE TeamInv'
<1>1. /\ UNCHANGED <<account, team, role, tmix, call>> /\ invitation[i].state # "none"
      /\ invitation' = [invitation EXCEPT ![i].state = "expired"]
  BY DEF InvitationExpires
<1>2. /\ invitation' \in [Invitations -> InvitationRows] /\ (\A j \in Invitations : Filled(invitation'[j]))
      /\ \A j \in Invitations : invitation[j].state # "none" <=> invitation'[j].state # "none"
      /\ \A j \in Invitations : invitation'[j].t = invitation[j].t
  BY <1>1, OneInvitationChanges
<1>3. TeamTypes'
  BY <1>1, <1>2 DEF TeamInv, TeamTypes
<1>4. ASSUME NEW q \in Callers PROVE Fits(call[q], invitation')
  <2>1. Fits(call[q], invitation)
    BY DEF TeamInv, RowsFit
  <2>2. QED BY <1>2, <2>1 DEF Fits
<1>5. RowsFit'
  BY <1>1, <1>2, <1>4 DEF RowsFit
<1>6. ASSUME OneAtATime PROVE OneAtATime'
  <2>1. Alone' /\ MembersHaveAccounts' /\ TeamsHaveOwners' /\ AllSafe'
    BY <1>1, <1>6 DEF OneAtATime, Alone, Quiet, MembersHaveAccounts, TeamsHaveOwners, AllSafe
  <2>2. InvitersHaveOwners'
    BY <1>1, <1>2, <1>6 DEF OneAtATime, InvitersHaveOwners
  <2>3. QED BY <2>1, <2>2 DEF OneAtATime
<1>7. QED BY <1>1, <1>3, <1>5, <1>6 DEF TeamInv

LEMMA PanelRestartsKeeps ==
    ASSUME TeamInv, PanelRestarts PROVE TeamInv'
<1>1. UNCHANGED <<account, team, role, invitation, tmix>> /\ call' = [q \in Callers |-> NoCall]
  BY DEF PanelRestarts
<1>2. TeamTypes' /\ RowsFit'
  BY <1>1, TeamFacts DEF TeamInv, TeamTypes, RowsFit
<1>3. ASSUME OneAtATime PROVE OneAtATime'
  <2>1. Alone' /\ AllSafe'
    BY <1>1, TeamFacts DEF Alone, Quiet, AllSafe
  <2>2. MembersHaveAccounts' /\ TeamsHaveOwners' /\ InvitersHaveOwners'
    BY <1>1, <1>3 DEF OneAtATime, MembersHaveAccounts, TeamsHaveOwners, InvitersHaveOwners
  <2>3. QED BY <2>1, <2>2 DEF OneAtATime
<1>4. QED BY <1>1, <1>2, <1>3 DEF TeamInv

LEMMA TeamKeeps == TeamInv /\ [TeamNext]_teamVars => TeamInv'
<1> SUFFICES ASSUME TeamInv, [TeamNext]_teamVars PROVE TeamInv'
  OBVIOUS
<1>1. CASE UNCHANGED teamVars
  BY <1>1 DEF teamVars, TeamInv, TeamTypes, RowsFit, OneAtATime, Alone, Quiet, MembersHaveAccounts, TeamsHaveOwners,
              InvitersHaveOwners, AllSafe
<1>2. CASE TeamNext
  BY <1>2, SetupCheckKeeps, AskCreateTeamKeeps, AuthorizeTeamKeeps, SetupUserKeeps, CreateTeamRowKeeps, CreateTeamOwnerKeeps,
     SetupFinishKeeps, CheckCallKeeps, HandleAddMemberKeeps, HandleRemoveMemberKeeps, HandleInviteKeeps,
     HandleRevokeInvitationKeeps, AcceptUserKeeps, HandleAcceptInvitationKeeps, CallCutKeeps, InvitationFromKeeps,
     InvitationExpiresKeeps, PanelRestartsKeeps
     DEF TeamNext
<1>3. QED BY <1>1, <1>2

LEMMA TeamInvariant == TeamSpec => []TeamInv
BY TeamStarts, TeamKeeps, PTL DEF TeamSpec

\* Requests one at a time, cut short anywhere and with a restart anywhere: a team that
\* has members has an owner (handleAddMember, handleRemoveMember, AcceptInvitation).
THEOREM TeamsAlwaysHaveAnOwner == TeamSpec => []TeamKeepsAnOwner
<1>1. TeamInv => TeamKeepsAnOwner
  <2> SUFFICES ASSUME TeamInv, ~tmix.overlap, NEW t \in team, NEW p \in People, role[t][p] # "none" PROVE Owners(t) # {}
    BY DEF TeamKeepsAnOwner
  <2>1. t \in TeamIds
    BY DEF TeamInv, TeamTypes
  <2>2. HasOwner(role, t)
    BY <2>1 DEF TeamInv, OneAtATime, TeamsHaveOwners
  <2>3. QED BY <2>2 DEF HasOwner, Owners
<1>2. QED BY <1>1, TeamInvariant, PTL

\* A request that is about to join made the account it joins with: nobody else is about
\* to join for that address, and nobody has.
Joining(q) == call[q].kind = "accept" /\ call[q].at = "join"
JoinersAreNew ==
    \A q \in Callers : Joining(q) =>
        /\ call[q].p \in account /\ invitation[call[q].i].p = call[q].p
        /\ \A i \in Invitations : invitation[i].state = "accepted" => invitation[i].p # call[q].p
        /\ \A r \in Callers : Joining(r) /\ call[r].p = call[q].p => r = q
AcceptersAsInvited == \A q \in Callers : call[q].kind = "accept" => invitation[call[q].i].p = call[q].p
JoinInv == OneInvitationEach /\ JoinersAreNew /\ AcceptersAsInvited

\* No request begins to join, none is made an acceptance, no account goes and nobody
\* is let in.
JoinsAsBefore ==
    /\ account \subseteq account'
    /\ \A q \in Callers : call'[q].kind = "accept" => call[q].kind = "accept" /\ call'[q].i = call[q].i /\ call'[q].p = call[q].p
    /\ \A q \in Callers : call'[q].kind = "accept" /\ call'[q].at = "join" => Joining(q)
    /\ \A i \in Invitations : invitation[i].state # "none" => invitation'[i].p = invitation[i].p
    /\ \A i \in Invitations : invitation'[i].state = "accepted" => invitation[i].state = "accepted"

LEMMA AsBeforeKeeps == ASSUME TeamInv, JoinInv, JoinsAsBefore PROVE JoinInv'
<1>1. \A q \in Callers : call[q].kind = "accept" => call[q].i \in Invitations /\ invitation[call[q].i].state # "none"
  BY DEF TeamInv, RowsFit, Fits
<1>2. AcceptersAsInvited'
  BY <1>1 DEF JoinInv, AcceptersAsInvited, JoinsAsBefore
<1>3. \A i \in Invitations : invitation'[i].state = "accepted" => invitation[i].state = "accepted" /\ invitation'[i].p = invitation[i].p
  BY DEF JoinsAsBefore
<1>4. OneInvitationEach'
  BY <1>3 DEF JoinInv, OneInvitationEach, JoinsAsBefore
<1>5. \A q \in Callers : Joining(q)' => Joining(q) /\ call'[q].i = call[q].i /\ call'[q].p = call[q].p
  BY DEF JoinsAsBefore, Joining
<1>6. ASSUME NEW q \in Callers, Joining(q)'
      PROVE  /\ call'[q].p \in account' /\ invitation'[call'[q].i].p = call'[q].p
             /\ \A i \in Invitations : invitation'[i].state = "accepted" => invitation'[i].p # call'[q].p
             /\ \A r \in Callers : Joining(r)' /\ call'[r].p = call'[q].p => r = q
  <2>1. /\ call[q].p \in account
        /\ \A i \in Invitations : invitation[i].state = "accepted" => invitation[i].p # call[q].p
        /\ \A r \in Callers : Joining(r) /\ call[r].p = call[q].p => r = q
    BY <1>5, <1>6 DEF JoinInv, JoinersAreNew
  <2>2. call'[q].p \in account' /\ invitation'[call'[q].i].p = call'[q].p
    BY <1>2, <1>5, <1>6, <2>1 DEF JoinsAsBefore, AcceptersAsInvited, Joining
  <2>3. QED BY <1>3, <1>5, <1>6, <2>1, <2>2
<1>7. QED BY <1>2, <1>4, <1>6 DEF JoinInv, JoinersAreNew, Joining

LEMMA AcceptUserJoins == ASSUME TeamInv, JoinInv, NEW q \in Callers, AcceptUser(q) PROVE JoinInv'
<1>0. call \in [Callers -> CallRecords] /\ UNCHANGED <<invitation, role>> /\ call[q].kind = "accept" /\ call[q].at = "user"
  BY DEF TeamInv, TeamTypes, AcceptUser, CallAt
<1>1. CASE CallEnds(q) /\ account' = account
  BY <1>0, <1>1, AsBeforeKeeps DEF CallEnds, NoCall, JoinsAsBefore, Joining
<1>2. CASE call[q].p \notin account /\ CreateUser(call[q].p, FALSE) /\ CallGo(q, "join")
  <2>1. /\ account' = account \cup {call[q].p} /\ call'[q].kind = "accept" /\ call'[q].at = "join"
        /\ call'[q].i = call[q].i /\ call'[q].p = call[q].p
        /\ \A r \in Callers : r # q => call'[r] = call[r]
    BY <1>0, <1>2 DEF CreateUser, CallGo
  <2>2. AcceptersAsInvited' /\ OneInvitationEach'
    BY <1>0, <2>1 DEF JoinInv, AcceptersAsInvited, OneInvitationEach
  <2>3. \A i \in Invitations : invitation[i].state = "accepted" => invitation[i].p # call[q].p
    BY <1>2 DEF JoinInv, OneInvitationEach
  <2>4. \A r \in Callers : Joining(r) => call[r].p # call[q].p
    BY <1>2 DEF JoinInv, JoinersAreNew
  <2>5. \A r \in Callers : r # q => (Joining(r)' <=> Joining(r))
    BY <2>1 DEF Joining
  <2>6. JoinersAreNew'
    BY <1>0, <2>1, <2>2, <2>3, <2>4, <2>5 DEF JoinInv, JoinersAreNew, AcceptersAsInvited
  <2>7. QED BY <2>2, <2>6 DEF JoinInv
<1>3. QED BY <1>1, <1>2 DEF AcceptUser

LEMMA AcceptingJoins == ASSUME TeamInv, JoinInv, NEW q \in Callers, HandleAcceptInvitation(q) PROVE JoinInv'
<1>0. /\ call \in [Callers -> CallRecords] /\ account' = account /\ Joining(q)
      /\ call' = [call EXCEPT ![q] = NoCall] /\ call[q].i \in Invitations /\ invitation[call[q].i].state # "none"
  BY DEF TeamInv, TeamTypes, HandleAcceptInvitation, CallAt, CallEnds, Joining, RowsFit, Fits
<1>1. CASE UNCHANGED <<role, invitation>>
  BY <1>0, <1>1, AsBeforeKeeps DEF NoCall, JoinsAsBefore, Joining
<1>2. CASE AcceptInvitation(call[q].i, call[q].p)
  <2>1. PICK i \in Invitations : i = call[q].i /\ invitation' = [invitation EXCEPT ![i].state = "accepted"]
    BY <1>0, <1>2 DEF AcceptInvitation
  <2>2. /\ invitation'[i].state = "accepted" /\ \A j \in Invitations : invitation'[j].p = invitation[j].p
        /\ \A j \in Invitations : j # i => invitation'[j].state = invitation[j].state
    BY <2>1 DEF TeamInv, TeamTypes, InvitationRows
  <2>3. /\ call[q].p \in account /\ invitation[i].p = call[q].p
        /\ \A j \in Invitations : invitation[j].state = "accepted" => invitation[j].p # call[q].p
        /\ \A r \in Callers : Joining(r) /\ call[r].p = call[q].p => r = q
    BY <1>0, <2>1 DEF JoinInv, JoinersAreNew
  <2>4. OneInvitationEach'
    BY <1>0, <2>2, <2>3 DEF JoinInv, OneInvitationEach
  <2>5. \A r \in Callers : (r # q => call'[r] = call[r]) /\ call'[q].kind # "accept"
    BY <1>0 DEF NoCall
  <2>6. \A r \in Callers : Joining(r)' => r # q /\ Joining(r) /\ call[r].p # call[q].p
    BY <2>3, <2>5 DEF Joining
  <2>7. AcceptersAsInvited'
    <3>1. \A r \in Callers : call'[r].kind = "accept" => call[r].i \in Invitations /\ call'[r] = call[r]
      BY <2>5 DEF TeamInv, RowsFit, Fits
    <3>2. QED BY <2>2, <3>1 DEF JoinInv, AcceptersAsInvited
  <2>8. JoinersAreNew'
    <3>1. ASSUME NEW r \in Callers, Joining(r)'
          PROVE  /\ call'[r].p \in account' /\ invitation'[call'[r].i].p = call'[r].p
                 /\ \A j \in Invitations : invitation'[j].state = "accepted" => invitation'[j].p # call'[r].p
                 /\ \A x \in Callers : Joining(x)' /\ call'[x].p = call'[r].p => x = r
      <4>1. r # q /\ Joining(r) /\ call'[r] = call[r] /\ call[r].p # call[q].p
        BY <2>5, <2>6, <3>1
      <4>2. /\ call[r].p \in account
            /\ \A j \in Invitations : invitation[j].state = "accepted" => invitation[j].p # call[r].p
            /\ \A x \in Callers : Joining(x) /\ call[x].p = call[r].p => x = r
        BY <4>1 DEF JoinInv, JoinersAreNew
      <4>3. \A j \in Invitations : invitation'[j].state = "accepted" => invitation'[j].p # call[r].p
        BY <2>2, <2>3, <4>1, <4>2
      <4>4. \A x \in Callers : Joining(x)' /\ call'[x].p = call'[r].p => x = r
        BY <2>5, <2>6, <4>1, <4>2
      <4>5. invitation'[call'[r].i].p = call'[r].p
        BY <2>7, <3>1 DEF AcceptersAsInvited, Joining
      <4>6. QED BY <1>0, <4>1, <4>2, <4>3, <4>4, <4>5
    <3>2. QED BY <3>1 DEF JoinersAreNew
  <2>9. QED BY <2>4, <2>7, <2>8 DEF JoinInv
<1>3. QED BY <1>1, <1>2 DEF HandleAcceptInvitation

LEMMA InvitationFromJoins == ASSUME TeamInv, JoinInv, NEW q \in Callers, NEW i \in Invitations, InvitationFrom(q, i) PROVE JoinInv'
<1>0. call \in [Callers -> CallRecords] /\ UNCHANGED <<account, invitation>> /\ call[q] = NoCall
  BY DEF TeamInv, TeamTypes, InvitationFrom, MayCall, Quiet
<1>1. /\ call'[q].kind = "accept" /\ call'[q].at = "user" /\ call'[q].p = invitation[i].p /\ call'[q].i = i
      /\ \A r \in Callers : r # q => call'[r] = call[r]
  BY <1>0 DEF InvitationFrom, CallBegins, NoCall
<1>2. \A r \in Callers : Joining(r)' => r # q /\ Joining(r)
  BY <1>1 DEF Joining
<1>3. AcceptersAsInvited' /\ OneInvitationEach'
  BY <1>0, <1>1 DEF JoinInv, AcceptersAsInvited, OneInvitationEach
<1>4. JoinersAreNew'
  BY <1>0, <1>1, <1>2 DEF JoinInv, JoinersAreNew
<1>5. QED BY <1>3, <1>4 DEF JoinInv

LEMMA OtherStepsJoinNobody ==
    ASSUME TeamInv, JoinInv, TeamNext,
           \A q \in Callers : ~AcceptUser(q) /\ ~HandleAcceptInvitation(q) /\ \A i \in Invitations : ~InvitationFrom(q, i)
    PROVE  JoinsAsBefore
<1>0. call \in [Callers -> CallRecords] /\ invitation \in [Invitations -> InvitationRows]
  BY DEF TeamInv, TeamTypes
<1>1. ASSUME NEW q \in Callers, SetupUser(q) \/ CreateTeamRow(q) \/ CreateTeamOwner(q) \/ SetupFinish(q) PROVE JoinsAsBefore
  <2>1. call[q].kind \in {"setup", "create"} /\ invitation' = invitation /\ account \subseteq account'
    BY <1>1 DEF SetupUser, CreateTeamRow, CreateTeamOwner, SetupFinish, CallAt, CreateUser
  <2>2. CallEnds(q) \/ CallGo(q, "team") \/ CallGo(q, "owner") \/ CallGo(q, "finish")
    BY <1>1 DEF SetupUser, CreateTeamRow, CreateTeamOwner, SetupFinish
  <2>3. call'[q].kind \in {"none", "setup", "create"} /\ \A r \in Callers : r # q => call'[r] = call[r]
    <3>1. \A w \in CallPlaces : CallGo(q, w) => call'[q].kind = call[q].kind /\ \A r \in Callers : r # q => call'[r] = call[r]
      BY <1>0 DEF CallGo, CallRecords
    <3>2. CallEnds(q) => call'[q].kind = "none" /\ \A r \in Callers : r # q => call'[r] = call[r]
      BY <1>0 DEF CallEnds, NoCall
    <3>3. QED BY <2>1, <2>2, <3>1, <3>2 DEF CallPlaces
  <2>4. QED BY <2>1, <2>3 DEF JoinsAsBefore, Joining
<1>2. ASSUME NEW q \in Callers, CheckCall(q) \/ HandleAddMember(q) \/ HandleRemoveMember(q) \/ CallCut(q) PROVE JoinsAsBefore
  <2>1. invitation' = invitation /\ account' = account
    BY <1>2 DEF CheckCall, HandleAddMember, HandleRemoveMember, CallCut
  <2>2. CallEnds(q) \/ (CallGo(q, "write") /\ call[q].kind \in {"add", "remove", "invite", "revoke"})
    BY <1>2 DEF CheckCall, HandleAddMember, HandleRemoveMember, CallCut
  <2>3. call'[q].kind # "accept" /\ \A r \in Callers : r # q => call'[r] = call[r]
    <3>1. CallGo(q, "write") => call'[q].kind = call[q].kind /\ \A r \in Callers : r # q => call'[r] = call[r]
      BY <1>0 DEF CallGo, CallRecords
    <3>2. CallEnds(q) => call'[q].kind = "none" /\ \A r \in Callers : r # q => call'[r] = call[r]
      BY <1>0 DEF CallEnds, NoCall
    <3>3. QED BY <2>2, <3>1, <3>2
  <2>4. QED BY <2>1, <2>3 DEF JoinsAsBefore, Joining
<1>3. ASSUME NEW q \in Callers, HandleInvite(q) \/ HandleRevokeInvitation(q) PROVE JoinsAsBefore
  <2>1. account' = account /\ CallEnds(q)
    BY <1>3 DEF HandleInvite, HandleRevokeInvitation
  <2>2. call'[q].kind # "accept" /\ \A r \in Callers : r # q => call'[r] = call[r]
    BY <1>0, <2>1 DEF CallEnds, NoCall
  <2>3. CASE HandleRevokeInvitation(q)
    <3>1. \A j \in Invitations : invitation'[j].p = invitation[j].p /\ (invitation'[j].state = "accepted" => invitation[j].state = "accepted")
      <4>1. PICK i : invitation' = [invitation EXCEPT ![i].state = "gone"]
        BY <2>3 DEF HandleRevokeInvitation, DeleteInvitation
      <4>2. QED BY <1>0, <4>1, TeamFacts DEF InvitationRows
    <3>2. QED BY <2>1, <2>2, <3>1 DEF JoinsAsBefore, Joining
  <2>4. CASE HandleInvite(q)
    <3>1. PICK i \in Invitations : invitation[i].state = "none" /\ CreateInvitation(i, call[q].t, call[q].p, call[q].role)
      BY <2>4 DEF HandleInvite
    <3>2. invitation'[i].state = "open"
      BY <3>1 DEF CreateInvitation
    <3>3. \A j \in Invitations \ {i} : invitation'[j].p = invitation[j].p /\ (invitation'[j].state = "accepted" => invitation[j].state = "accepted")
      <4>1. \A j \in Invitations \ {i} : \/ invitation'[j] = invitation[j]
                                         \/ invitation'[j] = [invitation[j] EXCEPT !.state = "gone"]
        BY <3>1 DEF CreateInvitation
      <4>2. QED BY <1>0, <4>1 DEF InvitationRows
    <3>4. QED BY <2>1, <2>2, <3>1, <3>2, <3>3 DEF JoinsAsBefore, Joining
  <2>5. QED BY <1>3, <2>3, <2>4
<1>4. ASSUME NEW q \in Callers, NEW p \in People, NEW t \in TeamIds, AskCreateTeam(q, p, t) PROVE JoinsAsBefore
  <2>1. account' = account /\ invitation' = invitation /\ call'[q].kind = "create" /\ \A r \in Callers : r # q => call'[r] = call[r]
    BY <1>0, <1>4 DEF AskCreateTeam, CallBegins, NoCall
  <2>2. QED BY <2>1 DEF JoinsAsBefore, Joining
<1>5. ASSUME NEW q \in Callers, NEW p \in People, NEW t \in TeamIds, NEW right \in BOOLEAN, SetupCheck(q, p, t, right) PROVE JoinsAsBefore
  <2>1. account' = account /\ invitation' = invitation /\ (call' = call \/ (call'[q].kind = "setup" /\ \A r \in Callers : r # q => call'[r] = call[r]))
    BY <1>0, <1>5 DEF SetupCheck, CallBegins, NoCall
  <2>2. QED BY <2>1 DEF JoinsAsBefore, Joining
<1>6. ASSUME NEW q \in Callers, NEW p \in People, NEW t \in TeamIds, NEW kind \in TeamKinds, AuthorizeTeam(q, kind, p, t) PROVE JoinsAsBefore
  <2>1. account' = account /\ invitation' = invitation /\ kind \in {"add", "remove", "invite", "revoke"}
    BY <1>6 DEF AuthorizeTeam
  <2>2. call'[q].kind = kind /\ \A r \in Callers : r # q => call'[r] = call[r]
    BY <1>0, <1>6 DEF AuthorizeTeam, CallBegins
  <2>3. QED BY <2>1, <2>2 DEF JoinsAsBefore, Joining
<1>7. ASSUME NEW i \in Invitations, InvitationExpires(i) PROVE JoinsAsBefore
  <2>1. account' = account /\ call' = call
    BY <1>7 DEF InvitationExpires
  <2>2. \A j \in Invitations : invitation'[j].p = invitation[j].p /\ (invitation'[j].state = "accepted" => invitation[j].state = "accepted")
    BY <1>0, <1>7 DEF InvitationExpires, InvitationRows
  <2>3. QED BY <2>1, <2>2 DEF JoinsAsBefore, Joining
<1>8. ASSUME PanelRestarts PROVE JoinsAsBefore
  BY <1>8 DEF PanelRestarts, NoCall, JoinsAsBefore, Joining
<1>9. QED BY <1>1, <1>2, <1>3, <1>4, <1>5, <1>6, <1>7, <1>8 DEF TeamNext

\* Whatever overlaps, is cut short or restarted: an address comes in through one
\* invitation, and with an account (handleAcceptInvitation makes it on the way).
THEOREM OneInvitationEachAlways == TeamSpec => []OneInvitationEach
<1>1. TeamInit => JoinInv
  BY DEF TeamInit, JoinInv, OneInvitationEach, JoinersAreNew, AcceptersAsInvited, Joining, NoInvitation, NoCall
<1>2. TeamInv /\ JoinInv /\ [TeamNext]_teamVars => JoinInv'
  <2> SUFFICES ASSUME TeamInv, JoinInv, [TeamNext]_teamVars PROVE JoinInv'
    OBVIOUS
  <2>1. CASE UNCHANGED teamVars
    BY <2>1 DEF teamVars, JoinInv, OneInvitationEach, JoinersAreNew, AcceptersAsInvited, Joining
  <2>2. CASE TeamNext
    BY <2>2, AsBeforeKeeps, AcceptUserJoins, AcceptingJoins, InvitationFromJoins, OtherStepsJoinNobody
  <2>3. QED BY <2>1, <2>2
<1>3. JoinInv => OneInvitationEach
  BY DEF JoinInv
<1>4. QED BY <1>1, <1>2, <1>3, TeamInvariant, PTL DEF TeamSpec
-----------------------------------------------------------------------------
(* One-time codes.                                                         *)

AuthPlaces == {"off", "read", "wait", "hash", "fail", "factor", "rehash", "done", "write", "issue", "list", "delete",
               "codes", "verify"}
UserRows == [pw : Nat, old : BOOLEAN, secret : Nat, on : BOOLEAN, disabled : BOOLEAN]
ReqRecords == [kind : AuthKinds \cup {"none"}, at : AuthPlaces, copy : UserRows, sid : Nat, pw : Nat,
               code : Codes \cup {<<"none">>, <<"wrong">>}, list : SUBSET Nat, late : Nat]
MadeRecords == [pw : Nat, secret : Nat, asked : Nat, lost : BOOLEAN, cut : Nat]

AuthTypes ==
    /\ user \in UserRows /\ last \in Nat /\ codes \subseteq RecoveryCodes /\ clock \in Nat
    /\ areq \in [Reqs -> ReqRecords] /\ admitted \in [Codes -> Nat]
    /\ made \in MadeRecords

Written(k) == <<"recovery", k>>

\* Codes made and not stored yet.
Pending(r) == IF r.at = "codes" /\ r.kind = "startTOTP" THEN r.list ELSE {}

\* A code of the authenticator that was used is not above the counter.
CounterIsAbove == \A c \in TOTPCodes : admitted[c] <= 1 /\ (admitted[c] = 1 => c[3] <= last)
\* A code written down that was used is not among the unused ones.
UsedIsGone == \A c \in RecoveryCodes : admitted[c] <= 1 /\ (c \in codes => admitted[c] = 0)
\* Nobody has a code of a set that has not been made, or not been stored.
NotYet(k) == Written(k) \notin codes /\ admitted[Written(k)] = 0
FreshIsFresh == \A k \in 1..MaxSecrets : k > made.secret => NotYet(k)
PendingIsFresh == \A q \in Reqs : \A k \in Pending(areq[q]) : k \in 1..MaxSecrets /\ k <= made.secret /\ NotYet(k)
PendingIsOnes == \A q, r \in Reqs : q # r => Pending(areq[q]) \cap Pending(areq[r]) = {}

CodeInv == AuthTypes /\ CounterIsAbove /\ UsedIsGone /\ FreshIsFresh /\ PendingIsFresh /\ PendingIsOnes

LEMMA AuthFacts ==
    /\ MaxSecrets \in Nat /\ MaxSecrets > 0 /\ MaxClock \in Nat /\ MaxSessions \in Nat
    /\ Idle \in ReqRecords /\ Pending(Idle) = {}
<1>1. Idle \in ReqRecords
  BY DEF Idle, NoUserRow, UserRows, ReqRecords, AuthPlaces
<1>2. Pending(Idle) = {}
  BY DEF Pending, Idle
<1>3. QED BY <1>1, <1>2, AuthMixesAssumption

LEMMA CodesAreTwoKinds ==
    /\ TOTPCodes \cap RecoveryCodes = {}
    /\ \A c \in TOTPCodes : c[3] \in Nat
    /\ \A c \in RecoveryCodes : \E k \in 1..MaxSecrets : c = Written(k)
    /\ \A k \in 1..MaxSecrets : Written(k) \in RecoveryCodes
    /\ \A k, j \in 1..MaxSecrets : Written(k) = Written(j) => k = j
<1>1. \A c \in TOTPCodes : c[1] = "totp" /\ c[3] \in Nat
  BY AuthFacts DEF TOTPCodes
<1>2. \A c \in RecoveryCodes : c[1] = "recovery"
  BY DEF RecoveryCodes
<1>3. TOTPCodes \cap RecoveryCodes = {}
  BY <1>1, <1>2
<1>4. \A k, j \in 1..MaxSecrets : Written(k) = Written(j) => k = j
  BY DEF Written
<1>5. QED BY <1>1, <1>3, <1>4 DEF RecoveryCodes, Written

LEMMA CodesStart == AuthInit => CodeInv
<1> SUFFICES ASSUME AuthInit PROVE CodeInv
  OBVIOUS
<1>0. /\ last = 0 /\ clock = 1 /\ areq = [q \in Reqs |-> Idle] /\ admitted = [c \in Codes |-> 0]
      /\ codes = IF amix.secondFactor THEN {<<"recovery", 1>>} ELSE {}
  BY DEF AuthInit
<1>1. user \in UserRows /\ user.secret = IF amix.secondFactor THEN 1 ELSE 0
  <2>1. PICK old \in BOOLEAN : user = [NoUserRow EXCEPT !.pw = 1, !.old = old,
                !.secret = IF amix.secondFactor THEN 1 ELSE 0, !.on = amix.secondFactor]
    BY DEF AuthInit
  <2>2. amix.secondFactor \in BOOLEAN
    BY AuthMixesAssumption DEF AuthInit
  <2>3. QED BY <2>1, <2>2 DEF NoUserRow, UserRows
<1>2. made \in MadeRecords /\ made.secret = user.secret
  BY <1>1 DEF AuthInit, UserRows, MadeRecords
<1>3. codes \subseteq RecoveryCodes
  BY <1>0, CodesAreTwoKinds, AuthFacts DEF Written
<1>4. AuthTypes
  BY <1>0, <1>1, <1>2, <1>3, AuthFacts DEF AuthTypes
<1>5. \A c \in Codes : admitted[c] = 0
  BY <1>0
<1>6. CounterIsAbove /\ UsedIsGone
  BY <1>5 DEF CounterIsAbove, UsedIsGone, Codes
<1>7. FreshIsFresh
  <2>1. SUFFICES ASSUME NEW k \in 1..MaxSecrets, k > made.secret PROVE NotYet(k)
    BY DEF FreshIsFresh
  <2>2. admitted[Written(k)] = 0
    BY <1>5, CodesAreTwoKinds DEF Codes
  <2>3. codes # {} => k # 1 /\ codes = {Written(1)} /\ 1 \in 1..MaxSecrets
    BY <1>0, <1>1, <1>2, <2>1, AuthFacts DEF Written
  <2>4. QED BY <2>2, <2>3, CodesAreTwoKinds DEF NotYet
<1>8. PendingIsFresh /\ PendingIsOnes
  BY <1>0, AuthFacts DEF PendingIsFresh, PendingIsOnes
<1>9. QED BY <1>4, <1>6, <1>7, <1>8 DEF CodeInv

\* The codes are as they were and no new set is on its way.
LEMMA CodesStay ==
    ASSUME CodeInv, AuthTypes', UNCHANGED <<codes, admitted>>, last <= last', made'.secret = made.secret,
           \A q \in Reqs : Pending(areq'[q]) \subseteq Pending(areq[q])
    PROVE  CodeInv'
<1>1. CounterIsAbove'
  <2>1. \A c \in TOTPCodes : c[3] \in Nat
    BY CodesAreTwoKinds
  <2>2. QED BY <2>1 DEF CodeInv, AuthTypes, CounterIsAbove
<1>2. UsedIsGone'
  BY DEF CodeInv, UsedIsGone
<1>3. FreshIsFresh' /\ PendingIsFresh'
  BY DEF CodeInv, FreshIsFresh, PendingIsFresh, NotYet
<1>4. PendingIsOnes'
  BY DEF CodeInv, PendingIsOnes
<1>5. QED BY <1>1, <1>2, <1>3, <1>4 DEF CodeInv

\* A request moves on: to a place where no codes are stored.
LEMMA RequestMoves ==
    ASSUME CodeInv, NEW q \in Reqs, NEW r \in ReqRecords, areq' = [areq EXCEPT ![q] = r], Pending(r) = {},
           UNCHANGED <<codes, admitted, clock>>, last' \in Nat, last <= last', user' \in UserRows,
           made' \in MadeRecords, made'.secret = made.secret
    PROVE  CodeInv'
<1>1. areq' \in [Reqs -> ReqRecords] /\ areq'[q] = r /\ \A p \in Reqs : p # q => areq'[p] = areq[p]
  BY DEF CodeInv, AuthTypes
<1>2. AuthTypes'
  BY <1>1 DEF CodeInv, AuthTypes
<1>3. \A p \in Reqs : Pending(areq'[p]) \subseteq Pending(areq[p])
  BY <1>1
<1>4. QED BY <1>2, <1>3, CodesStay

\* The types as they are before a step.
LEMMA TypesNow ==
    ASSUME CodeInv
    PROVE  /\ user \in UserRows /\ last \in Nat /\ last <= last /\ \A q \in Reqs : areq[q] \in ReqRecords
           /\ made \in MadeRecords
BY DEF CodeInv, AuthTypes

LEMMA RequestGoes ==
    ASSUME CodeInv, NEW q \in Reqs, NEW where \in AuthPlaces, AuthGo(q, where), where # "codes" \/ areq[q].kind # "startTOTP",
           UNCHANGED <<codes, admitted, clock>>, last' \in Nat, last <= last', user' \in UserRows,
           made' \in MadeRecords, made'.secret = made.secret
    PROVE  CodeInv'
<1> DEFINE r == [areq[q] EXCEPT !.at = where]
<1>1. r \in ReqRecords /\ r.at = where /\ r.kind = areq[q].kind
  BY TypesNow DEF ReqRecords
<1>2. areq' = [areq EXCEPT ![q] = r]
  BY DEF AuthGo
<1> HIDE DEF r
<1>3. Pending(r) = {}
  BY <1>1 DEF Pending
<1>4. QED BY <1>1, <1>2, <1>3, RequestMoves

LEMMA RequestEnds ==
    ASSUME CodeInv, NEW q \in Reqs, AuthReply(q),
           UNCHANGED <<codes, admitted, clock>>, last' \in Nat, last <= last', user' \in UserRows,
           made' \in MadeRecords, made'.secret = made.secret
    PROVE  CodeInv'
BY RequestMoves, AuthFacts DEF AuthReply

LEMMA AskingCounts ==
    ASSUME CodeInv, NEW q \in Reqs, NEW k, MayAsk(q, k)
    PROVE  /\ made' \in MadeRecords /\ made'.secret = made.secret
           /\ k \in amix.kinds
BY TypesNow DEF MayAsk, MadeRecords

LEMMA SavedCopy ==
    ASSUME CodeInv, NEW u \in UserRows, SaveCopy(u)
    PROVE  /\ user' \in UserRows /\ made'.secret = made.secret
           /\ made' \in MadeRecords
BY TypesNow DEF SaveCopy, UpdateUser, UserRows, MadeRecords

-----------------------------------------------------------------------------
(* The steps that only move a request on.                                  *)

LEMMA LoginKeepsCodes == ASSUME CodeInv, NEW q \in Reqs, Login(q) PROVE CodeInv'
<1>1. PICK pw \in 1..made.pw, c \in Codes \cup {<<"none">>, <<"wrong">>} :
        areq' = [areq EXCEPT ![q] = [Idle EXCEPT !.kind = "login", !.at = "read", !.pw = pw, !.code = c]]
  BY DEF Login
<1> DEFINE r == [Idle EXCEPT !.kind = "login", !.at = "read", !.pw = pw, !.code = c]
<1>2. pw \in Nat
  BY TypesNow
<1>3. r \in ReqRecords /\ r.at = "read"
  BY <1>2 DEF Idle, NoUserRow, UserRows, ReqRecords, AuthPlaces, AuthKinds
<1>4. areq' = [areq EXCEPT ![q] = r]
  BY <1>1
<1> HIDE DEF r
<1>5. Pending(r) = {}
  BY <1>3 DEF Pending
<1>6. /\ made' \in MadeRecords /\ made'.secret = made.secret
      /\ UNCHANGED <<codes, admitted, clock, last, user>>
  BY AskingCounts DEF Login
<1>7. QED BY <1>3, <1>4, <1>5, <1>6, TypesNow, RequestMoves

LEMMA LoginReadKeepsCodes == ASSUME CodeInv, NEW q \in Reqs, LoginRead(q) PROVE CodeInv'
<1> DEFINE r == [areq[q] EXCEPT !.at = "wait", !.copy = user]
<1>1. r \in ReqRecords /\ r.at = "wait"
  BY TypesNow DEF ReqRecords, AuthPlaces
<1>2. areq' = [areq EXCEPT ![q] = r]
  BY DEF LoginRead
<1> HIDE DEF r
<1>3. Pending(r) = {}
  BY <1>1 DEF Pending
<1>4. UNCHANGED <<codes, admitted, clock, last, user, made>>
  BY DEF LoginRead
<1>5. QED BY <1>1, <1>2, <1>3, <1>4, TypesNow, RequestMoves

LEMMA EnterHashKeepsCodes == ASSUME CodeInv, NEW q \in Reqs, EnterHash(q) PROVE CodeInv'
<1>1. AuthGo(q, "hash") /\ UNCHANGED <<codes, admitted, clock, last, user, made>> /\ "hash" \in AuthPlaces
  BY DEF EnterHash, AuthPlaces
<1>2. QED BY <1>1, TypesNow, RequestGoes

LEMMA VerifyKeepsCodes == ASSUME CodeInv, NEW q \in Reqs, Verify(q) PROVE CodeInv'
<1>1. UNCHANGED <<codes, admitted, clock, last, user, made>> /\ (AuthReply(q) \/ AuthGo(q, AfterPassword(q)))
  BY DEF Verify
<1>2. AfterPassword(q) \in AuthPlaces /\ AfterPassword(q) # "codes"
  BY DEF AfterPassword, AuthPlaces
<1>3. QED BY <1>1, <1>2, TypesNow, RequestGoes, RequestEnds

LEMMA RecordLoginFailureKeepsCodes == ASSUME CodeInv, NEW q \in Reqs, RecordLoginFailure(q) PROVE CodeInv'
<1>1. AuthReply(q) /\ UNCHANGED <<codes, admitted, clock, last, user, made>>
  BY DEF RecordLoginFailure
<1>2. QED BY <1>1, TypesNow, RequestEnds

LEMMA RehashKeepsCodes == ASSUME CodeInv, NEW q \in Reqs, Rehash(q) PROVE CodeInv'
<1>1. AuthGo(q, "issue") /\ UNCHANGED <<codes, admitted, clock, last>> /\ "issue" \in AuthPlaces
  BY DEF Rehash, AuthPlaces
<1>2. areq[q].pw \in Nat
  BY TypesNow DEF ReqRecords
<1>3. user' \in UserRows /\ made' \in MadeRecords /\ made'.secret = made.secret
  BY <1>2, TypesNow DEF Rehash, UpdatePasswordHash, UserRows, MadeRecords
<1>4. QED BY <1>1, <1>3, TypesNow, RequestGoes

LEMMA IssueSessionKeepsCodes == ASSUME CodeInv, NEW q \in Reqs, IssueSession(q) PROVE CodeInv'
<1>1. AuthReply(q) /\ UNCHANGED <<codes, admitted, clock, last, user, made>>
  BY DEF IssueSession
<1>2. QED BY <1>1, TypesNow, RequestEnds

\* A request begins.
LEMMA RequestBegins ==
    ASSUME CodeInv, NEW q \in Reqs, NEW k, MayAsk(q, k), UNCHANGED <<codes, admitted, clock, last, user>>,
           NEW r \in ReqRecords, r.at # "codes", areq' = [areq EXCEPT ![q] = r]
    PROVE  CodeInv'
<1>1. Pending(r) = {}
  BY DEF Pending
<1>2. QED BY <1>1, TypesNow, AskingCounts, RequestMoves

LEMMA SSOCallbackKeepsCodes == ASSUME CodeInv, NEW q \in Reqs, SSOCallback(q) PROVE CodeInv'
<1> DEFINE r == [Idle EXCEPT !.kind = "sso", !.at = "issue", !.copy = user]
<1>1. r \in ReqRecords /\ r.at = "issue"
  BY TypesNow DEF Idle, ReqRecords, AuthPlaces, AuthKinds
<1>2. areq' = [areq EXCEPT ![q] = r] /\ MayAsk(q, "sso") /\ UNCHANGED <<codes, admitted, clock, last, user>>
  BY DEF SSOCallback
<1> HIDE DEF r
<1>3. QED BY <1>1, <1>2, RequestBegins

LEMMA ResetReadKeepsCodes == ASSUME CodeInv, NEW q \in Reqs, ResetRead(q) PROVE CodeInv'
<1> DEFINE r == [Idle EXCEPT !.kind = "reset", !.at = "write", !.copy = user]
<1>1. r \in ReqRecords /\ r.at = "write"
  BY TypesNow DEF Idle, ReqRecords, AuthPlaces, AuthKinds
<1>2. areq' = [areq EXCEPT ![q] = r] /\ MayAsk(q, "reset") /\ UNCHANGED <<codes, admitted, clock, last, user>>
  BY DEF ResetRead
<1> HIDE DEF r
<1>3. QED BY <1>1, <1>2, RequestBegins

LEMMA FirstStepIs == \A kind \in AuthKinds : FirstStep(kind) \in AuthPlaces \ {"codes"}
BY DEF FirstStep, AuthPlaces

LEMMA AuthenticateKeepsCodes ==
    ASSUME CodeInv, NEW q \in Reqs, NEW sid \in Sids, NEW kind \in AuthKinds, Authenticate(q, sid, kind) PROVE CodeInv'
<1>1. PICK pw \in (IF kind \in {"reauth", "password"} THEN 1..made.pw ELSE {0}),
           c \in (IF kind \in {"reauth", "confirmTOTP"} THEN TOTPCodes ELSE {<<"none">>}) :
        areq' = [areq EXCEPT ![q] = [Idle EXCEPT !.kind = kind, !.at = FirstStep(kind), !.copy = user, !.sid = sid, !.pw = pw, !.code = c]]
  BY DEF Authenticate
<1> DEFINE r == [Idle EXCEPT !.kind = kind, !.at = FirstStep(kind), !.copy = user, !.sid = sid, !.pw = pw, !.code = c]
<1>2. pw \in Nat /\ sid \in Nat
  BY TypesNow, AuthFacts DEF Sids
<1>3. c \in Codes \cup {<<"none">>, <<"wrong">>}
  BY DEF Codes
<1>4. MayAsk(q, kind) /\ UNCHANGED <<codes, admitted, clock, last, user>>
  BY DEF Authenticate
<1>5. r \in ReqRecords /\ r.at # "codes"
  BY <1>2, <1>3, TypesNow, FirstStepIs DEF Idle, ReqRecords
<1>6. areq' = [areq EXCEPT ![q] = r]
  BY <1>1
<1> HIDE DEF r
<1>7. QED BY <1>4, <1>5, <1>6, RequestBegins

LEMMA AuthenticateTokenKeepsCodes ==
    ASSUME CodeInv, NEW q \in Reqs, NEW t, NEW kind \in AuthKinds, AuthenticateToken(q, t, kind) PROVE CodeInv'
<1>1. PICK pw \in (IF kind = "password" THEN 1..made.pw ELSE {0}) :
        areq' = [areq EXCEPT ![q] = [Idle EXCEPT !.kind = kind, !.at = FirstStep(kind), !.copy = user, !.pw = pw]]
  BY DEF AuthenticateToken
<1> DEFINE r == [Idle EXCEPT !.kind = kind, !.at = FirstStep(kind), !.copy = user, !.pw = pw]
<1>2. pw \in Nat
  BY TypesNow
<1>3. MayAsk(q, kind) /\ UNCHANGED <<codes, admitted, clock, last, user>>
  BY DEF AuthenticateToken
<1>4. r \in ReqRecords /\ r.at # "codes"
  BY <1>2, TypesNow, FirstStepIs DEF Idle, ReqRecords
<1>5. areq' = [areq EXCEPT ![q] = r]
  BY <1>1
<1> HIDE DEF r
<1>6. QED BY <1>3, <1>4, <1>5, RequestBegins

LEMMA ShortStepsKeepCodes ==
    ASSUME CodeInv, NEW q \in Reqs,
           MarkReauthenticated(q) \/ DeleteOthers(q) \/ DeleteUserSessions(q) \/ Logout(q) \/ CreateAPIToken(q) \/ Disconnect(q)
    PROVE  CodeInv'
<1>1. AuthReply(q) /\ UNCHANGED <<codes, admitted, clock, last, user>>
  BY DEF MarkReauthenticated, DeleteOthers, DeleteUserSessions, Logout, CreateAPIToken, Disconnect
<1>2. made' \in MadeRecords /\ made'.secret = made.secret
  <2>1. Newer(made.cut, areq[q].copy.pw) \in Nat
    BY TypesNow DEF MadeRecords, ReqRecords, UserRows, Newer
  <2>2. made' = made \/ made' = [made EXCEPT !.cut = Newer(made.cut, areq[q].copy.pw)]
    BY DEF MarkReauthenticated, DeleteOthers, DeleteUserSessions, Logout, CreateAPIToken, Disconnect
  <2>3. QED BY <2>1, <2>2, TypesNow DEF MadeRecords
<1>3. QED BY <1>1, <1>2, TypesNow, RequestEnds

LEMMA ListsKeepCodes ==
    ASSUME CodeInv, NEW q \in Reqs, ListOthers(q) \/ RevokeOne(q) PROVE CodeInv'
<1>1. PICK L \in SUBSET Nat : areq' = [areq EXCEPT ![q].at = "delete", ![q].list = L]
  <2>1. Sids \subseteq Nat
    BY AuthFacts DEF Sids
  <2>2. ListSessions \subseteq Sids
    BY DEF ListSessions
  <2>3. CASE ListOthers(q)
    <3> DEFINE L == ListSessions \ {areq[q].sid}
    <3>1. L \in SUBSET Nat
      BY <2>1, <2>2
    <3>2. areq' = [areq EXCEPT ![q].at = "delete", ![q].list = L]
      BY <2>3 DEF ListOthers
    <3> HIDE DEF L
    <3>3. QED BY <3>1, <3>2
  <2>4. CASE RevokeOne(q)
    <3>1. PICK s \in ListSessions : areq' = [areq EXCEPT ![q].at = "delete", ![q].list = {s}]
      BY <2>4 DEF RevokeOne
    <3>2. {s} \in SUBSET Nat
      BY <2>1, <2>2
    <3>3. QED BY <3>1, <3>2
  <2>5. QED BY <2>3, <2>4
<1> DEFINE r == [areq[q] EXCEPT !.at = "delete", !.list = L]
<1>2. r \in ReqRecords /\ r.at = "delete"
  BY TypesNow DEF ReqRecords, AuthPlaces
<1>3. areq' = [areq EXCEPT ![q] = r]
  BY <1>1
<1> HIDE DEF r
<1>4. Pending(r) = {}
  BY <1>2 DEF Pending
<1>5. UNCHANGED <<codes, admitted, clock, last, user, made>>
  BY DEF ListOthers, RevokeOne
<1>6. QED BY <1>2, <1>3, <1>4, <1>5, TypesNow, RequestMoves

LEMMA DeleteOneKeepsCodes ==
    ASSUME CodeInv, NEW q \in Reqs, NEW s \in Sids, DeleteOne(q, s) PROVE CodeInv'
<1>1. UNCHANGED <<codes, admitted, clock, last, user, made>> /\ areq[q].at = "delete"
  BY DEF DeleteOne, AuthAt
<1>2. CASE areq' = [areq EXCEPT ![q].list = @ \ {s}]
  <2> DEFINE r == [areq[q] EXCEPT !.list = areq[q].list \ {s}]
  <2>1. r \in ReqRecords /\ r.at = "delete"
    BY <1>1, TypesNow DEF ReqRecords
  <2>2. areq' = [areq EXCEPT ![q] = r]
    BY <1>2
  <2> HIDE DEF r
  <2>3. Pending(r) = {}
    BY <2>1 DEF Pending
  <2>4. QED BY <1>1, <2>1, <2>2, <2>3, TypesNow, RequestMoves
<1>3. CASE AuthReply(q)
  BY <1>1, <1>3, TypesNow, RequestEnds
<1>4. QED BY <1>2, <1>3 DEF DeleteOne

-----------------------------------------------------------------------------
(* The steps that write the row, the counter or the codes.                 *)

LEMMA RowWritesKeepCodes ==
    ASSUME CodeInv, NEW q \in Reqs, UpdateMe(q) \/ TurnOnTOTP(q) PROVE CodeInv'
<1>1. areq[q].copy \in UserRows /\ [areq[q].copy EXCEPT !.on = TRUE] \in UserRows
  BY TypesNow DEF ReqRecords, UserRows
<1>2. /\ AuthReply(q) /\ UNCHANGED <<codes, admitted, clock, last>>
      /\ SaveCopy(areq[q].copy) \/ SaveCopy([areq[q].copy EXCEPT !.on = TRUE])
  BY DEF UpdateMe, TurnOnTOTP
<1>3. user' \in UserRows /\ made'.secret = made.secret /\ made' \in MadeRecords
  BY <1>1, <1>2, SavedCopy
<1>4. QED BY <1>2, <1>3, TypesNow, RequestEnds

LEMMA DisableTOTPKeepsCodes == ASSUME CodeInv, NEW q \in Reqs, DisableTOTP(q) PROVE CodeInv'
<1>1. [areq[q].copy EXCEPT !.on = FALSE, !.secret = 0] \in UserRows
  BY TypesNow DEF ReqRecords, UserRows
<1>2. /\ AuthGo(q, "codes") /\ UNCHANGED <<codes, admitted, clock, last>> /\ areq[q].kind # "startTOTP" /\ "codes" \in AuthPlaces
      /\ SaveCopy([areq[q].copy EXCEPT !.on = FALSE, !.secret = 0])
  BY DEF DisableTOTP, AuthPlaces
<1>3. user' \in UserRows /\ made'.secret = made.secret /\ made' \in MadeRecords
  BY <1>1, <1>2, SavedCopy
<1>4. QED BY <1>2, <1>3, TypesNow, RequestGoes

\* A password changes and whatever else is in progress is marked late.
LEMMA PasswordsKeepCodes ==
    ASSUME CodeInv, NEW q \in Reqs, ChangePassword(q) \/ ResetPassword(q) PROVE CodeInv'
<1>1. /\ UNCHANGED <<codes, admitted, clock, last>> /\ made' = [made EXCEPT !.pw = @ + 1]
      /\ user' = NewPassword(q) /\ MarkLate(q, NewPassword(q))
  BY DEF ChangePassword, ResetPassword, UpdateUser
<1>2. made' \in MadeRecords /\ made'.secret = made.secret /\ made.pw \in Nat
  BY <1>1, TypesNow DEF MadeRecords
<1>3. NewPassword(q) \in UserRows /\ NewPassword(q).pw \in Nat
  <2>1. areq[q].copy \in UserRows /\ made.pw + 1 \in Nat
    BY <1>2, TypesNow DEF ReqRecords
  <2>2. QED BY <2>1 DEF UserRows, NewPassword
<1>4. ASSUME NEW p \in Reqs PROVE areq'[p] \in ReqRecords /\ Pending(areq'[p]) \subseteq Pending(areq[p])
  <2>0. areq[p] \in ReqRecords
    BY TypesNow
  <2>1. CASE p = q
    <3> DEFINE r == [areq[p] EXCEPT !.at = "list", !.copy = NewPassword(q)]
    <3>1. r \in ReqRecords /\ r.at = "list"
      BY <1>3, <2>0 DEF ReqRecords, AuthPlaces
    <3>2. areq'[p] = r
      BY <1>1, <2>1 DEF MarkLate
    <3> HIDE DEF r
    <3>3. QED BY <3>1, <3>2 DEF Pending
  <2>2. CASE p # q /\ Free1(p)
    BY <1>1, <2>0, <2>2 DEF MarkLate
  <2>3. CASE p # q /\ ~Free1(p)
    <3> DEFINE r == [areq[p] EXCEPT !.late = NewPassword(q).pw]
    <3>1. r \in ReqRecords /\ r.at = areq[p].at /\ r.kind = areq[p].kind /\ r.list = areq[p].list
      BY <1>3, <2>0 DEF ReqRecords
    <3>2. areq'[p] = r
      BY <1>1, <2>3 DEF MarkLate
    <3> HIDE DEF r
    <3>3. QED BY <3>1, <3>2 DEF Pending
  <2>4. QED BY <2>1, <2>2, <2>3
<1>5. areq' \in [Reqs -> ReqRecords]
  <2>1. areq' = [p \in Reqs |-> areq'[p]]
    BY <1>1 DEF MarkLate
  <2>2. QED BY <1>4, <2>1
<1>6. AuthTypes'
  BY <1>1, <1>2, <1>3, <1>5 DEF CodeInv, AuthTypes
<1>7. QED BY <1>1, <1>2, <1>4, <1>6, TypesNow, CodesStay

\* The counter only goes up.
LEMMA CounterGoesUp ==
    ASSUME CodeInv, NEW n \in Nat, SpendTOTPCounter(n) PROVE last' \in Nat /\ last <= last' /\ (Spendable(n) => last' = n)
BY TypesNow DEF SpendTOTPCounter, Spendable

LEMMA ConfirmTOTPKeepsCodes == ASSUME CodeInv, NEW q \in Reqs, ConfirmTOTP(q) PROVE CodeInv'
<1>1. UNCHANGED <<codes, admitted, clock, user, made>>
  BY DEF ConfirmTOTP
<1>2. CASE VerifyTOTP(areq[q].copy.secret, areq[q].code) /\ SpendTOTPCounter(areq[q].code[3]) /\ AuthGo(q, "write")
  <2>1. areq[q].code[3] \in Nat
    BY <1>2, CodesAreTwoKinds DEF VerifyTOTP
  <2>2. last' \in Nat /\ last <= last'
    BY <1>2, <2>1, CounterGoesUp
  <2>3. QED BY <1>1, <1>2, <2>2, TypesNow, RequestGoes DEF AuthPlaces
<1>3. CASE UNCHANGED last /\ AuthReply(q)
  BY <1>1, <1>3, TypesNow, RequestEnds
<1>4. QED BY <1>2, <1>3 DEF ConfirmTOTP

\* A code is spent: the counter passes it, or it leaves the unused ones.
LEMMA SpendSecondFactorKeepsCodes == ASSUME CodeInv, NEW q \in Reqs, SpendSecondFactor(q) PROVE CodeInv'
<1>1. PICK c \in Codes \cup {<<"none">>, <<"wrong">>} : c = areq[q].code
  BY TypesNow DEF ReqRecords
<1> DEFINE totp == VerifyTOTP(areq[q].copy.secret, c)
           good == IF totp THEN Spendable(c[3]) ELSE c \in codes
           to == IF ~good THEN "fail" ELSE IF areq[q].kind = "login" THEN "rehash" ELSE "done"
<1>2. /\ IF totp THEN SpendTOTPCounter(c[3]) ELSE UNCHANGED last
      /\ codes' = IF totp THEN codes ELSE codes \ {c}
      /\ admitted' = IF good THEN [admitted EXCEPT ![c] = @ + 1] ELSE admitted
      /\ AuthGo(q, to) /\ UNCHANGED <<user, clock, made>>
  BY <1>1 DEF SpendSecondFactor
<1>3. totp => c \in TOTPCodes /\ c[3] \in Nat
  BY CodesAreTwoKinds DEF VerifyTOTP
<1>4. to \in AuthPlaces /\ to # "codes"
  BY DEF AuthPlaces
<1> HIDE DEF totp, to
<1>5. last' \in Nat /\ last <= last' /\ (totp /\ Spendable(c[3]) => last' = c[3] /\ last < c[3])
  BY <1>2, <1>3, TypesNow, CounterGoesUp DEF Spendable
<1>6. codes \subseteq RecoveryCodes /\ admitted \in [Codes -> Nat] /\ codes' \subseteq codes
  BY <1>2 DEF CodeInv, AuthTypes
<1>7. PICK r \in ReqRecords : areq' = [areq EXCEPT ![q] = r] /\ r.at = to
  <2> DEFINE r == [areq[q] EXCEPT !.at = to]
  <2>1. r \in ReqRecords /\ r.at = to
    BY <1>4, TypesNow DEF ReqRecords
  <2>2. areq' = [areq EXCEPT ![q] = r]
    BY <1>2 DEF AuthGo
  <2> HIDE DEF r
  <2>3. QED BY <2>1, <2>2
<1>8. areq' \in [Reqs -> ReqRecords] /\ (\A p \in Reqs : Pending(areq'[p]) \subseteq Pending(areq[p]))
  <2>1. Pending(r) = {}
    BY <1>4, <1>7 DEF Pending
  <2>2. areq \in [Reqs -> ReqRecords]
    BY DEF CodeInv, AuthTypes
  <2>3. QED BY <1>7, <2>1, <2>2
<1>9. good => c \in Codes
  BY <1>3, <1>6 DEF Codes
<1>10. /\ admitted' \in [Codes -> Nat]
       /\ \A x \in Codes : x # c \/ ~good => admitted'[x] = admitted[x]
       /\ good => admitted'[c] = admitted[c] + 1
  BY <1>2, <1>6, <1>9
<1>11. AuthTypes'
  BY <1>2, <1>5, <1>6, <1>8, <1>10 DEF CodeInv, AuthTypes
<1>12. CounterIsAbove'
  <2>1. ASSUME NEW x \in TOTPCodes PROVE admitted'[x] <= 1 /\ (admitted'[x] = 1 => x[3] <= last')
    <3>1. x[3] \in Nat /\ x \in Codes /\ admitted[x] \in Nat /\ admitted[x] <= 1 /\ (admitted[x] = 1 => x[3] <= last) /\ last \in Nat
      BY <1>6, CodesAreTwoKinds, TypesNow DEF CodeInv, CounterIsAbove, Codes
    <3>2. CASE good /\ x = c
      <4>1. totp /\ Spendable(c[3])
        BY <1>6, <3>2, CodesAreTwoKinds
      <4>2. QED BY <1>5, <1>10, <3>1, <3>2, <4>1
    <3>3. CASE ~good \/ x # c
      BY <1>5, <1>10, <3>1, <3>3
    <3>4. QED BY <3>2, <3>3
  <2>2. QED BY <2>1 DEF CounterIsAbove
<1>13. UsedIsGone'
  <2>1. ASSUME NEW x \in RecoveryCodes PROVE admitted'[x] <= 1 /\ (x \in codes' => admitted'[x] = 0)
    <3>1. x \in Codes /\ admitted[x] \in Nat /\ admitted[x] <= 1 /\ (x \in codes => admitted[x] = 0)
      BY <1>6 DEF CodeInv, UsedIsGone, Codes
    <3>2. CASE good /\ x = c
      <4>1. ~totp /\ c \in codes
        BY <1>3, <3>2, CodesAreTwoKinds
      <4>2. QED BY <1>2, <1>10, <3>1, <3>2, <4>1
    <3>3. CASE ~good \/ x # c
      BY <1>6, <1>10, <3>1, <3>3
    <3>4. QED BY <3>2, <3>3
  <2>2. QED BY <2>1 DEF UsedIsGone
<1>14. ASSUME NEW k \in 1..MaxSecrets, NotYet(k) PROVE NotYet(k)'
  <2>1. Written(k) \in RecoveryCodes /\ Written(k) \notin codes /\ admitted[Written(k)] = 0 /\ Written(k) \in Codes
    BY <1>14, CodesAreTwoKinds DEF NotYet, Codes
  <2>2. ~good \/ Written(k) # c
    BY <1>3, <2>1, CodesAreTwoKinds
  <2>3. admitted'[Written(k)] = 0 /\ Written(k) \notin codes'
    BY <1>6, <1>10, <2>1, <2>2
  <2>4. QED BY <2>3 DEF NotYet, Written
<1>15. FreshIsFresh'
  BY <1>2, <1>14 DEF CodeInv, FreshIsFresh
<1>16. PendingIsFresh'
  BY <1>2, <1>8, <1>14 DEF CodeInv, PendingIsFresh
<1>17. PendingIsOnes'
  BY <1>8 DEF CodeInv, PendingIsOnes
<1>18. QED BY <1>11, <1>12, <1>13, <1>15, <1>16, <1>17 DEF CodeInv

\* A second factor is set up: the codes of a set nobody has are made.
LEMMA SetupTOTPKeepsCodes == ASSUME CodeInv, NEW q \in Reqs, SetupTOTP(q) PROVE CodeInv'
<1>a. PICK k \in 1..MaxSecrets : k = made.secret + 1
  BY TypesNow, AuthFacts DEF SetupTOTP, MadeRecords
<1> DEFINE r == [areq[q] EXCEPT !.at = "codes", !.list = {k}]
<1>0. made.secret \in Nat /\ k = made.secret + 1 /\ k \in Nat
  BY <1>a, TypesNow DEF MadeRecords
<1>1. r \in ReqRecords /\ r.at = "codes" /\ r.list = {k}
  BY <1>0, TypesNow DEF ReqRecords, AuthPlaces
<1>2. areq' = [areq EXCEPT ![q] = r] /\ UNCHANGED <<codes, admitted, clock, last>>
  BY <1>0 DEF SetupTOTP
<1> HIDE DEF r
<1>3. areq' \in [Reqs -> ReqRecords] /\ areq'[q] = r /\ \A p \in Reqs : p # q => areq'[p] = areq[p]
  BY <1>1, <1>2 DEF CodeInv, AuthTypes
<1>4. made' \in MadeRecords /\ made'.secret = k
  BY <1>0, TypesNow DEF SetupTOTP, MadeRecords
<1>5. user' \in UserRows
  BY <1>0, TypesNow DEF SetupTOTP, UpdateUser, ReqRecords, UserRows
<1>6. AuthTypes'
  BY <1>2, <1>3, <1>4, <1>5 DEF CodeInv, AuthTypes
<1>7. Pending(areq'[q]) \subseteq {k} /\ \A p \in Reqs : p # q => Pending(areq'[p]) = Pending(areq[p])
  BY <1>1, <1>3 DEF Pending
<1>8. \A p \in Reqs : k \notin Pending(areq[p])
  BY <1>0 DEF CodeInv, PendingIsFresh
<1>9. \A j \in 1..MaxSecrets : NotYet(j) => NotYet(j)'
  BY <1>2 DEF NotYet, Written
<1>10. NotYet(k)
  BY <1>0 DEF CodeInv, FreshIsFresh
<1>11. CounterIsAbove' /\ UsedIsGone'
  BY <1>2 DEF CodeInv, CounterIsAbove, UsedIsGone
<1>12. FreshIsFresh'
  <2>1. ASSUME NEW j \in 1..MaxSecrets, j > made'.secret PROVE NotYet(j)'
    <3>1. j > made.secret
      BY <1>0, <1>4, <2>1
    <3>2. QED BY <1>9, <3>1 DEF CodeInv, FreshIsFresh
  <2>2. QED BY <2>1 DEF FreshIsFresh
<1>13. PendingIsFresh'
  <2>1. ASSUME NEW p \in Reqs, NEW j \in Pending(areq'[p]) PROVE j \in 1..MaxSecrets /\ j <= made'.secret /\ NotYet(j)'
    <3>1. CASE j = k
      <4>1. k <= made'.secret
        BY <1>0, <1>4
      <4>2. NotYet(k)'
        BY <1>0, <1>9, <1>10
      <4>3. QED BY <1>0, <3>1, <4>1, <4>2
    <3>2. CASE j # k
      <4>1. p # q /\ j \in Pending(areq[p])
        BY <1>7, <3>2
      <4>2. j \in 1..MaxSecrets /\ j <= made.secret /\ NotYet(j)
        BY <4>1 DEF CodeInv, PendingIsFresh
      <4>3. j <= made'.secret
        BY <1>0, <1>4, <4>2
      <4>4. QED BY <1>9, <4>2, <4>3
    <3>3. QED BY <3>1, <3>2
  <2>2. QED BY <2>1 DEF PendingIsFresh
<1>14. PendingIsOnes'
  BY <1>7, <1>8 DEF CodeInv, PendingIsOnes
<1>15. QED BY <1>6, <1>11, <1>12, <1>13, <1>14 DEF CodeInv

\* The unused codes are replaced by a set nobody has used, or by none.
LEMMA CodesReplaced ==
    ASSUME CodeInv, NEW q \in Reqs, AuthReply(q), UNCHANGED <<user, last, clock, admitted, made>>,
           codes' = {} \/ \E k \in Pending(areq[q]) : codes' = {Written(k)}
    PROVE  CodeInv'
<1>1. areq' \in [Reqs -> ReqRecords] /\ areq'[q] = Idle /\ \A p \in Reqs : p # q => areq'[p] = areq[p]
  BY AuthFacts DEF CodeInv, AuthTypes, AuthReply
<1>2. Pending(areq'[q]) = {} /\ \A p \in Reqs : p # q => Pending(areq'[p]) = Pending(areq[p])
  BY <1>1, AuthFacts
<1>3. \A k \in Pending(areq[q]) : k \in 1..MaxSecrets /\ k <= made.secret /\ NotYet(k)
  BY DEF CodeInv, PendingIsFresh
<1>4. codes' \subseteq RecoveryCodes
  BY <1>3, CodesAreTwoKinds
<1>5. AuthTypes'
  BY <1>1, <1>4 DEF CodeInv, AuthTypes
<1>6. CounterIsAbove'
  BY DEF CodeInv, CounterIsAbove
<1>7. UsedIsGone'
  BY <1>3 DEF CodeInv, UsedIsGone, NotYet
<1>8. ASSUME NEW j \in 1..MaxSecrets, NotYet(j), j \notin Pending(areq[q]) PROVE NotYet(j)'
  <2>1. Written(j) \notin codes'
    BY <1>3, <1>8, CodesAreTwoKinds
  <2>2. QED BY <1>8, <2>1 DEF NotYet, Written
<1>9. FreshIsFresh'
  <2>1. ASSUME NEW j \in 1..MaxSecrets, j > made.secret PROVE NotYet(j)'
    <3>1. NotYet(j)
      BY <2>1 DEF CodeInv, FreshIsFresh
    <3>2. j \notin Pending(areq[q])
      BY <1>3, <2>1, TypesNow DEF MadeRecords
    <3>3. QED BY <1>8, <3>1, <3>2
  <2>2. QED BY <2>1 DEF FreshIsFresh
<1>10. PendingIsFresh'
  <2>1. ASSUME NEW p \in Reqs, NEW j \in Pending(areq'[p]) PROVE j \in 1..MaxSecrets /\ j <= made'.secret /\ NotYet(j)'
    <3>1. p # q /\ j \in Pending(areq[p])
      BY <1>2
    <3>2. j \notin Pending(areq[q])
      BY <3>1 DEF CodeInv, PendingIsOnes
    <3>3. j \in 1..MaxSecrets /\ j <= made.secret /\ NotYet(j)
      BY <3>1 DEF CodeInv, PendingIsFresh
    <3>4. QED BY <1>8, <3>2, <3>3
  <2>2. QED BY <2>1 DEF PendingIsFresh
<1>11. PendingIsOnes'
  BY <1>2 DEF CodeInv, PendingIsOnes
<1>12. QED BY <1>5, <1>6, <1>7, <1>9, <1>10, <1>11 DEF CodeInv

LEMMA CodeWritesKeepCodes ==
    ASSUME CodeInv, NEW q \in Reqs, StoreRecoveryCodes(q) \/ ForgetRecoveryCodes(q) PROVE CodeInv'
<1>1. CASE StoreRecoveryCodes(q)
  <2>1. PICK k \in areq[q].list : codes' = {Written(k)}
    BY <1>1 DEF StoreRecoveryCodes, ReplaceRecoveryCodes, Written
  <2>2. k \in Pending(areq[q])
    BY <1>1, <2>1 DEF StoreRecoveryCodes, AuthAt, Pending
  <2>3. AuthReply(q) /\ UNCHANGED <<user, last, clock, admitted, made>>
    BY <1>1 DEF StoreRecoveryCodes
  <2>4. QED BY <2>1, <2>2, <2>3, CodesReplaced
<1>2. CASE ForgetRecoveryCodes(q)
  BY <1>2, CodesReplaced DEF ForgetRecoveryCodes, DeleteRecoveryCodes
<1>3. QED BY <1>1, <1>2

\* What no request does: a session, a token, the row or the clock changes.
LEMMA OthersKeepCodes ==
    ASSUME CodeInv,
           \/ \E s \in Sids : Refuse(s)
           \/ \E t \in tokens : RevokeToken(t)
           \/ PurgeExpiredSessions \/ AdministratorDisables \/ AuthTick \/ UNCHANGED authVars
    PROVE  CodeInv'
<1>1. UNCHANGED <<last, codes, areq, admitted, made>>
  BY DEF Refuse, RevokeToken, PurgeExpiredSessions, AdministratorDisables, AuthTick, authVars
<1>2. user' \in UserRows
  <2>1. user' = user \/ user' = [user EXCEPT !.disabled = TRUE]
    BY DEF Refuse, RevokeToken, PurgeExpiredSessions, AdministratorDisables, AuthTick, authVars
  <2>2. QED BY <2>1, TypesNow DEF UserRows
<1>3. clock' \in Nat
  <2>1. clock \in Nat
    BY DEF CodeInv, AuthTypes
  <2>2. clock' = clock \/ clock' = clock + 1
    BY DEF Refuse, RevokeToken, PurgeExpiredSessions, AdministratorDisables, AuthTick, authVars
  <2>3. QED BY <2>1, <2>2
<1>4. AuthTypes'
  BY <1>1, <1>2, <1>3 DEF CodeInv, AuthTypes
<1>5. QED BY <1>1, <1>4, TypesNow, CodesStay

LEMMA AuthStepKeepsCodes == CodeInv /\ [AuthNext]_authVars => CodeInv'
<1> SUFFICES ASSUME CodeInv, [AuthNext]_authVars PROVE CodeInv'
  OBVIOUS
<1>1. ASSUME NEW q \in Reqs, Login(q) \/ LoginRead(q) \/ EnterHash(q) \/ Verify(q) \/ SpendSecondFactor(q)
                \/ RecordLoginFailure(q) \/ Rehash(q) \/ IssueSession(q) \/ SSOCallback(q) PROVE CodeInv'
  BY <1>1, LoginKeepsCodes, LoginReadKeepsCodes, EnterHashKeepsCodes, VerifyKeepsCodes, SpendSecondFactorKeepsCodes,
     RecordLoginFailureKeepsCodes, RehashKeepsCodes, IssueSessionKeepsCodes, SSOCallbackKeepsCodes
<1>2. ASSUME NEW q \in Reqs, NEW s \in Sids, NEW kind \in AuthKinds, Authenticate(q, s, kind) PROVE CodeInv'
  BY <1>2, AuthenticateKeepsCodes
<1>3. ASSUME NEW q \in Reqs, NEW t \in tokens, NEW kind \in AuthKinds, AuthenticateToken(q, t, kind) PROVE CodeInv'
  BY <1>3, AuthenticateTokenKeepsCodes
<1>4. ASSUME NEW q \in Reqs, MarkReauthenticated(q) \/ ChangePassword(q) \/ UpdateMe(q) \/ SetupTOTP(q)
                \/ StoreRecoveryCodes(q) \/ ConfirmTOTP(q) \/ TurnOnTOTP(q) \/ DisableTOTP(q)
                \/ ForgetRecoveryCodes(q) \/ ListOthers(q) \/ RevokeOne(q) \/ Logout(q) \/ DeleteOthers(q)
                \/ (\E s \in Sids : DeleteOne(q, s)) \/ DeleteUserSessions(q) \/ ResetRead(q) \/ ResetPassword(q)
                \/ CreateAPIToken(q) \/ Disconnect(q) PROVE CodeInv'
  BY <1>4, ShortStepsKeepCodes, PasswordsKeepCodes, RowWritesKeepCodes, SetupTOTPKeepsCodes, CodeWritesKeepCodes,
     ConfirmTOTPKeepsCodes, DisableTOTPKeepsCodes, ListsKeepCodes, DeleteOneKeepsCodes, ResetReadKeepsCodes
<1>5. ASSUME \/ \E s \in Sids : Refuse(s)
             \/ \E t \in tokens : RevokeToken(t)
             \/ PurgeExpiredSessions \/ AdministratorDisables \/ AuthTick \/ UNCHANGED authVars PROVE CodeInv'
  BY <1>5, OthersKeepCodes
<1>6. QED BY <1>1, <1>2, <1>3, <1>4, <1>5 DEF AuthNext

(* A code of the authenticator, or one written down, gets somebody past    *)
(* the second factor once: SpendTOTPCounter and SpendRecoveryCode check    *)
(* and write in one statement (store/users.go), so it does not matter that *)
(* spendSecondFactor works on a copy of the row, how many requests present *)
(* the code at once, or that sets of codes are replaced meanwhile.         *)
THEOREM CodeAdmitsOnceAlways == AuthSpec => []CodeAdmitsOnce
<1>1. CodeInv => CodeAdmitsOnce
  BY DEF CodeInv, CounterIsAbove, UsedIsGone, CodeAdmitsOnce, Codes
<1>2. QED BY <1>1, CodesStart, AuthStepKeepsCodes, PTL DEF AuthSpec

-----------------------------------------------------------------------------
(* Sessions of an older password.                                          *)

SessionRows == [live : BOOLEAN, created : Nat, seen : Nat, expires : Nat, reauth : Nat, pw : Nat, kept : Nat, late : Nat,
                missed : Nat]
\* What a row keeps for good, and the instant it was last used.
RowFits(v, pw) == v \in SessionRows /\ v.kept <= pw /\ v.missed <= pw /\ v.seen <= v.created + MaxSessionLife

\* No number is of a password that was not made.
NumbersFit ==
    /\ DOMAIN session = Sids /\ \A s \in Sids : RowFits(session[s], made.pw)
    /\ made.cut <= made.pw /\ user.pw <= made.pw
    /\ \A q \in Reqs : areq[q].copy.pw <= made.pw /\ areq[q].pw <= made.pw

\* A request that has read the row works on the newest password, or began before it.
Answers(r, pw) == r.at \in {"off", "read"} \/ r.copy.pw = pw \/ r.late = pw

\* The change of a password will still end a session, or keep it knowingly.
WillEnd(r, pw, s) ==
    /\ r.kind \in {"password", "reset"} /\ r.copy.pw = pw
    /\ r.at = "list" \/ (r.at = "delete" /\ (s \in r.list \/ (s = r.sid /\ r.kind = "password")))

\* A session of an older password that still admits.
Older(v, now, pw) == v.live /\ now <= v.expires /\ v.pw < pw
Settled(v, pw, cut) == pw \in {v.kept, v.late, v.missed, cut}
OldOnesEnd ==
    \A s \in Sids : Older(session[s], clock, made.pw) =>
        Settled(session[s], made.pw, made.cut) \/ \E q \in Reqs : WillEnd(areq[q], made.pw, s)

OldInv ==
    /\ NumbersFit
    /\ ~made.lost => user.pw = made.pw /\ (\A q \in Reqs : Answers(areq[q], made.pw)) /\ OldOnesEnd

LEMMA SessionFacts ==
    /\ SessionTTL \in Nat /\ MaxSessionLife \in Nat /\ Sids \subseteq Nat
    /\ NoSession \in SessionRows /\ NoSession.live = FALSE
<1>1. NoSession \in SessionRows /\ NoSession.live = FALSE
  BY DEF NoSession, SessionRows
<1>2. QED BY <1>1, AuthMixesAssumption DEF Sids

LEMMA SessionsStart == AuthInit => OldInv
<1> SUFFICES ASSUME AuthInit PROVE OldInv
  OBVIOUS
<1>1. made.pw = 1 /\ made.cut = 0 /\ areq = [q \in Reqs |-> Idle] /\ user.pw = 1
  <2>1. PICK old \in BOOLEAN : user = [NoUserRow EXCEPT !.pw = 1, !.old = old,
                !.secret = IF amix.secondFactor THEN 1 ELSE 0, !.on = amix.secondFactor]
    BY DEF AuthInit
  <2>2. QED BY <2>1 DEF AuthInit, NoUserRow
<1> DEFINE v == [NoSession EXCEPT !.live = TRUE, !.created = 1, !.seen = 1, !.expires = 1 + SessionTTL, !.reauth = 1, !.pw = 1]
<1>2. v \in SessionRows /\ v.kept = 0 /\ v.missed = 0 /\ v.seen = 1 /\ v.created = 1 /\ v.pw = 1
  <2>1. NoSession.kept = 0 /\ NoSession.missed = 0 /\ 1 + SessionTTL \in Nat
    BY SessionFacts DEF NoSession
  <2>2. QED BY <2>1, SessionFacts DEF SessionRows
<1>3. session = [s \in Sids |-> IF s = 1 THEN v ELSE NoSession]
  BY DEF AuthInit
<1> HIDE DEF v
<1>4. \A s \in Sids : RowFits(session[s], 1) /\ (session[s].live => session[s].pw = 1)
  <2>1. RowFits(v, 1)
    BY <1>2, SessionFacts DEF RowFits
  <2>2. RowFits(NoSession, 1)
    BY SessionFacts DEF RowFits, NoSession
  <2>3. QED BY <1>2, <1>3, <2>1, <2>2, SessionFacts
<1>5. Idle.copy.pw = 0 /\ Idle.at = "off" /\ Idle.pw = 0
  BY DEF Idle, NoUserRow
<1>6. NumbersFit
  BY <1>1, <1>3, <1>4, <1>5 DEF NumbersFit
<1>7. OldOnesEnd
  BY <1>1, <1>4 DEF OldOnesEnd, Older
<1>8. QED BY <1>1, <1>5, <1>6, <1>7 DEF OldInv, Answers

-----------------------------------------------------------------------------
(* The steps that end, use or stamp sessions and change no password.       *)

\* What a step may do to a session without letting an older one in.
Ages(v, w, now, then) ==
    /\ w \in SessionRows /\ w.seen <= w.created + MaxSessionLife
    /\ w.pw = v.pw /\ w.kept = v.kept /\ w.late = v.late /\ w.missed = v.missed
    /\ w.live /\ then <= w.expires => v.live /\ now <= v.expires

LEMMA SessionsAge ==
    ASSUME CodeInv, OldInv, NEW q \in Reqs, NEW r \in ReqRecords,
           areq' = [areq EXCEPT ![q] = r], r = areq[q] \/ ~ChangesPassword(q),
           r.copy.pw <= made.pw, r.pw <= made.pw, user'.pw <= made.pw,
           ~made'.lost => Answers(r, made.pw) /\ user'.pw = user.pw /\ ~made.lost,
           made'.pw = made.pw, made'.cut = made.cut, DOMAIN session' = Sids,
           \A s \in Sids : Ages(session[s], session'[s], clock, clock')
    PROVE  OldInv'
<1>1. areq'[q] = r /\ \A p \in Reqs : p # q => areq'[p] = areq[p]
  BY DEF CodeInv, AuthTypes
<1>2. NumbersFit'
  <2>1. \A s \in Sids : RowFits(session'[s], made'.pw)
    BY DEF OldInv, NumbersFit, RowFits, Ages
  <2>2. QED BY <1>1, <2>1 DEF OldInv, NumbersFit
<1>3. ASSUME ~made'.lost PROVE OldOnesEnd'
  <2>1. SUFFICES ASSUME NEW s \in Sids, Older(session'[s], clock', made'.pw)
                 PROVE  Settled(session'[s], made'.pw, made'.cut) \/ \E p \in Reqs : WillEnd(areq'[p], made'.pw, s)
    BY DEF OldOnesEnd
  <2>2. Older(session[s], clock, made.pw)
    BY <2>1 DEF Older, Ages
  <2>3. CASE Settled(session[s], made.pw, made.cut)
    BY <2>3 DEF Settled, Ages
  <2>4. CASE \E p \in Reqs : WillEnd(areq[p], made.pw, s)
    <3>1. PICK p \in Reqs : WillEnd(areq[p], made.pw, s)
      BY <2>4
    <3>2. areq'[p] = areq[p]
      BY <1>1, <3>1 DEF WillEnd, ChangesPassword
    <3>3. QED BY <3>1, <3>2
  <2>5. QED BY <1>3, <2>2, <2>3, <2>4 DEF OldInv, OldOnesEnd
<1>4. ~made'.lost => user'.pw = made'.pw /\ \A p \in Reqs : Answers(areq'[p], made'.pw)
  BY <1>1 DEF OldInv
<1>5. QED BY <1>2, <1>3, <1>4 DEF OldInv

\* No session changes.
LEMMA SessionsStay ==
    ASSUME CodeInv, OldInv, UNCHANGED <<session, clock>> \/ (UNCHANGED session /\ clock' = clock + 1)
    PROVE  DOMAIN session' = Sids /\ \A s \in Sids : Ages(session[s], session'[s], clock, clock')
<1>1. \A s \in Sids : RowFits(session[s], made.pw) /\ session[s].expires \in Nat /\ clock \in Nat
  BY DEF OldInv, NumbersFit, RowFits, SessionRows, CodeInv, AuthTypes
<1>2. QED BY <1>1 DEF RowFits, Ages, OldInv, NumbersFit

\* A request moves on with the copy it has.
LEMMA WithItsCopy ==
    ASSUME CodeInv, OldInv, NEW q \in Reqs, NEW r, r.copy = areq[q].copy, r.late = areq[q].late, r.pw = areq[q].pw,
           areq[q].at \notin {"off", "read"}
    PROVE  r.copy.pw <= made.pw /\ r.pw <= made.pw /\ (~made.lost => Answers(r, made.pw))
BY DEF OldInv, NumbersFit, Answers

\* A request reads the row.
LEMMA WithTheRow ==
    ASSUME CodeInv, OldInv, NEW r, r.copy = user PROVE r.copy.pw <= made.pw /\ (~made.lost => Answers(r, made.pw))
BY DEF OldInv, NumbersFit, Answers

\* The sessions stay; a request begins, moves on or ends, and the row keeps its password or says that it did not.
LEMMA OnlyRequests ==
    ASSUME CodeInv, OldInv, NEW q \in Reqs, NEW r \in ReqRecords, areq' = [areq EXCEPT ![q] = r],
           ~ChangesPassword(q), r.copy.pw <= made.pw, r.pw <= made.pw, ~made.lost => Answers(r, made.pw),
           user'.pw <= made.pw, ~made'.lost => user'.pw = user.pw /\ ~made.lost,
           made'.pw = made.pw, made'.cut = made.cut, UNCHANGED <<session, clock>>
    PROVE  OldInv'
BY SessionsStay, SessionsAge

\* What is asked for first changes nothing but the count.
LEMMA AskingKeeps == ASSUME CodeInv, NEW q, NEW k, MayAsk(q, k)
                     PROVE  made'.pw = made.pw /\ made'.cut = made.cut /\ made'.lost = made.lost /\ areq[q] = Idle
BY TypesNow DEF MayAsk, MadeRecords, Free1
LEMMA IdleIsAway == ~(Idle.at \in {"list", "delete"}) /\ Idle.at = "off" /\ Idle.copy.pw = 0 /\ Idle.pw = 0
BY DEF Idle, NoUserRow

LEMMA RequestStarts ==
    ASSUME CodeInv, OldInv, NEW q \in Reqs, NEW k, MayAsk(q, k), NEW r \in ReqRecords, areq' = [areq EXCEPT ![q] = r],
           r.copy = user \/ (r.at = "read" /\ r.copy.pw = 0), r.pw <= made.pw, UNCHANGED <<user, session, clock>>
    PROVE  OldInv'
<1>1. made'.pw = made.pw /\ made'.cut = made.cut /\ made'.lost = made.lost /\ ~ChangesPassword(q)
  BY AskingKeeps, IdleIsAway DEF ChangesPassword
<1>2. r.copy.pw <= made.pw /\ (~made.lost => Answers(r, made.pw))
  <2>1. CASE r.copy = user
    BY <2>1, WithTheRow
  <2>2. CASE r.at = "read" /\ r.copy.pw = 0
    BY <2>2, TypesNow DEF Answers, MadeRecords
  <2>3. QED BY <2>1, <2>2
<1>3. user.pw <= made.pw
  BY DEF OldInv, NumbersFit
<1>4. QED BY <1>1, <1>2, <1>3, OnlyRequests

LEMMA LoginKeepsOld == ASSUME CodeInv, OldInv, NEW q \in Reqs, Login(q) PROVE OldInv'
<1>1. PICK pw \in 1..made.pw, c \in Codes \cup {<<"none">>, <<"wrong">>} :
        areq' = [areq EXCEPT ![q] = [Idle EXCEPT !.kind = "login", !.at = "read", !.pw = pw, !.code = c]]
  BY DEF Login
<1> DEFINE r == [Idle EXCEPT !.kind = "login", !.at = "read", !.pw = pw, !.code = c]
<1>2. pw \in Nat /\ pw <= made.pw
  BY TypesNow DEF MadeRecords
<1>3. r \in ReqRecords /\ r.at = "read" /\ r.pw = pw /\ r.copy.pw = 0
  BY <1>2 DEF Idle, NoUserRow, UserRows, ReqRecords, AuthPlaces, AuthKinds
<1>4. areq' = [areq EXCEPT ![q] = r] /\ MayAsk(q, "login") /\ UNCHANGED <<user, session, clock>>
  BY <1>1 DEF Login
<1> HIDE DEF r
<1>5. QED BY <1>2, <1>3, <1>4, RequestStarts

LEMMA SSOCallbackKeepsOld == ASSUME CodeInv, OldInv, NEW q \in Reqs, SSOCallback(q) PROVE OldInv'
<1> DEFINE r == [Idle EXCEPT !.kind = "sso", !.at = "issue", !.copy = user]
<1>1. r \in ReqRecords /\ r.copy = user /\ r.pw = 0
  BY TypesNow DEF Idle, ReqRecords, AuthPlaces, AuthKinds
<1>2. areq' = [areq EXCEPT ![q] = r] /\ MayAsk(q, "sso") /\ UNCHANGED <<user, session, clock>>
  BY DEF SSOCallback
<1> HIDE DEF r
<1>3. 0 <= made.pw
  BY TypesNow DEF MadeRecords
<1>4. QED BY <1>1, <1>2, <1>3, RequestStarts

LEMMA ResetReadKeepsOld == ASSUME CodeInv, OldInv, NEW q \in Reqs, ResetRead(q) PROVE OldInv'
<1> DEFINE r == [Idle EXCEPT !.kind = "reset", !.at = "write", !.copy = user]
<1>1. r \in ReqRecords /\ r.copy = user /\ r.pw = 0
  BY TypesNow DEF Idle, ReqRecords, AuthPlaces, AuthKinds
<1>2. areq' = [areq EXCEPT ![q] = r] /\ MayAsk(q, "reset") /\ UNCHANGED <<user, session, clock>>
  BY DEF ResetRead
<1> HIDE DEF r
<1>3. 0 <= made.pw
  BY TypesNow DEF MadeRecords
<1>4. QED BY <1>1, <1>2, <1>3, RequestStarts

LEMMA AuthenticateTokenKeepsOld ==
    ASSUME CodeInv, OldInv, NEW q \in Reqs, NEW t, NEW kind \in AuthKinds, AuthenticateToken(q, t, kind) PROVE OldInv'
<1>1. PICK pw \in (IF kind = "password" THEN 1..made.pw ELSE {0}) :
        areq' = [areq EXCEPT ![q] = [Idle EXCEPT !.kind = kind, !.at = FirstStep(kind), !.copy = user, !.pw = pw]]
  BY DEF AuthenticateToken
<1> DEFINE r == [Idle EXCEPT !.kind = kind, !.at = FirstStep(kind), !.copy = user, !.pw = pw]
<1>2. pw \in Nat /\ pw <= made.pw
  BY TypesNow DEF MadeRecords
<1>3. r \in ReqRecords /\ r.copy = user /\ r.pw = pw
  BY <1>2, TypesNow, FirstStepIs DEF Idle, ReqRecords
<1>4. areq' = [areq EXCEPT ![q] = r] /\ MayAsk(q, kind) /\ UNCHANGED <<user, session, clock>>
  BY <1>1 DEF AuthenticateToken
<1> HIDE DEF r
<1>5. QED BY <1>2, <1>3, <1>4, RequestStarts

\* A request moves on with the copy it has; a session is not touched.
LEMMA RequestGoesOn ==
    ASSUME CodeInv, OldInv, NEW q \in Reqs, NEW where \in AuthPlaces, AuthGo(q, where), ~ChangesPassword(q),
           areq[q].at \notin {"off", "read"},
           user'.pw <= made.pw, ~made'.lost => user'.pw = user.pw /\ ~made.lost,
           made'.pw = made.pw, made'.cut = made.cut, UNCHANGED <<session, clock>>
    PROVE  OldInv'
<1> DEFINE r == [areq[q] EXCEPT !.at = where]
<1>1. r \in ReqRecords /\ r.copy = areq[q].copy /\ r.late = areq[q].late /\ r.pw = areq[q].pw
  BY TypesNow DEF ReqRecords
<1>2. areq' = [areq EXCEPT ![q] = r]
  BY DEF AuthGo
<1> HIDE DEF r
<1>3. QED BY <1>1, <1>2, WithItsCopy, OnlyRequests

\* A request ends; a session is not touched.
LEMMA RequestIsDone ==
    ASSUME CodeInv, OldInv, NEW q \in Reqs, AuthReply(q), ~ChangesPassword(q),
           user'.pw <= made.pw, ~made'.lost => user'.pw = user.pw /\ ~made.lost,
           made'.pw = made.pw, made'.cut = made.cut, UNCHANGED <<session, clock>>
    PROVE  OldInv'
<1>1. Idle.copy.pw <= made.pw /\ Idle.pw <= made.pw /\ Answers(Idle, made.pw)
  BY IdleIsAway, TypesNow DEF Answers, MadeRecords
<1>2. QED BY <1>1, AuthFacts, OnlyRequests DEF AuthReply

LEMMA NumbersNow ==
    ASSUME CodeInv, OldInv
    PROVE  /\ user.pw <= made.pw /\ \A q \in Reqs : areq[q].copy.pw <= made.pw /\ areq[q].pw <= made.pw
           /\ \A q \in Reqs : areq[q].copy \in UserRows /\ areq[q].pw \in Nat /\ areq[q].copy.pw \in Nat
           /\ user \in UserRows /\ made \in MadeRecords /\ made.pw \in Nat /\ made.lost \in BOOLEAN /\ clock \in Nat
BY TypesNow DEF OldInv, NumbersFit, ReqRecords, UserRows, MadeRecords, CodeInv, AuthTypes

LEMMA LoginReadKeepsOld == ASSUME CodeInv, OldInv, NEW q \in Reqs, LoginRead(q) PROVE OldInv'
<1> DEFINE r == [areq[q] EXCEPT !.at = "wait", !.copy = user]
<1>1. r \in ReqRecords /\ r.copy = user /\ r.pw = areq[q].pw
  BY TypesNow DEF ReqRecords, AuthPlaces
<1>2. areq' = [areq EXCEPT ![q] = r]
  BY DEF LoginRead
<1> HIDE DEF r
<1>3. UNCHANGED <<user, session, clock, made>> /\ ~ChangesPassword(q)
  BY DEF LoginRead, AuthAt, ChangesPassword
<1>4. QED BY <1>1, <1>2, <1>3, NumbersNow, WithTheRow, OnlyRequests

\* The steps of a sign-in or a step-up that write no row.
LEMMA SignInKeepsOld ==
    ASSUME CodeInv, OldInv, NEW q \in Reqs, EnterHash(q) \/ Verify(q) \/ SpendSecondFactor(q) \/ RecordLoginFailure(q)
    PROVE  OldInv'
<1>1. UNCHANGED <<user, session, clock, made>> /\ areq[q].at \in {"wait", "hash", "factor", "fail"}
  BY DEF EnterHash, Verify, SpendSecondFactor, RecordLoginFailure, AuthAt
<1>2. ~ChangesPassword(q) /\ areq[q].at \notin {"off", "read"}
  BY <1>1 DEF ChangesPassword
<1>3. AuthReply(q) \/ \E where \in AuthPlaces : AuthGo(q, where)
  <2>1. CASE EnterHash(q)
    BY <2>1 DEF EnterHash, AuthPlaces
  <2>2. CASE Verify(q)
    <3>1. AfterPassword(q) \in AuthPlaces
      BY DEF AfterPassword, AuthPlaces
    <3>2. QED BY <2>2, <3>1 DEF Verify
  <2>3. CASE SpendSecondFactor(q)
    <3>1. {"fail", "rehash", "done"} \subseteq AuthPlaces
      BY DEF AuthPlaces
    <3>2. QED BY <2>3, <3>1 DEF SpendSecondFactor
  <2>4. CASE RecordLoginFailure(q)
    BY <2>4 DEF RecordLoginFailure
  <2>5. QED BY <2>1, <2>2, <2>3, <2>4
<1>4. QED BY <1>1, <1>2, <1>3, NumbersNow, RequestGoesOn, RequestIsDone

LEMMA RehashKeepsOld == ASSUME CodeInv, OldInv, NEW q \in Reqs, Rehash(q) PROVE OldInv'
<1>1. AuthGo(q, "issue") /\ UNCHANGED <<session, clock>> /\ "issue" \in AuthPlaces /\ areq[q].at = "rehash"
  BY DEF Rehash, AuthPlaces, AuthAt
<1>2. \/ user' = user /\ made' = made
      \/ /\ user' = [user EXCEPT !.pw = areq[q].pw, !.old = FALSE]
         /\ made' = [made EXCEPT !.lost = @ \/ areq[q].pw # user.pw]
  BY DEF Rehash, UpdatePasswordHash
<1>3. user'.pw <= made.pw /\ (~made'.lost => user'.pw = user.pw /\ ~made.lost) /\ made'.pw = made.pw /\ made'.cut = made.cut
  BY <1>2, NumbersNow DEF UserRows, MadeRecords
<1>4. QED BY <1>1, <1>3, RequestGoesOn DEF ChangesPassword

\* A save of the whole copy, whatever else it changes.
LEMMA SavingKeeps ==
    ASSUME CodeInv, OldInv, NEW u, u.pw <= made.pw, SaveCopy(u)
    PROVE  /\ user'.pw <= made.pw /\ (~made'.lost => user'.pw = user.pw /\ ~made.lost)
           /\ made'.pw = made.pw /\ made'.cut = made.cut
BY NumbersNow DEF SaveCopy, UpdateUser, MadeRecords

LEMMA SavesKeepOld ==
    ASSUME CodeInv, OldInv, NEW q \in Reqs, UpdateMe(q) \/ TurnOnTOTP(q) \/ DisableTOTP(q) PROVE OldInv'
<1>1. PICK u \in UserRows : SaveCopy(u) /\ u.pw = areq[q].copy.pw
  <2>0. areq[q].copy \in UserRows
    BY NumbersNow
  <2> DEFINE on == [areq[q].copy EXCEPT !.on = TRUE]
             off == [areq[q].copy EXCEPT !.on = FALSE, !.secret = 0]
  <2>1. on \in UserRows /\ on.pw = areq[q].copy.pw /\ off \in UserRows /\ off.pw = areq[q].copy.pw
    BY <2>0 DEF UserRows
  <2>2. SaveCopy(areq[q].copy) \/ SaveCopy(on) \/ SaveCopy(off)
    BY DEF UpdateMe, TurnOnTOTP, DisableTOTP
  <2> HIDE DEF on, off
  <2>3. QED BY <2>0, <2>1, <2>2
<1>2. /\ UNCHANGED <<session, clock>> /\ areq[q].at = "write" /\ ~ChangesPassword(q) /\ "codes" \in AuthPlaces
      /\ AuthReply(q) \/ AuthGo(q, "codes")
  BY DEF UpdateMe, TurnOnTOTP, DisableTOTP, AuthAt, ChangesPassword, AuthPlaces
<1>3. /\ user'.pw <= made.pw /\ (~made'.lost => user'.pw = user.pw /\ ~made.lost)
      /\ made'.pw = made.pw /\ made'.cut = made.cut
  BY <1>1, NumbersNow, SavingKeeps
<1>4. QED BY <1>2, <1>3, RequestGoesOn, RequestIsDone

LEMMA SetupTOTPKeepsOld == ASSUME CodeInv, OldInv, NEW q \in Reqs, SetupTOTP(q) PROVE OldInv'
<1> DEFINE r == [areq[q] EXCEPT !.at = "codes", !.list = {made.secret + 1}]
<1>1. r \in ReqRecords /\ r.copy = areq[q].copy /\ r.late = areq[q].late /\ r.pw = areq[q].pw
  <2>1. {made.secret + 1} \in SUBSET Nat
    BY NumbersNow DEF MadeRecords
  <2>2. QED BY <2>1, TypesNow DEF ReqRecords, AuthPlaces
<1>2. areq' = [areq EXCEPT ![q] = r] /\ UNCHANGED <<session, clock>> /\ areq[q].at = "write"
  BY DEF SetupTOTP, AuthAt
<1> HIDE DEF r
<1>3. areq[q].copy \in UserRows /\ made.secret + 1 \in Nat
  BY NumbersNow DEF MadeRecords
<1>4. user'.pw = areq[q].copy.pw
  BY <1>3 DEF SetupTOTP, UpdateUser, UserRows
<1>5. made'.pw = made.pw /\ made'.cut = made.cut /\ (~made'.lost => ~made.lost /\ areq[q].copy.pw = user.pw)
  BY NumbersNow DEF SetupTOTP, MadeRecords
<1>6. QED BY <1>1, <1>2, <1>4, <1>5, NumbersNow, WithItsCopy, OnlyRequests DEF ChangesPassword

\* The steps that write codes, tokens or the counter.
LEMMA CodeStepsKeepOld ==
    ASSUME CodeInv, OldInv, NEW q \in Reqs,
           StoreRecoveryCodes(q) \/ ForgetRecoveryCodes(q) \/ ConfirmTOTP(q) \/ CreateAPIToken(q)
    PROVE  OldInv'
<1>1. /\ UNCHANGED <<user, session, clock, made>> /\ areq[q].at \in {"codes", "verify", "write"} /\ "write" \in AuthPlaces
      /\ AuthReply(q) \/ AuthGo(q, "write")
  BY DEF StoreRecoveryCodes, ForgetRecoveryCodes, ConfirmTOTP, CreateAPIToken, AuthAt, AuthPlaces
<1>2. QED BY <1>1, NumbersNow, RequestGoesOn, RequestIsDone DEF ChangesPassword

\* One session's row is rewritten and the others stay.
LEMMA OneSessionAges ==
    ASSUME CodeInv, OldInv, NEW x, NEW w, session' = [session EXCEPT ![x] = w], clock' = clock,
           x \in Sids => Ages(session[x], w, clock, clock)
    PROVE  DOMAIN session' = Sids /\ \A s \in Sids : Ages(session[s], session'[s], clock, clock')
<1>1. \A s \in Sids : Ages(session[s], session[s], clock, clock)
  BY DEF OldInv, NumbersFit, RowFits, Ages
<1>2. DOMAIN session = Sids
  BY DEF OldInv, NumbersFit
<1>3. DOMAIN session' = Sids /\ \A s \in Sids : session'[s] = IF s = x THEN w ELSE session[s]
  BY <1>2
<1>4. QED BY <1>1, <1>3

\* Rows are deleted and the others stay.
LEMMA SessionsEnd ==
    ASSUME CodeInv, OldInv, NEW S, DeleteSessions(S), clock' = clock
    PROVE  DOMAIN session' = Sids /\ \A s \in Sids : Ages(session[s], session'[s], clock, clock')
<1>1. ASSUME NEW s \in Sids PROVE Ages(session[s], session'[s], clock, clock')
  <2>1. session[s] \in SessionRows /\ session[s].seen <= session[s].created + MaxSessionLife
    BY DEF OldInv, NumbersFit, RowFits
  <2>2. session'[s] = session[s] \/ session'[s] = [session[s] EXCEPT !.live = FALSE]
    BY DEF DeleteSessions
  <2>3. QED BY <2>1, <2>2 DEF Ages, SessionRows
<1>2. DOMAIN session' = Sids
  BY DEF DeleteSessions
<1>3. QED BY <1>1, <1>2

LEMMA TouchAges ==
    ASSUME CodeInv, OldInv, NEW s \in Sids, TouchSession(s), session[s].live, ~Expired(s), ~PastItsLife(s), clock' = clock
    PROVE  DOMAIN session' = Sids /\ \A x \in Sids : Ages(session[x], session'[x], clock, clock')
<1> DEFINE w == [session[s] EXCEPT !.seen = clock, !.expires = SlidingExpiry(s)]
<1>1. session[s] \in SessionRows /\ clock \in Nat
  BY NumbersNow DEF OldInv, NumbersFit, RowFits
<1>2. SlidingExpiry(s) \in Nat
  BY <1>1, SessionFacts DEF SlidingExpiry, Deadline, SessionRows
<1>3. session' = [session EXCEPT ![s] = w]
  <2>1. DOMAIN session = Sids
    BY DEF OldInv, NumbersFit
  <2>2. QED BY <2>1 DEF TouchSession
<1>4. w \in SessionRows /\ w.pw = session[s].pw /\ w.kept = session[s].kept /\ w.late = session[s].late
      /\ w.missed = session[s].missed /\ w.seen = clock /\ w.created = session[s].created
  BY <1>1, <1>2 DEF SessionRows
<1> HIDE DEF w
<1>5. clock <= session[s].created + MaxSessionLife /\ clock <= session[s].expires
  BY <1>1, SessionFacts DEF PastItsLife, Deadline, Expired, SessionRows
<1>6. Ages(session[s], w, clock, clock)
  BY <1>4, <1>5 DEF Ages
<1>7. QED BY <1>3, <1>6, OneSessionAges

LEMMA AuthenticateKeepsOld ==
    ASSUME CodeInv, OldInv, NEW q \in Reqs, NEW sid \in Sids, NEW kind \in AuthKinds, Authenticate(q, sid, kind) PROVE OldInv'
<1>1. PICK pw \in (IF kind \in {"reauth", "password"} THEN 1..made.pw ELSE {0}),
           c \in (IF kind \in {"reauth", "confirmTOTP"} THEN TOTPCodes ELSE {<<"none">>}) :
        areq' = [areq EXCEPT ![q] = [Idle EXCEPT !.kind = kind, !.at = FirstStep(kind), !.copy = user, !.sid = sid, !.pw = pw, !.code = c]]
  BY DEF Authenticate
<1> DEFINE r == [Idle EXCEPT !.kind = kind, !.at = FirstStep(kind), !.copy = user, !.sid = sid, !.pw = pw, !.code = c]
<1>2. pw \in Nat /\ pw <= made.pw /\ sid \in Nat
  BY NumbersNow, SessionFacts
<1>3. c \in Codes \cup {<<"none">>, <<"wrong">>}
  BY DEF Codes
<1>4. r \in ReqRecords /\ r.copy = user /\ r.pw = pw
  BY <1>2, <1>3, TypesNow, FirstStepIs DEF Idle, ReqRecords
<1>5. areq' = [areq EXCEPT ![q] = r] /\ MayAsk(q, kind) /\ UNCHANGED <<user, clock>>
  BY <1>1 DEF Authenticate
<1> HIDE DEF r
<1>6. DOMAIN session' = Sids /\ \A x \in Sids : Ages(session[x], session'[x], clock, clock')
  <2>1. CASE TouchSession(sid)
    BY <1>5, <2>1, TouchAges DEF Authenticate
  <2>2. CASE UNCHANGED session
    BY <1>5, <2>2, SessionsStay
  <2>3. QED BY <2>1, <2>2 DEF Authenticate
<1>7. made'.pw = made.pw /\ made'.cut = made.cut /\ made'.lost = made.lost /\ ~ChangesPassword(q)
  BY <1>5, AskingKeeps, IdleIsAway DEF ChangesPassword
<1>8. r.copy.pw <= made.pw /\ (~made.lost => Answers(r, made.pw))
  BY <1>4, WithTheRow
<1>9. QED BY <1>2, <1>4, <1>5, <1>6, <1>7, <1>8, NumbersNow, SessionsAge

LEMMA MarkReauthenticatedKeepsOld == ASSUME CodeInv, OldInv, NEW q \in Reqs, MarkReauthenticated(q) PROVE OldInv'
<1> DEFINE x == areq[q].sid
           w == [session[x] EXCEPT !.reauth = IF @ < clock THEN clock ELSE @]
<1>1. DOMAIN session = Sids /\ \A s \in Sids : RowFits(session[s], made.pw)
  BY DEF OldInv, NumbersFit
<1>2. session' = [session EXCEPT ![x] = w] /\ UNCHANGED <<user, clock, made>> /\ AuthReply(q) /\ areq[q].at = "done"
  BY <1>1 DEF MarkReauthenticated, AuthAt
<1>3. ASSUME x \in Sids PROVE Ages(session[x], w, clock, clock)
  <2>1. session[x] \in SessionRows /\ session[x].seen <= session[x].created + MaxSessionLife /\ clock \in Nat
    BY <1>1, <1>3, NumbersNow DEF RowFits
  <2>2. QED BY <2>1 DEF Ages, SessionRows
<1> HIDE DEF w, x
<1>4. DOMAIN session' = Sids /\ \A s \in Sids : Ages(session[s], session'[s], clock, clock')
  BY <1>2, <1>3, OneSessionAges
<1>5. Idle.copy.pw <= made.pw /\ Idle.pw <= made.pw /\ Answers(Idle, made.pw)
  BY IdleIsAway, NumbersNow DEF Answers
<1>6. areq' = [areq EXCEPT ![q] = Idle] /\ ~ChangesPassword(q)
  BY <1>2 DEF AuthReply, ChangesPassword
<1>7. QED BY <1>2, <1>4, <1>5, <1>6, NumbersNow, AuthFacts, SessionsAge

LEMMA LogoutKeepsOld == ASSUME CodeInv, OldInv, NEW q \in Reqs, Logout(q) PROVE OldInv'
<1>1. DeleteSessions({areq[q].sid}) /\ AuthReply(q) /\ UNCHANGED <<user, clock, made>> /\ areq[q].kind = "logout"
  BY DEF Logout
<1>2. DOMAIN session' = Sids /\ \A s \in Sids : Ages(session[s], session'[s], clock, clock')
  BY <1>1, SessionsEnd
<1>3. Idle.copy.pw <= made.pw /\ Idle.pw <= made.pw /\ Answers(Idle, made.pw)
  BY IdleIsAway, NumbersNow DEF Answers
<1>4. areq' = [areq EXCEPT ![q] = Idle] /\ ~ChangesPassword(q)
  BY <1>1 DEF AuthReply, ChangesPassword
<1>5. QED BY <1>1, <1>2, <1>3, <1>4, NumbersNow, AuthFacts, SessionsAge

\* What no request does.
LEMMA OthersKeepOld ==
    ASSUME CodeInv, OldInv,
           \/ \E s \in Sids : Refuse(s)
           \/ \E t \in tokens : RevokeToken(t)
           \/ PurgeExpiredSessions \/ AdministratorDisables \/ AuthTick \/ UNCHANGED authVars
    PROVE  OldInv'
<1>1. UNCHANGED <<areq, made>> /\ user'.pw = user.pw
  <2>1. UNCHANGED <<areq, made>> /\ (user' = user \/ user' = [user EXCEPT !.disabled = TRUE])
    BY DEF Refuse, RevokeToken, PurgeExpiredSessions, AdministratorDisables, AuthTick, authVars
  <2>2. QED BY <2>1, NumbersNow DEF UserRows
<1>2. \/ (\E S : DeleteSessions(S)) /\ clock' = clock
      \/ UNCHANGED session /\ (clock' = clock \/ clock' = clock + 1)
  BY DEF Refuse, RevokeToken, PurgeExpiredSessions, AdministratorDisables, AuthTick, authVars
<1>3. DOMAIN session' = Sids /\ \A s \in Sids : Ages(session[s], session'[s], clock, clock')
  BY <1>2, SessionsEnd, SessionsStay
<1>4. ASSUME NEW s \in Sids, Older(session'[s], clock', made.pw) PROVE Older(session[s], clock, made.pw)
  BY <1>3, <1>4 DEF Older, Ages
<1>5. NumbersFit'
  <2>1. \A s \in Sids : RowFits(session'[s], made'.pw)
    BY <1>1, <1>3 DEF OldInv, NumbersFit, RowFits, Ages
  <2>2. QED BY <1>1, <1>3, <2>1 DEF OldInv, NumbersFit
<1>6. ASSUME ~made'.lost PROVE OldOnesEnd'
  <2>1. \A s \in Sids : Settled(session[s], made.pw, made.cut) => Settled(session'[s], made'.pw, made'.cut)
    BY <1>1, <1>3 DEF Settled, Ages
  <2>2. QED BY <1>1, <1>4, <1>6, <2>1 DEF OldInv, OldOnesEnd
<1>7. QED BY <1>1, <1>5, <1>6 DEF OldInv

-----------------------------------------------------------------------------
(* A sign-in gets its session; a password changes and the others end.      *)

\* The session of a sign-in answers for the newest password as the sign-in did.
LEMMA IssueSessionKeepsOld == ASSUME CodeInv, OldInv, NEW q \in Reqs, IssueSession(q) PROVE OldInv'
<1> DEFINE n == NewSession
           v == [NoSession EXCEPT !.live = TRUE, !.created = clock, !.seen = clock, !.reauth = clock,
                                  !.expires = clock + SessionTTL, !.pw = areq[q].copy.pw, !.late = areq[q].late]
<1>1. /\ session' = [session EXCEPT ![n] = v] /\ AuthReply(q) /\ UNCHANGED <<user, clock, made>> /\ areq[q].at = "issue"
  BY DEF IssueSession, AuthAt
<1>2. /\ v \in SessionRows /\ v.kept = 0 /\ v.missed = 0 /\ v.seen = clock /\ v.created = clock
      /\ v.pw = areq[q].copy.pw /\ v.late = areq[q].late
  <2>1. NoSession.kept = 0 /\ NoSession.missed = 0 /\ clock + SessionTTL \in Nat /\ clock \in Nat
    BY SessionFacts, NumbersNow DEF NoSession
  <2>2. areq[q].copy.pw \in Nat /\ areq[q].late \in Nat
    BY NumbersNow, TypesNow DEF ReqRecords
  <2>3. QED BY <2>1, <2>2, SessionFacts DEF SessionRows
<1> HIDE DEF v, n
<1>3. DOMAIN session = Sids /\ \A s \in Sids : RowFits(session[s], made.pw)
  BY DEF OldInv, NumbersFit
<1>4. RowFits(v, made.pw)
  BY <1>2, SessionFacts, NumbersNow DEF RowFits
<1>5. DOMAIN session' = Sids /\ \A s \in Sids : session'[s] = v \/ session'[s] = session[s]
  BY <1>1, <1>3
<1>6. areq' \in [Reqs -> ReqRecords] /\ areq'[q] = Idle /\ \A p \in Reqs : p # q => areq'[p] = areq[p]
  BY <1>1, AuthFacts DEF CodeInv, AuthTypes, AuthReply
<1>7. NumbersFit'
  <2>1. Idle.copy.pw <= made.pw /\ Idle.pw <= made.pw
    BY IdleIsAway, NumbersNow
  <2>2. QED BY <1>1, <1>3, <1>4, <1>5, <1>6, <2>1 DEF OldInv, NumbersFit
<1>8. ASSUME ~made'.lost PROVE OldOnesEnd'
  <2>1. SUFFICES ASSUME NEW s \in Sids, Older(session'[s], clock, made.pw)
                 PROVE  Settled(session'[s], made.pw, made.cut) \/ \E p \in Reqs : WillEnd(areq'[p], made.pw, s)
    BY <1>1 DEF OldOnesEnd
  <2>2. CASE session'[s] = v
    <3>1. areq[q].late = made.pw
      <4>1. areq[q].copy.pw # made.pw
        BY <1>2, <2>1, <2>2, NumbersNow DEF Older
      <4>2. Answers(areq[q], made.pw)
        BY <1>1, <1>8 DEF OldInv
      <4>3. QED BY <1>1, <4>1, <4>2 DEF Answers
    <3>2. QED BY <1>2, <2>2, <3>1 DEF Settled
  <2>3. CASE session'[s] = session[s]
    <3>1. Settled(session[s], made.pw, made.cut) \/ \E p \in Reqs : WillEnd(areq[p], made.pw, s)
      BY <1>1, <1>8, <2>1, <2>3 DEF OldInv, OldOnesEnd
    <3>2. \A p \in Reqs : WillEnd(areq[p], made.pw, s) => areq'[p] = areq[p]
      BY <1>1, <1>6 DEF WillEnd
    <3>3. QED BY <2>3, <3>1, <3>2
  <2>4. QED BY <1>5, <2>2, <2>3
<1>9. ~made'.lost => user'.pw = made'.pw /\ \A p \in Reqs : Answers(areq'[p], made'.pw)
  BY <1>1, <1>6, IdleIsAway DEF OldInv, Answers
<1>10. QED BY <1>7, <1>8, <1>9 DEF OldInv

\* From the write of a new password on, its request will end every session; the rest is late.
LEMMA PasswordsKeepOld ==
    ASSUME CodeInv, OldInv, NEW q \in Reqs, ChangePassword(q) \/ ResetPassword(q) PROVE OldInv'
<1> DEFINE n == made.pw + 1
           row == NewPassword(q)
<1>1. /\ made' = [made EXCEPT !.pw = n] /\ user' = row /\ MarkLate(q, row) /\ UNCHANGED <<session, clock>>
      /\ areq[q].kind \in {"password", "reset"} /\ areq[q].at = "write"
  BY DEF ChangePassword, ResetPassword, UpdateUser, AuthAt
<1>2. n \in Nat /\ made.pw < n /\ made.pw \in Nat
  BY NumbersNow
<1>3. made'.pw = n /\ made'.lost = made.lost /\ made'.cut = made.cut /\ made.cut \in Nat
  BY <1>1, NumbersNow DEF MadeRecords
<1>4. row.pw = n
  <2>1. areq[q].copy \in UserRows
    BY NumbersNow
  <2>2. QED BY <2>1 DEF NewPassword, UserRows
<1> HIDE DEF n, row
<1>5. ASSUME NEW p \in Reqs
      PROVE  Answers(areq'[p], n) /\ areq'[p].copy.pw <= n /\ areq'[p].pw <= n
  <2>0. areq[p] \in ReqRecords /\ areq[p].copy.pw <= made.pw /\ areq[p].pw <= made.pw /\ areq[p].copy.pw \in Nat /\ areq[p].pw \in Nat
    BY TypesNow, NumbersNow
  <2>1. CASE p = q
    <3> DEFINE r == [areq[q] EXCEPT !.at = "list", !.copy = row]
    <3>1. r.copy = row /\ r.pw = areq[q].pw
      BY <2>0, <2>1 DEF ReqRecords
    <3>2. areq'[p] = r
      BY <1>1, <2>1 DEF MarkLate
    <3> HIDE DEF r
    <3>3. QED BY <1>2, <1>4, <2>0, <2>1, <3>1, <3>2 DEF Answers
  <2>2. CASE p # q /\ Free1(p)
    <3>1. areq'[p] = Idle
      BY <1>1, <2>2 DEF MarkLate, Free1
    <3>2. QED BY <1>2, <3>1, IdleIsAway DEF Answers
  <2>3. CASE p # q /\ ~Free1(p)
    <3> DEFINE r == [areq[p] EXCEPT !.late = row.pw]
    <3>1. r.copy = areq[p].copy /\ r.pw = areq[p].pw /\ r.late = n
      BY <1>4, <2>0 DEF ReqRecords
    <3>2. areq'[p] = r
      BY <1>1, <2>3 DEF MarkLate
    <3> HIDE DEF r
    <3>3. QED BY <1>2, <2>0, <3>1, <3>2 DEF Answers
  <2>4. QED BY <2>1, <2>2, <2>3
<1>6. \A s \in Sids : WillEnd(areq'[q], n, s)
  <2> DEFINE r == [areq[q] EXCEPT !.at = "list", !.copy = row]
  <2>1. r.copy = row /\ r.at = "list" /\ r.kind = areq[q].kind
    BY TypesNow DEF ReqRecords
  <2>2. areq'[q] = r
    BY <1>1 DEF MarkLate
  <2> HIDE DEF r
  <2>3. QED BY <1>1, <1>4, <2>1, <2>2 DEF WillEnd
<1>7. NumbersFit'
  <2>1. \A s \in Sids : RowFits(session'[s], n)
    <3>1. \A s \in Sids : RowFits(session[s], made.pw) /\ session[s].kept \in Nat /\ session[s].missed \in Nat
      BY DEF OldInv, NumbersFit, RowFits, SessionRows
    <3>2. QED BY <1>1, <1>2, <3>1 DEF RowFits
  <2>2. made'.cut <= n /\ user'.pw <= n
    BY <1>1, <1>2, <1>3, <1>4 DEF OldInv, NumbersFit
  <2>3. QED BY <1>1, <1>3, <1>5, <2>1, <2>2 DEF OldInv, NumbersFit
<1>8. OldOnesEnd'
  BY <1>3, <1>6 DEF OldOnesEnd
<1>9. QED BY <1>1, <1>3, <1>4, <1>5, <1>7, <1>8 DEF OldInv

\* A later number of two, neither of them past the newest.
LEMMA NewerOf == ASSUME NEW m \in Nat, NEW n \in Nat, NEW top \in Nat, m <= top, n <= top
                 PROVE  /\ Newer(m, n) \in Nat /\ Newer(m, n) <= top
                        /\ (m = top => Newer(m, n) = top) /\ (n = top => Newer(m, n) = top)
BY DEF Newer

\* What the end of a request leaves of the requests.
LEMMA RequestGone ==
    ASSUME CodeInv, OldInv, NEW q \in Reqs, AuthReply(q)
    PROVE  /\ \A p \in Reqs : areq'[p].copy.pw <= made.pw /\ areq'[p].pw <= made.pw
           /\ ~made.lost => \A p \in Reqs : Answers(areq'[p], made.pw)
           /\ \A p \in Reqs : p # q => areq'[p] = areq[p]
<1>1. areq'[q] = Idle /\ \A p \in Reqs : p # q => areq'[p] = areq[p]
  BY DEF CodeInv, AuthTypes, AuthReply
<1>2. Idle.copy.pw <= made.pw /\ Idle.pw <= made.pw /\ Answers(Idle, made.pw)
  BY IdleIsAway, NumbersNow DEF Answers
<1>3. QED BY <1>1, <1>2, NumbersNow DEF OldInv

\* The list of a password change leaves out the session that asked, and what is missed.
LEMMA ListOthersKeepsOld == ASSUME CodeInv, OldInv, NEW q \in Reqs, ListOthers(q) PROVE OldInv'
<1> DEFINE L == ListSessions \ {areq[q].sid}
           r == [areq[q] EXCEPT !.at = "delete", !.list = L]
<1>1. UNCHANGED <<user, made, clock>> /\ areq[q].at = "list" /\ areq[q].kind \in {"password", "revokeOthers"}
  BY DEF ListOthers, AuthAt
<1>2. L \in SUBSET Nat
  BY SessionFacts DEF ListSessions
<1>3. /\ r \in ReqRecords /\ r.copy = areq[q].copy /\ r.late = areq[q].late /\ r.pw = areq[q].pw /\ r.at = "delete"
      /\ r.kind = areq[q].kind /\ r.sid = areq[q].sid /\ r.list = L
  <2> HIDE DEF L
  <2>1. QED BY <1>2, TypesNow DEF ReqRecords, AuthPlaces
<1>4. areq' = [areq EXCEPT ![q] = r]
  BY DEF ListOthers
<1> HIDE DEF r
<1>5. areq'[q] = r /\ \A p \in Reqs : p # q => areq'[p] = areq[p]
  BY <1>4 DEF CodeInv, AuthTypes
<1>6. ASSUME NEW s \in Sids
      PROVE  /\ session'[s] \in SessionRows /\ session'[s].live = session[s].live /\ session'[s].expires = session[s].expires
             /\ session'[s].pw = session[s].pw /\ session'[s].kept = session[s].kept /\ session'[s].late = session[s].late
             /\ session'[s].seen = session[s].seen /\ session'[s].created = session[s].created
             /\ session'[s].missed <= made.pw /\ (session[s].missed = made.pw => session'[s].missed = made.pw)
             /\ s \in MissedBy(q) /\ areq[q].copy.pw = made.pw => session'[s].missed = made.pw
  <2>1. /\ session[s] \in SessionRows /\ session[s].missed <= made.pw /\ session[s].missed \in Nat
        /\ areq[q].copy.pw \in Nat /\ areq[q].copy.pw <= made.pw /\ made.pw \in Nat
    BY NumbersNow DEF OldInv, NumbersFit, RowFits, SessionRows
  <2>2. session'[s] = IF s \in MissedBy(q)
            THEN [session[s] EXCEPT !.missed = Newer(session[s].missed, areq[q].copy.pw)] ELSE session[s]
    BY DEF ListOthers
  <2>3. /\ Newer(session[s].missed, areq[q].copy.pw) \in Nat /\ Newer(session[s].missed, areq[q].copy.pw) <= made.pw
        /\ session[s].missed = made.pw => Newer(session[s].missed, areq[q].copy.pw) = made.pw
        /\ areq[q].copy.pw = made.pw => Newer(session[s].missed, areq[q].copy.pw) = made.pw
    BY <2>1, NewerOf
  <2>4. QED BY <2>1, <2>2, <2>3 DEF SessionRows
<1>7. DOMAIN session' = Sids
  BY DEF ListOthers
<1>8. NumbersFit'
  <2>1. \A s \in Sids : RowFits(session'[s], made.pw)
    BY <1>6 DEF OldInv, NumbersFit, RowFits
  <2>2. r.copy.pw <= made.pw /\ r.pw <= made.pw
    BY <1>3, NumbersNow
  <2>3. QED BY <1>1, <1>5, <1>7, <2>1, <2>2 DEF OldInv, NumbersFit
<1>9. ASSUME ~made'.lost PROVE OldOnesEnd'
  <2>1. SUFFICES ASSUME NEW s \in Sids, Older(session'[s], clock, made.pw)
                 PROVE  Settled(session'[s], made.pw, made.cut) \/ \E p \in Reqs : WillEnd(areq'[p], made.pw, s)
    BY <1>1 DEF OldOnesEnd
  <2>2. Older(session[s], clock, made.pw)
    BY <1>6, <2>1 DEF Older
  <2>3. CASE Settled(session[s], made.pw, made.cut)
    BY <1>6, <2>3 DEF Settled
  <2>4. CASE \E p \in Reqs : p # q /\ WillEnd(areq[p], made.pw, s)
    BY <1>5, <2>4
  <2>5. CASE WillEnd(areq[q], made.pw, s)
    <3>1. areq[q].kind \in {"password", "reset"} /\ areq[q].copy.pw = made.pw
      BY <2>5 DEF WillEnd
    <3>2. CASE s \in L \/ (s = areq[q].sid /\ areq[q].kind = "password")
      <4>1. WillEnd(r, made.pw, s)
        BY <1>3, <3>1, <3>2 DEF WillEnd
      <4>2. QED BY <1>5, <4>1
    <3>3. CASE ~(s \in L \/ (s = areq[q].sid /\ areq[q].kind = "password"))
      <4>1. areq[q].kind = "password" /\ s \notin ListSessions
        BY <1>1, <2>2, <3>1, <3>3 DEF Older
      <4>2. session[s].expires = clock
        <5>1. session[s].expires \in Nat /\ clock \in Nat
          BY NumbersNow DEF OldInv, NumbersFit, RowFits, SessionRows
        <5>2. QED BY <2>2, <4>1, <5>1 DEF Older, ListSessions
      <4>3. s \in MissedBy(q)
        BY <2>2, <4>1, <4>2 DEF MissedBy, Older
      <4>4. QED BY <1>6, <3>1, <4>3 DEF Settled
    <3>4. QED BY <3>2, <3>3
  <2>6. QED BY <1>1, <1>9, <2>2, <2>3, <2>4, <2>5 DEF OldInv, OldOnesEnd
<1>10. ~made'.lost => user'.pw = made'.pw /\ \A p \in Reqs : Answers(areq'[p], made'.pw)
  BY <1>1, <1>3, <1>5 DEF OldInv, Answers
<1>11. QED BY <1>8, <1>9, <1>10 DEF OldInv

\* The end of the list: the session that changed the password is kept.
LEMMA DeleteOthersKeepsOld == ASSUME CodeInv, OldInv, NEW q \in Reqs, DeleteOthers(q) PROVE OldInv'
<1>1. UNCHANGED <<user, made, clock>> /\ areq[q].at = "delete" /\ areq[q].list = {} /\ AuthReply(q)
  BY DEF DeleteOthers, AuthAt
<1>2. ASSUME NEW s \in Sids
      PROVE  /\ session'[s] \in SessionRows /\ session'[s].live = session[s].live
             /\ session'[s].expires = session[s].expires
             /\ session'[s].pw = session[s].pw /\ session'[s].missed = session[s].missed /\ session'[s].late = session[s].late
             /\ session'[s].seen = session[s].seen /\ session'[s].created = session[s].created
             /\ session'[s].kept <= made.pw /\ (session[s].kept = made.pw => session'[s].kept = made.pw)
             /\ s = areq[q].sid /\ areq[q].kind = "password" /\ areq[q].copy.pw = made.pw => session'[s].kept = made.pw
  <2>1. /\ session[s] \in SessionRows /\ session[s].kept <= made.pw /\ session[s].kept \in Nat
        /\ areq[q].copy.pw \in Nat /\ areq[q].copy.pw <= made.pw /\ made.pw \in Nat
    BY NumbersNow DEF OldInv, NumbersFit, RowFits, SessionRows
  <2>2. session'[s] = IF s = areq[q].sid /\ areq[q].kind = "password"
                 THEN [session[s] EXCEPT !.kept = Newer(session[s].kept, areq[q].copy.pw)] ELSE session[s]
    BY DEF DeleteOthers
  <2>3. /\ Newer(session[s].kept, areq[q].copy.pw) \in Nat /\ Newer(session[s].kept, areq[q].copy.pw) <= made.pw
        /\ session[s].kept = made.pw => Newer(session[s].kept, areq[q].copy.pw) = made.pw
        /\ areq[q].copy.pw = made.pw => Newer(session[s].kept, areq[q].copy.pw) = made.pw
    BY <2>1, NewerOf
  <2>4. QED BY <2>1, <2>2, <2>3 DEF SessionRows
<1>3. DOMAIN session' = Sids
  BY DEF DeleteOthers
<1>4. NumbersFit'
  <2>1. \A s \in Sids : RowFits(session'[s], made.pw)
    BY <1>2 DEF OldInv, NumbersFit, RowFits
  <2>2. QED BY <1>1, <1>3, <2>1, RequestGone DEF OldInv, NumbersFit
<1>5. ASSUME ~made'.lost PROVE OldOnesEnd'
  <2>1. SUFFICES ASSUME NEW s \in Sids, Older(session'[s], clock, made.pw)
                 PROVE  Settled(session'[s], made.pw, made.cut) \/ \E p \in Reqs : WillEnd(areq'[p], made.pw, s)
    BY <1>1 DEF OldOnesEnd
  <2>2. Older(session[s], clock, made.pw)
    BY <1>2, <2>1 DEF Older
  <2>3. CASE Settled(session[s], made.pw, made.cut)
    BY <1>2, <2>3 DEF Settled
  <2>4. CASE \E p \in Reqs : p # q /\ WillEnd(areq[p], made.pw, s)
    BY <1>1, <2>4, RequestGone
  <2>5. CASE WillEnd(areq[q], made.pw, s)
    <3>1. session'[s].kept = made.pw
      BY <1>1, <1>2, <2>5 DEF WillEnd
    <3>2. QED BY <3>1 DEF Settled
  <2>6. QED BY <1>1, <1>5, <2>2, <2>3, <2>4, <2>5 DEF OldInv, OldOnesEnd
<1>6. ~made'.lost => user'.pw = made'.pw /\ \A p \in Reqs : Answers(areq'[p], made'.pw)
  BY <1>1, RequestGone DEF OldInv
<1>7. QED BY <1>4, <1>5, <1>6 DEF OldInv

\* One of the list is deleted, or is known to have been missed, or the request says that it failed.
LEMMA DeleteOneKeepsOld ==
    ASSUME CodeInv, OldInv, NEW q \in Reqs, NEW x \in Sids, DeleteOne(q, x) PROVE OldInv'
<1>1. UNCHANGED <<user, made, clock>> /\ areq[q].at = "delete"
  BY DEF DeleteOne, AuthAt
<1>2. CASE areq[q].kind \in {"revokeOthers", "revokeOne"} /\ AuthReply(q) /\ UNCHANGED session
  BY <1>1, <1>2, NumbersNow, RequestIsDone DEF ChangesPassword
<1>3. CASE areq' = [areq EXCEPT ![q].list = @ \ {x}]
           /\ (DeleteSessions({x}) \/ (areq[q].kind = "password"
                  /\ session' = [session EXCEPT ![x].missed = Newer(@, areq[q].copy.pw)]))
  <2> DEFINE r == [areq[q] EXCEPT !.list = areq[q].list \ {x}]
  <2>1. /\ r \in ReqRecords /\ r.copy = areq[q].copy /\ r.late = areq[q].late /\ r.pw = areq[q].pw /\ r.at = areq[q].at
        /\ r.kind = areq[q].kind /\ r.sid = areq[q].sid /\ r.list = areq[q].list \ {x}
    BY TypesNow DEF ReqRecords
  <2>2. areq' = [areq EXCEPT ![q] = r]
    BY <1>3
  <2> HIDE DEF r
  <2>3. areq'[q] = r /\ \A p \in Reqs : p # q => areq'[p] = areq[p]
    BY <2>2 DEF CodeInv, AuthTypes
  <2>4. DOMAIN session = Sids /\ DOMAIN session' = Sids
    BY <1>3 DEF OldInv, NumbersFit, DeleteSessions
  <2>5. ASSUME NEW s \in Sids
        PROVE  /\ session'[s] \in SessionRows /\ (session'[s].live => session[s].live)
               /\ session'[s].expires = session[s].expires
               /\ session'[s].pw = session[s].pw /\ session'[s].kept = session[s].kept /\ session'[s].late = session[s].late
               /\ session'[s].seen = session[s].seen /\ session'[s].created = session[s].created
               /\ session'[s].missed <= made.pw /\ (session[s].missed = made.pw => session'[s].missed = made.pw)
               /\ s = x /\ session'[s].live /\ areq[q].copy.pw = made.pw => session'[s].missed = made.pw
    <3>1. /\ session[s] \in SessionRows /\ session[s].missed <= made.pw /\ session[s].missed \in Nat
          /\ areq[q].copy.pw \in Nat /\ areq[q].copy.pw <= made.pw /\ made.pw \in Nat
      BY NumbersNow DEF OldInv, NumbersFit, RowFits, SessionRows
    <3>2. /\ Newer(session[s].missed, areq[q].copy.pw) \in Nat /\ Newer(session[s].missed, areq[q].copy.pw) <= made.pw
          /\ session[s].missed = made.pw => Newer(session[s].missed, areq[q].copy.pw) = made.pw
          /\ areq[q].copy.pw = made.pw => Newer(session[s].missed, areq[q].copy.pw) = made.pw
      BY <3>1, NewerOf
    <3>3. CASE DeleteSessions({x})
      <4>1. session'[s] = IF s = x THEN [session[s] EXCEPT !.live = FALSE] ELSE session[s]
        BY <3>3 DEF DeleteSessions
      <4>2. QED BY <3>1, <4>1 DEF SessionRows
    <3>4. CASE session' = [session EXCEPT ![x].missed = Newer(@, areq[q].copy.pw)]
      <4>1. session'[s] = IF s = x THEN [session[s] EXCEPT !.missed = Newer(session[s].missed, areq[q].copy.pw)]
                          ELSE session[s]
        BY <2>4, <3>4
      <4>2. QED BY <3>1, <3>2, <4>1 DEF SessionRows
    <3>5. QED BY <1>3, <3>3, <3>4
  <2>6. NumbersFit'
    <3>1. \A s \in Sids : RowFits(session'[s], made.pw)
      BY <2>5 DEF OldInv, NumbersFit, RowFits
    <3>2. r.copy.pw <= made.pw /\ r.pw <= made.pw
      BY <2>1, NumbersNow
    <3>3. QED BY <1>1, <2>3, <2>4, <3>1, <3>2 DEF OldInv, NumbersFit
  <2>7. ASSUME ~made'.lost PROVE OldOnesEnd'
    <3>1. SUFFICES ASSUME NEW s \in Sids, Older(session'[s], clock, made.pw)
                   PROVE  Settled(session'[s], made.pw, made.cut) \/ \E p \in Reqs : WillEnd(areq'[p], made.pw, s)
      BY <1>1 DEF OldOnesEnd
    <3>2. Older(session[s], clock, made.pw) /\ session'[s].live
      BY <2>5, <3>1 DEF Older
    <3>3. CASE Settled(session[s], made.pw, made.cut)
      BY <2>5, <3>3 DEF Settled
    <3>4. CASE \E p \in Reqs : p # q /\ WillEnd(areq[p], made.pw, s)
      BY <2>3, <3>4
    <3>5. CASE WillEnd(areq[q], made.pw, s)
      <4>1. CASE s = x
        <5>1. session'[s].missed = made.pw
          BY <2>5, <3>2, <3>5, <4>1 DEF WillEnd
        <5>2. QED BY <5>1 DEF Settled
      <4>2. CASE s # x
        <5>1. WillEnd(r, made.pw, s)
          BY <2>1, <3>5, <4>2 DEF WillEnd
        <5>2. QED BY <2>3, <5>1
      <4>3. QED BY <4>1, <4>2
    <3>6. QED BY <1>1, <2>7, <3>2, <3>3, <3>4, <3>5 DEF OldInv, OldOnesEnd
  <2>8. ~made'.lost => user'.pw = made'.pw /\ \A p \in Reqs : Answers(areq'[p], made'.pw)
    BY <1>1, <2>1, <2>3 DEF OldInv, Answers
  <2>9. QED BY <2>6, <2>7, <2>8 DEF OldInv
<1>4. QED BY <1>2, <1>3 DEF DeleteOne

\* A change of the password that is cut short, and says so, leaves its number.
LEMMA CutShortKeepsOld ==
    ASSUME CodeInv, OldInv, NEW q \in Reqs, AuthReply(q), UNCHANGED <<user, clock, session>>,
           made' = [made EXCEPT !.cut = Newer(@, areq[q].copy.pw)]
    PROVE  OldInv'
<1> DEFINE n == Newer(made.cut, areq[q].copy.pw)
<1>1. /\ n \in Nat /\ n <= made.pw /\ (made.cut = made.pw => n = made.pw)
      /\ (areq[q].copy.pw = made.pw => n = made.pw)
  <2>1. made.cut \in Nat /\ made.cut <= made.pw
    BY NumbersNow DEF MadeRecords, OldInv, NumbersFit
  <2>2. QED BY <2>1, NumbersNow, NewerOf
<1>2. made' = [made EXCEPT !.cut = n]
  OBVIOUS
<1> HIDE DEF n
<1>3. made'.pw = made.pw /\ made'.lost = made.lost /\ made'.cut = n
  BY <1>2, NumbersNow DEF MadeRecords
<1>4. NumbersFit'
  BY <1>1, <1>3, RequestGone DEF OldInv, NumbersFit
<1>5. ASSUME ~made'.lost PROVE OldOnesEnd'
  <2>1. SUFFICES ASSUME NEW s \in Sids, Older(session[s], clock, made.pw)
                 PROVE  Settled(session[s], made.pw, n) \/ \E p \in Reqs : WillEnd(areq'[p], made.pw, s)
    BY <1>3 DEF OldOnesEnd
  <2>2. CASE Settled(session[s], made.pw, made.cut)
    BY <1>1, <2>2 DEF Settled
  <2>3. CASE \E p \in Reqs : p # q /\ WillEnd(areq[p], made.pw, s)
    BY <2>3, RequestGone
  <2>4. CASE WillEnd(areq[q], made.pw, s)
    BY <1>1, <2>4 DEF WillEnd, Settled
  <2>5. QED BY <1>3, <1>5, <2>1, <2>2, <2>3, <2>4 DEF OldInv, OldOnesEnd
<1>6. ~made'.lost => user'.pw = made'.pw /\ \A p \in Reqs : Answers(areq'[p], made'.pw)
  BY <1>3, RequestGone DEF OldInv
<1>7. QED BY <1>4, <1>5, <1>6 DEF OldInv

\* A reset ends every session, or says that it could not.
LEMMA DeleteUserSessionsKeepsOld == ASSUME CodeInv, OldInv, NEW q \in Reqs, DeleteUserSessions(q) PROVE OldInv'
<1>1. UNCHANGED <<user, clock>> /\ areq[q].at = "list" /\ areq[q].kind = "reset" /\ AuthReply(q)
  BY DEF DeleteUserSessions, AuthAt
<1>2. CASE DeleteSessions(Sids) /\ UNCHANGED made
  <2>1. DOMAIN session' = Sids /\ \A s \in Sids : session'[s] = [session[s] EXCEPT !.live = FALSE]
    BY <1>2 DEF DeleteSessions
  <2>2. \A s \in Sids : RowFits(session'[s], made.pw) /\ ~session'[s].live
    BY <2>1 DEF OldInv, NumbersFit, RowFits, SessionRows
  <2>3. NumbersFit'
    BY <1>1, <1>2, <2>1, <2>2, RequestGone DEF OldInv, NumbersFit
  <2>4. OldOnesEnd'
    BY <2>2 DEF OldOnesEnd, Older
  <2>5. ~made'.lost => user'.pw = made'.pw /\ \A p \in Reqs : Answers(areq'[p], made'.pw)
    BY <1>1, <1>2, RequestGone DEF OldInv
  <2>6. QED BY <2>3, <2>4, <2>5 DEF OldInv
<1>3. CASE UNCHANGED session /\ made' = [made EXCEPT !.cut = Newer(@, areq[q].copy.pw)]
  BY <1>1, <1>3, CutShortKeepsOld
<1>4. QED BY <1>2, <1>3 DEF DeleteUserSessions

\* One session is looked up and ended.
LEMMA RevokeOneKeepsOld == ASSUME CodeInv, OldInv, NEW q \in Reqs, RevokeOne(q) PROVE OldInv'
<1>1. PICK s \in ListSessions : areq' = [areq EXCEPT ![q].at = "delete", ![q].list = {s}]
  BY DEF RevokeOne
<1>2. UNCHANGED <<user, made, clock, session>> /\ areq[q].at = "list" /\ areq[q].kind = "revokeOne"
  BY DEF RevokeOne, AuthAt
<1> DEFINE r == [areq[q] EXCEPT !.at = "delete", !.list = {s}]
<1>3. r \in ReqRecords /\ r.copy = areq[q].copy /\ r.late = areq[q].late /\ r.pw = areq[q].pw
  <2>1. {s} \in SUBSET Nat
    BY SessionFacts DEF ListSessions
  <2>2. QED BY <2>1, TypesNow DEF ReqRecords, AuthPlaces
<1>4. areq' = [areq EXCEPT ![q] = r]
  BY <1>1
<1> HIDE DEF r
<1>5. QED BY <1>2, <1>3, <1>4, NumbersNow, WithItsCopy, OnlyRequests DEF ChangesPassword

\* A browser that goes away during a password change leaves its number.
LEMMA DisconnectKeepsOld == ASSUME CodeInv, OldInv, NEW q \in Reqs, Disconnect(q) PROVE OldInv'
<1>1. UNCHANGED <<user, clock, session>> /\ AuthReply(q)
  BY DEF Disconnect
<1>2. CASE ~ChangesPassword(q)
  <2>1. made' = made
    BY <1>2 DEF Disconnect
  <2>2. QED BY <1>1, <1>2, <2>1, NumbersNow, RequestIsDone
<1>3. CASE ChangesPassword(q)
  BY <1>1, <1>3, CutShortKeepsOld DEF Disconnect
<1>4. QED BY <1>2, <1>3

LEMMA AuthStepKeepsOld == CodeInv /\ OldInv /\ [AuthNext]_authVars => OldInv'
<1> SUFFICES ASSUME CodeInv, OldInv, [AuthNext]_authVars PROVE OldInv'
  OBVIOUS
<1>1. ASSUME NEW q \in Reqs, Login(q) \/ LoginRead(q) \/ EnterHash(q) \/ Verify(q) \/ SpendSecondFactor(q)
                \/ RecordLoginFailure(q) \/ Rehash(q) \/ IssueSession(q) \/ SSOCallback(q) PROVE OldInv'
  BY <1>1, LoginKeepsOld, LoginReadKeepsOld, SignInKeepsOld, RehashKeepsOld, IssueSessionKeepsOld, SSOCallbackKeepsOld
<1>2. ASSUME NEW q \in Reqs, NEW s \in Sids, NEW kind \in AuthKinds, Authenticate(q, s, kind) PROVE OldInv'
  BY <1>2, AuthenticateKeepsOld
<1>3. ASSUME NEW q \in Reqs, NEW t \in tokens, NEW kind \in AuthKinds, AuthenticateToken(q, t, kind) PROVE OldInv'
  BY <1>3, AuthenticateTokenKeepsOld
<1>4. ASSUME NEW q \in Reqs, MarkReauthenticated(q) \/ ChangePassword(q) \/ UpdateMe(q) \/ SetupTOTP(q)
                \/ StoreRecoveryCodes(q) \/ ConfirmTOTP(q) \/ TurnOnTOTP(q) \/ DisableTOTP(q)
                \/ ForgetRecoveryCodes(q) \/ ListOthers(q) \/ RevokeOne(q) \/ Logout(q) \/ DeleteOthers(q)
                \/ (\E s \in Sids : DeleteOne(q, s)) \/ DeleteUserSessions(q) \/ ResetRead(q) \/ ResetPassword(q)
                \/ CreateAPIToken(q) \/ Disconnect(q) PROVE OldInv'
  BY <1>4, MarkReauthenticatedKeepsOld, PasswordsKeepOld, SavesKeepOld, SetupTOTPKeepsOld, CodeStepsKeepOld,
     ListOthersKeepsOld, RevokeOneKeepsOld, LogoutKeepsOld, DeleteOthersKeepsOld, DeleteOneKeepsOld, DeleteUserSessionsKeepsOld,
     ResetReadKeepsOld, DisconnectKeepsOld
<1>5. ASSUME \/ \E s \in Sids : Refuse(s)
             \/ \E t \in tokens : RevokeToken(t)
             \/ PurgeExpiredSessions \/ AdministratorDisables \/ AuthTick \/ UNCHANGED authVars PROVE OldInv'
  BY <1>5, OthersKeepOld
<1>6. QED BY <1>1, <1>2, <1>3, <1>4, <1>5 DEF AuthNext

LEMMA OldInvariant == AuthSpec => [](CodeInv /\ OldInv)
BY CodesStart, SessionsStart, AuthStepKeepsCodes, AuthStepKeepsOld, PTL DEF AuthSpec

(* A password change ends the sessions of the passwords before it, at      *)
(* whatever instant of another sign-in, change, reset or save it comes     *)
(* (ChangePassword lists after it has written): what is left of them once  *)
(* it has gone through is the session that asked, sign-ins that were in    *)
(* progress at the write, sessions whose deletion was refused, and those   *)
(* whose time was up at the instant of the list, which GetSessionByHash    *)
(* still accepts and ListSessions no longer shows.                         *)
THEOREM OldSessionsEnd == AuthSpec => []NoOldSessions
<1>1. CodeInv /\ OldInv => NoOldSessions
  <2> SUFFICES ASSUME CodeInv, OldInv, ~made.lost, NEW s \in Sids, session[s].live, ~Expired(s), session[s].pw < user.pw
               PROVE  Excused(s) \/ \E q \in Reqs : ChangesPassword(q) /\ areq[q].copy.pw = user.pw
    BY DEF NoOldSessions
  <2>1. user.pw = made.pw /\ OldOnesEnd
    BY DEF OldInv
  <2>2. session[s].expires \in Nat /\ clock \in Nat
    BY NumbersNow DEF OldInv, NumbersFit, RowFits, SessionRows
  <2>3. Older(session[s], clock, made.pw)
    BY <2>1, <2>2 DEF Older, Expired
  <2>4. QED BY <2>1, <2>3 DEF OldOnesEnd, Settled, Excused, WillEnd, ChangesPassword
<1>2. QED BY <1>1, OldInvariant, PTL

(* However often a session is used, it was never used past its ceiling     *)
(* (Authenticate).                                                         *)
THEOREM SessionsHaveACeiling == AuthSpec => []SessionCeiling
<1>1. OldInv => SessionCeiling
  BY DEF OldInv, NumbersFit, RowFits, SessionCeiling, Deadline
<1>2. QED BY <1>1, OldInvariant, PTL
=============================================================================
