------------------------------- MODULE Teams --------------------------------
(***************************************************************************)
(* Who is on the panel: first-run setup (api/setup.go), teams and their    *)
(* members (api/teams_handlers.go, store/teams.go) and invitations         *)
(* (api/invitation_handlers.go, store/invitations.go).                     *)
(*                                                                         *)
(* A handler is one statement after another: what it checked may no longer *)
(* be so when it writes.  Setup also holds a flag and a count in memory.   *)
(***************************************************************************)
EXTENDS Naturals, FiniteSets

CONSTANTS
    People,           \* addresses, with or without an account
    TeamIds,          \* team slugs
    Callers,          \* the requests that may be in progress at once
    MaxInvitations,   \* bound: invitations ever made
    MaxSetupAttempts, \* maxSetupAttempts
    TeamMixes         \* what a behaviour meets

TeamKinds == {"setup", "create", "add", "remove", "invite", "revoke", "accept"}

ASSUME TeamMixesAssumption ==
    /\ TeamMixes \subseteq [kinds : SUBSET TeamKinds, faults : BOOLEAN, overlap : BOOLEAN,
                            calls : Nat, owners : SUBSET People]
    /\ MaxInvitations \in Nat /\ MaxSetupAttempts \in Nat
    /\ TeamIds # {} /\ "none" \notin People \cup TeamIds

VARIABLES
    account,    \* the users rows
    admins,     \* the ones with is_admin
    team,       \* the teams rows
    role,       \* role[t][p]: the memberships rows
    invitation, \* invitation[i]: the team_invitations rows
    setup,      \* setupState: completed, attempts
    call,       \* call[q]: a request in progress
    calls,      \* how many there have been
    tmix

teamVars == <<account, admins, team, role, invitation, setup, call, calls, tmix>>

Ranks == [none |-> 0, member |-> 1, admin |-> 2, owner |-> 3]
Roles == {"member", "admin", "owner"}
AtLeast(have, want) == Ranks[have] >= Ranks[want]

Invitations == 1..MaxInvitations
NoInvitation == [state |-> "none", t |-> "none", p |-> "none", role |-> "none"]
NoCall == [kind |-> "none", at |-> "off", by |-> "none", t |-> "none", p |-> "none",
           role |-> "none", i |-> 0]

Owners(t) == {p \in People : role[t][p] = "owner"}
CountOwners(t) == Cardinality(Owners(t))

-----------------------------------------------------------------------------
(* The statements.                                                         *)

CreateUser_AdminOnly(p, admin) == /\ account' = account  \* mutant: the insert is lost
                                  /\ admins' = IF admin THEN admins \cup {p} ELSE admins
CreateUser(p, admin) == /\ account' = account \cup {p}
                        /\ admins' = IF admin THEN admins \cup {p} ELSE admins
CreateTeam(t) == team' = team \cup {t}
AddMember(t, p, r) == role' = [role EXCEPT ![t][p] = r]
RemoveMember(t, p) == role' = [role EXCEPT ![t][p] = "none"]

\* CreateInvitation replaces the pending one to the same address.
CreateInvitation(i, t, p, r) ==
    invitation' = [j \in Invitations |->
        IF j = i THEN [state |-> "open", t |-> t, p |-> p, role |-> r]
        ELSE IF /\ invitation[j].t = t /\ invitation[j].p = p
                /\ invitation[j].state \in {"open", "expired"}
             THEN [invitation[j] EXCEPT !.state = "gone"] ELSE invitation[j]]

DeleteInvitation(i) == invitation' = [invitation EXCEPT ![i].state = "gone"]

\* AcceptInvitation: marked and joined in one transaction, or neither.
Acceptable(i) == invitation[i].state \in {"open", "expired"}
AcceptInvitation(i, p) ==
    /\ invitation' = [invitation EXCEPT ![i].state = "accepted"]
    /\ AddMember(invitation[i].t, p, invitation[i].role)

-----------------------------------------------------------------------------
TeamInit ==
    /\ tmix \in TeamMixes
    /\ account = tmix.owners /\ admins = {}
    /\ team = IF tmix.owners = {} THEN {} ELSE {CHOOSE t \in TeamIds : TRUE}
    /\ role = [t \in TeamIds |-> [p \in People |->
                    IF t \in team /\ p \in tmix.owners THEN "owner" ELSE "none"]]
    /\ invitation = [i \in Invitations |-> NoInvitation]
    /\ setup = [completed |-> FALSE, attempts |-> 0]
    /\ call = [q \in Callers |-> NoCall] /\ calls = 0

Quiet(q) == call[q] = NoCall
MayCall(q, kind) == /\ Quiet(q) /\ kind \in tmix.kinds /\ calls < tmix.calls /\ calls' = calls + 1
                    /\ ~tmix.overlap => \A p \in Callers : Quiet(p)
CallAt(q, kind, where) == call[q].kind = kind /\ call[q].at = where
CallGo(q, where) == call' = [call EXCEPT ![q].at = where]
CallEnds(q) == call' = [call EXCEPT ![q] = NoCall]
CallBegins(q, c) == call' = [call EXCEPT ![q] = c]

-----------------------------------------------------------------------------
(* First-run setup.                                                        *)

\* setupState.check, after the users have been counted.
SetupDone_FlagOnly == setup.completed  \* mutant: the rows are not counted
SetupDone == setup.completed \/ account # {}

SetupCheck(q, p, t, right) ==
    /\ MayCall(q, "setup")
    /\ setup.attempts < MaxSetupAttempts \/ SetupDone
    /\ LET good == ~SetupDone /\ right
       IN  /\ setup' = [completed |-> SetupDone,
                        attempts |-> setup.attempts + IF SetupDone \/ right THEN 0 ELSE 1]
           /\ IF good THEN CallBegins(q, [NoCall EXCEPT !.kind = "setup", !.at = "user",
                                                        !.by = p, !.t = t])
              ELSE UNCHANGED call
    /\ UNCHANGED <<account, admins, team, role, invitation, tmix>>

SetupUser(q) ==
    /\ CallAt(q, "setup", "user")
    /\ IF call[q].by \in account THEN CallEnds(q) /\ UNCHANGED <<account, admins>>
       ELSE CreateUser(call[q].by, TRUE) /\ CallGo(q, "team")
    /\ UNCHANGED <<team, role, invitation, setup, calls, tmix>>

(* handleCreateTeam, and setup's: the row, then its owner.                 *)
CreateTeamRow(q) ==
    /\ call[q].kind \in {"setup", "create"} /\ call[q].at = "team"
    /\ IF call[q].t \in team THEN CallEnds(q) /\ UNCHANGED team
       ELSE CreateTeam(call[q].t) /\ CallGo(q, "owner")
    /\ UNCHANGED <<account, admins, role, invitation, setup, calls, tmix>>

CreateTeamOwner(q) ==
    /\ call[q].kind \in {"setup", "create"} /\ call[q].at = "owner"
    /\ AddMember(call[q].t, call[q].by, "owner")
    /\ IF call[q].kind = "setup" THEN CallGo(q, "finish") ELSE CallEnds(q)
    /\ UNCHANGED <<account, admins, team, invitation, setup, calls, tmix>>

\* The first project and environment, the flag, the token file, a session.
SetupFinish(q) ==
    /\ CallAt(q, "setup", "finish")
    /\ setup' = [setup EXCEPT !.completed = TRUE] /\ CallEnds(q)
    /\ UNCHANGED <<account, admins, team, role, invitation, calls, tmix>>

AskCreateTeam(q, p, t) ==
    /\ MayCall(q, "create") /\ p \in account
    /\ CallBegins(q, [NoCall EXCEPT !.kind = "create", !.at = "team", !.by = p, !.t = t])
    /\ UNCHANGED <<account, admins, team, role, invitation, setup, tmix>>

-----------------------------------------------------------------------------
(* Members and invitations: authorizeTeam, the checks, the write.          *)

AuthorizeTeam(q, kind, p, t) ==
    /\ MayCall(q, kind) /\ kind \in {"add", "remove", "invite", "revoke"}
    /\ p \in account /\ AtLeast(role[t][p], "admin")
    /\ \E target \in People, r \in Roles, i \in Invitations :
        /\ kind # "revoke" => i = 1
        /\ kind = "revoke" => target = p /\ invitation[i].t = t
        /\ kind \notin {"add", "invite"} => r = "member"
        /\ CallBegins(q, [kind |-> kind, at |-> "check", by |-> p, t |-> t, p |-> target,
                          role |-> r, i |-> i])
    /\ UNCHANGED <<account, admins, team, role, invitation, setup, tmix>>

\* handleAddMember: no role above one's own, and never the last owner demoted.
MayAdd(c) == /\ AtLeast(role[c.t][c.by], c.role) /\ c.p \in account
             /\ role[c.t][c.p] = "owner" /\ c.role # "owner" => CountOwners(c.t) > 1

\* handleRemoveMember: never the last owner, and an owner only by an owner.
MayRemove_Any(c) == role[c.t][c.p] # "none"  \* mutant
MayRemove(c) == /\ role[c.t][c.p] # "none"
                /\ role[c.t][c.p] = "owner" => CountOwners(c.t) > 1 /\ role[c.t][c.by] = "owner"

\* handleInvite: only an address that has no account yet.
MayInvite(c) == AtLeast(role[c.t][c.by], c.role) /\ c.p \notin account

CheckCall(q) ==
    /\ call[q].at = "check" /\ call[q].kind \in {"add", "remove", "invite", "revoke"}
    /\ LET c == call[q]
           good == CASE c.kind = "add" -> MayAdd(c) [] c.kind = "remove" -> MayRemove(c)
                     [] c.kind = "invite" -> MayInvite(c) [] OTHER -> TRUE
       IN  IF good THEN CallGo(q, "write") ELSE CallEnds(q)
    /\ UNCHANGED <<account, admins, team, role, invitation, setup, calls, tmix>>

HandleAddMember(q) ==
    /\ CallAt(q, "add", "write")
    /\ AddMember(call[q].t, call[q].p, call[q].role) /\ CallEnds(q)
    /\ UNCHANGED <<account, admins, team, invitation, setup, calls, tmix>>

HandleRemoveMember(q) ==
    /\ CallAt(q, "remove", "write")
    /\ RemoveMember(call[q].t, call[q].p) /\ CallEnds(q)
    /\ UNCHANGED <<account, admins, team, invitation, setup, calls, tmix>>

HandleInvite(q) ==
    /\ CallAt(q, "invite", "write")
    /\ \E i \in Invitations :
        /\ invitation[i].state = "none" /\ \A j \in Invitations : j < i => invitation[j].state # "none"
        /\ CreateInvitation(i, call[q].t, call[q].p, call[q].role)
    /\ CallEnds(q)
    /\ UNCHANGED <<account, admins, team, role, setup, calls, tmix>>

HandleRevokeInvitation(q) ==
    /\ CallAt(q, "revoke", "write")
    /\ DeleteInvitation(call[q].i) /\ CallEnds(q)
    /\ UNCHANGED <<account, admins, team, role, setup, calls, tmix>>

\* invitationFrom: neither expired nor used nor withdrawn; no account yet.
InvitationFrom(q, i) ==
    /\ MayCall(q, "accept")
    /\ invitation[i].state = "open" /\ invitation[i].p \notin account
    /\ CallBegins(q, [NoCall EXCEPT !.kind = "accept", !.at = "user", !.p = invitation[i].p, !.i = i])
    /\ UNCHANGED <<account, admins, team, role, invitation, setup, tmix>>

AcceptUser_Existing(q) ==  \* mutant: an account that is there already is taken for the new one
    /\ CallAt(q, "accept", "user")
    /\ CreateUser(call[q].p, FALSE) /\ CallGo(q, "join")
    /\ UNCHANGED <<team, role, invitation, setup, calls, tmix>>
AcceptUser(q) ==
    /\ CallAt(q, "accept", "user")
    /\ IF call[q].p \in account THEN CallEnds(q) /\ UNCHANGED <<account, admins>>
       ELSE CreateUser(call[q].p, FALSE) /\ CallGo(q, "join")
    /\ UNCHANGED <<team, role, invitation, setup, calls, tmix>>

HandleAcceptInvitation(q) ==
    /\ CallAt(q, "accept", "join")
    /\ IF Acceptable(call[q].i) THEN AcceptInvitation(call[q].i, call[q].p)
       ELSE UNCHANGED <<role, invitation>>
    /\ CallEnds(q)
    /\ UNCHANGED <<account, admins, team, setup, calls, tmix>>

-----------------------------------------------------------------------------
\* A week passes.
InvitationExpires(i) ==
    /\ tmix.faults /\ invitation[i].state = "open"
    /\ invitation' = [invitation EXCEPT ![i].state = "expired"]
    /\ UNCHANGED <<account, admins, team, role, setup, call, calls, tmix>>

\* The browser goes away between two statements.
CallCut(q) ==
    /\ tmix.faults /\ ~Quiet(q) /\ CallEnds(q)
    /\ UNCHANGED <<account, admins, team, role, invitation, setup, calls, tmix>>

\* The panel restarts: newSetupState, from the token file that is still there.
PanelRestarts ==
    /\ tmix.faults /\ setup # [completed |-> FALSE, attempts |-> 0]
    /\ setup' = [completed |-> FALSE, attempts |-> 0]
    /\ call' = [q \in Callers |-> NoCall]
    /\ UNCHANGED <<account, admins, team, role, invitation, calls, tmix>>

TeamNext ==
    \/ \E q \in Callers :
        \/ \E p \in People, t \in TeamIds :
            \/ \E right \in BOOLEAN : SetupCheck(q, p, t, right)
            \/ AskCreateTeam(q, p, t)
            \/ \E kind \in TeamKinds : AuthorizeTeam(q, kind, p, t)
        \/ SetupUser(q) \/ CreateTeamRow(q) \/ CreateTeamOwner(q) \/ SetupFinish(q)
        \/ CheckCall(q) \/ HandleAddMember(q) \/ HandleRemoveMember(q) \/ HandleInvite(q)
        \/ HandleRevokeInvitation(q) \/ AcceptUser(q) \/ HandleAcceptInvitation(q) \/ CallCut(q)
        \/ \E i \in Invitations : InvitationFrom(q, i)
    \/ \E i \in Invitations : InvitationExpires(i)
    \/ PanelRestarts

TeamSpec == TeamInit /\ [][TeamNext]_teamVars

-----------------------------------------------------------------------------
TeamTypeOK ==
    /\ account \subseteq People /\ admins \subseteq account /\ team \subseteq TeamIds
    /\ role \in [TeamIds -> [People -> Roles \cup {"none"}]]
    /\ invitation \in [Invitations -> [state : {"none", "open", "expired", "accepted", "gone"},
                         t : TeamIds \cup {"none"}, p : People \cup {"none"}, role : Roles \cup {"none"}]]
    /\ setup \in [completed : BOOLEAN, attempts : 0..MaxSetupAttempts]

(* Requests one at a time, cut short or not: a team that has members has   *)
(* an owner, whatever was demoted, removed or invited.                     *)
TeamKeepsAnOwner ==
    ~tmix.overlap => \A t \in team : (\E p \in People : role[t][p] # "none") => Owners(t) # {}

(* Setup makes one administrator, across restarts, with a restart or a     *)
(* lost connection anywhere in it (one request at a time).                 *)
SetupMakesOneAdmin == ~tmix.overlap => Cardinality(admins) <= 1

(* A comment in handleSetupComplete says that two concurrent setup         *)
(* requests cannot both create an owner.                                   *)
SetupMakesOneAdminEver == Cardinality(admins) <= 1

(* CountOwners says that the last owner cannot be removed or demoted.      *)
TeamAlwaysKeepsAnOwner ==
    \A t \in team : (\E p \in People : role[t][p] # "none") => Owners(t) # {}

(* Whatever overlaps: an address comes in through one invitation, and      *)
(* there is an account behind one that is taken.  Several may be open for  *)
(* it, to several teams, and two of them or one of them twice be taken at  *)
(* once: the account is made in between (handleAcceptInvitation), and who  *)
(* finds it made does not join.                                            *)
OneInvitationEach ==
    \A i \in Invitations : invitation[i].state = "accepted" =>
        /\ invitation[i].p \in account
        /\ \A j \in Invitations : invitation[j].state = "accepted" /\ invitation[j].p = invitation[i].p => j = i
=============================================================================
