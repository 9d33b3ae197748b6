------------------------------ MODULE MCAccess ------------------------------
(***************************************************************************)
(* Who is let in: accounts (Auth), people (Teams) and servers (Provision), *)
(* each on its own small instance; a behaviour is of one part and meets    *)
(* one mix of requests and faults.                                         *)
(***************************************************************************)
EXTENDS Auth, Teams, Provision

VARIABLE part

AMix(kinds, faults, overlap, second, asks, until) ==
    [until |-> until, kinds |-> kinds, faults |-> faults, overlap |-> overlap, secondFactor |-> second, asks |-> asks]
AuthMixesMC == {
    AMix({"login", "reauth"}, {"clock"}, TRUE, TRUE, 3, 1),
    AMix({"login", "password", "sso", "profile", "revokeOthers", "revokeOne",
          "logout", "reset"},
         {"disable"}, TRUE, FALSE, 3, 1),
    AMix({"profile", "startTOTP", "confirmTOTP", "disableTOTP", "password"},
         {"clock"}, FALSE, TRUE, 3, 2),
    AMix(AuthKinds, {"clock", "disconnect", "refusal"}, FALSE, FALSE, 3, 3)}

TMix(kinds, faults, overlap, n, owners) ==
    [kinds |-> kinds, faults |-> faults, overlap |-> overlap, calls |-> n, owners |-> owners]
TeamMixesMC == {
    TMix({"setup", "create"}, TRUE, FALSE, 4, {}),
    TMix({"setup", "create"}, FALSE, TRUE, 3, {}),
    TMix({"add", "remove", "invite", "accept", "revoke"}, TRUE, FALSE, 4, {"ann", "bob"}),
    TMix({"invite", "accept", "revoke", "add"}, FALSE, TRUE, 4, {"ann"}),
    TMix({"create", "invite", "accept"}, FALSE, TRUE, 5, {"ann"}),
    TMix({"add", "remove"}, FALSE, TRUE, 3, {"ann", "bob"})}

\* One attempt and its retries: cancelled, out of time, renamed, panicking.
Cancelled ==
    [calls |-> {"add", "retry", "cancel"}, faults |-> {"disconnect"}, ops |-> 1, overlap |-> TRUE]
Late ==
    [calls |-> {"add", "retry"}, faults |-> {"timeout", "restart"}, ops |-> 1, overlap |-> FALSE]
Renamed ==
    [calls |-> {"add", "retry", "rename"}, faults |-> {}, ops |-> 1, overlap |-> FALSE]
Panicking ==
    [calls |-> {"add", "retry"}, faults |-> {"panic"}, ops |-> 1, overlap |-> TRUE]

\* Operations of several kinds, each asked for when the last is over.
OneAfterAnother ==
    [calls |-> {"add", "retry", "remove", "promote", "rename"}, faults |-> {"restart"},
     ops |-> 2, overlap |-> FALSE]
Unretried ==
    [calls |-> {"add", "remove", "promote"}, faults |-> {"restart", "disconnect", "timeout"},
     ops |-> 2, overlap |-> FALSE]

\* The same, at once.
AtOnce ==
    [calls |-> {"add", "remove", "promote"}, faults |-> {}, ops |-> 2, overlap |-> TRUE]

Together == {Cancelled, Late, Renamed, Panicking, OneAfterAnother, Unretried, AtOnce}

AnyOf(S) == CHOOSE x \in S : TRUE

AccessInit ==
    /\ part \in {"auth", "teams", "servers"}
    /\ AuthInit /\ TeamInit /\ Init
    /\ part # "teams" => tmix = AnyOf(TeamMixes)
    /\ part # "auth" => amix = AnyOf(AuthMixes) /\ ~user.old
    /\ part # "servers" => mix = AnyOf(Mixes)
AccessNext ==
    \/ part = "auth" /\ AuthNext /\ UNCHANGED <<teamVars, vars, part>>
    \/ part = "teams" /\ TeamNext /\ UNCHANGED <<authVars, vars, part>>
    \/ part = "servers" /\ Next /\ UNCHANGED <<authVars, teamVars, part>>
AccessSpec == AccessInit /\ [][AccessNext]_<<authVars, teamVars, vars, part>>

\* The servers alone with the fairness of Provision, for what is said of the limit.
LateMixMC == {Late}
ServersFair ==
    /\ AccessSpec /\ part = "servers"
    /\ \A q \in Requests : WF_vars(part = "servers" /\ Serve(q))
    /\ \A o \in Ops : WF_vars(part = "servers" /\ Run(o))
=============================================================================
