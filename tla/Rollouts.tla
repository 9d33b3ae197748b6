------------------------------- MODULE Rollouts -------------------------------
(***************************************************************************)
(* What the deployer promises of an app's versions: each has its turn, in  *)
(* the order of their numbers; it sets out when nobody else is on the way; *)
(* only the one on its way gets to the cluster, and it is recorded as a    *)
(* success while the cluster carries it.  Where settings are synced, a     *)
(* version that succeeded may be put back, also over a newer one.          *)
(***************************************************************************)
EXTENDS Naturals

CONSTANTS
    Versions, \* the numbers a version may have, all above 0
    Settings, \* what a version may run with
    Resyncs   \* whether versions that succeeded are put back

VARIABLES
    turns,    \* the versions that have had their turn
    heading,  \* the version on its way, if there is one
    version,  \* what the cluster carries, 0 while there is nothing
    settings, \* and what it runs with
    reached,  \* every version the cluster ever carried
    succeeded \* the versions recorded as a success

rolloutVars == <<turns, heading, version, settings, reached, succeeded>>

RolloutsInit ==
    /\ turns = {} /\ heading = {}
    /\ version = 0 /\ settings \in Settings /\ reached = {} /\ succeeded = {}

IsNext(n) == \A m \in turns : m < n

TakeTurn(n) ==
    /\ IsNext(n) /\ heading = {}
    /\ turns' = turns \cup {n} /\ heading' = {n}
    /\ UNCHANGED <<version, settings, reached, succeeded>>

\* It fails, or somebody stops it.
GiveUp ==
    /\ heading' = {}
    /\ UNCHANGED <<turns, version, settings, reached, succeeded>>

\* The process ends: whoever had yet to set out has had its turn as well.
MissTurn(n) ==
    /\ IsNext(n)
    /\ turns' = turns \cup {n} /\ heading' = {}
    /\ UNCHANGED <<version, settings, reached, succeeded>>

Land(n) ==
    /\ n \in heading
    /\ version' = n /\ settings' \in Settings /\ reached' = reached \cup {n}
    /\ heading' \in {heading, {}}
    /\ UNCHANGED <<turns, succeeded>>

Succeed(n) ==
    /\ n \in heading /\ n \in reached /\ (Resyncs \/ version = n)
    /\ succeeded' = succeeded \cup {n} /\ heading' = {}
    /\ UNCHANGED <<turns, version, settings, reached>>

PutBack(n) ==
    /\ Resyncs /\ n \in succeeded
    /\ version' = n /\ settings' \in Settings
    /\ UNCHANGED <<turns, heading, reached, succeeded>>

RolloutsNext ==
    \/ GiveUp
    \/ \E n \in Versions :
        TakeTurn(n) \/ MissTurn(n) \/ Land(n) \/ Succeed(n) \/ PutBack(n)

RolloutsSpec == RolloutsInit /\ [][RolloutsNext]_rolloutVars
=============================================================================
