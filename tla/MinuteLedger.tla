---------------------------- MODULE MinuteLedger ----------------------------
(***************************************************************************)
(* What the scheduler promises a backup policy: every minute is settled    *)
(* once and in order, a policy due in a minute that is settled gets one    *)
(* backup, and only a minute more than the limit behind is given up.  A    *)
(* lapse of the process (a restart, a store that does not answer, a panic) *)
(* and a clock that is set back are counted: only a lapse may lose a       *)
(* minute, and each of either lets one minute be settled again, from which *)
(* the policy goes on, so that the minutes after it come up once more.     *)
(***************************************************************************)
EXTENDS Naturals

CONSTANTS LedgerPolicies, LedgerMinutes, Limit, Due(_, _)

VARIABLES
    settled, \* settled[p]: the last minute settled for the policy
    begun,   \* begun[p]: backups started for it
    lapses,  \* lapses[p]: how often its minutes were interfered with
    rewinds, \* how often the clock was set back
    again    \* again[p]: how often a minute was settled that was settled before

ledgerVars == <<settled, begun, lapses, rewinds, again>>

LedgerInit ==
    /\ settled \in [LedgerPolicies -> LedgerMinutes]
    /\ begun = [p \in LedgerPolicies |-> 0]
    /\ lapses = [p \in LedgerPolicies |-> 0]
    /\ rewinds = 0 /\ again = [p \in LedgerPolicies |-> 0]

\* Every minute up to now, or the most recent ones when there are too many.
Settle(p, now) ==
    /\ now > settled[p]
    /\ settled' = [settled EXCEPT ![p] = now]
    /\ LET owed == {m \in LedgerMinutes : m > settled[p] /\ m <= now /\ m + Limit > now}
       IN  begun' = [begun EXCEPT ![p] = @ + IF \E m \in owed : Due(p, m) THEN 1 ELSE 0]
    /\ UNCHANGED <<lapses, rewinds, again>>

\* The clock stands at a minute that was settled: that minute and no other is settled again.
SettleAgain(p, now) ==
    /\ now <= settled[p] /\ again[p] < rewinds + lapses[p]
    /\ settled' = [settled EXCEPT ![p] = now]
    /\ begun' = [begun EXCEPT ![p] = @ + IF Due(p, now) THEN 1 ELSE 0]
    /\ again' = [again EXCEPT ![p] = @ + 1]
    /\ UNCHANGED <<lapses, rewinds>>

Rewind == rewinds' = rewinds + 1 /\ UNCHANGED <<settled, begun, lapses, again>>

\* The process lapses: the minutes of a policy are where they happen to be.
Lapse ==
    /\ settled' \in [LedgerPolicies -> LedgerMinutes]
    /\ \E hit \in SUBSET LedgerPolicies :
        /\ hit # {}
        /\ \A p \in LedgerPolicies \ hit : settled'[p] = settled[p]
        /\ lapses' = [p \in LedgerPolicies |-> IF p \in hit THEN lapses[p] + 1 ELSE lapses[p]]
    /\ UNCHANGED <<begun, rewinds, again>>

LedgerNext == \/ Lapse \/ Rewind
              \/ \E p \in LedgerPolicies, now \in LedgerMinutes : Settle(p, now) \/ SettleAgain(p, now)

LedgerSpec == LedgerInit /\ [][LedgerNext]_ledgerVars
=============================================================================
