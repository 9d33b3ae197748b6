----------------------------- MODULE Scheduler ------------------------------
(***************************************************************************)
(* The minute tick of the panel (serverapp.go: runScheduler, minutesAfter, *)
(* pruneHistory) with the policies it runs (backup.RunScheduledAt) and the *)
(* history it prunes (store/retention.go).  The ticker holds one tick and  *)
(* drops the rest; a pass may take longer than a minute; the clock may be  *)
(* set back; the process may stop at any point and `last` is lost with it. *)
(***************************************************************************)
EXTENDS Cron

CONSTANTS
    Policies,     \* backup policies
    ScheduleOf,   \* ScheduleOf[p]: the expression of a policy
    LastMinute,   \* where the clock stops
    CatchUpLimit, \* how far back a late tick looks
    PruneEvery,   \* minutes between two prunes of the history
    Kept,         \* deployments kept per app when no setting says otherwise
    OperationAge, \* minutes a finished operation is kept
    AuditAge,     \* minutes an audit entry is kept
    MaxRows,      \* deployments, operations and audit entries that may be made
    TickMixes     \* what a behaviour meets

TickFaults == {"restart", "list", "panic", "clock"}
ASSUME TickAssumption ==
    /\ ScheduleOf \in [Policies -> Expressions]
    /\ {LastMinute, CatchUpLimit, PruneEvery, Kept, OperationAge, AuditAge, MaxRows} \subseteq Nat
    /\ CatchUpLimit > 0
    /\ TickMixes \subseteq [faults : SUBSET TickFaults, history : BOOLEAN, setting : Nat,
                     until : 0..LastMinute, lapses : Nat]

VARIABLES
    clock,   \* the wall clock's minute
    loop,    \* the scheduler: where it is and its locals
    ticks,   \* the timer or ticker's channel holds a tick
    taken,   \* taken[p]: scheduled backups started
    lapsed,  \* history: lapsed[p]: times the policy's minutes were interfered with
    rewound, \* history: how often the clock was set back
    again,   \* history: again[p]: runs of the policy for a minute it was run for before
    prunedAt, \* the setting pruned_at: {} or the minute
    history, \* rows of deployments (of one app), operations and the audit log
    prunes,  \* history: the minutes in which the history was pruned
    tmix

tickVars == <<clock, loop, ticks, taken, lapsed, rewound, again, prunedAt, history, prunes, tmix>>

NoLoop == [at |-> "off", last |-> 0, now |-> 0, first |-> TRUE, minutes |-> {}, left |-> {}]

\* A fault happens at most so often.
Struck(fault) == fault \in tmix.faults /\ tmix.lapses > 0 /\ tmix' = [tmix EXCEPT !.lapses = @ - 1]

TickInit ==
    /\ clock = 0 /\ ticks = FALSE /\ loop = NoLoop
    /\ taken = [p \in Policies |-> 0] /\ lapsed = [p \in Policies |-> 0]
    /\ rewound = 0 /\ again = [p \in Policies |-> 0]
    /\ prunedAt = {} /\ prunes = {}
    /\ history = [deployments |-> {}, operations |-> {}, audit |-> {}]
    /\ tmix \in TickMixes

-----------------------------------------------------------------------------
(* The clock and the process.                                              *)

\* A minute begins, and the timer or the ticker fires with it.  A tick that finds
\* another one undelivered is dropped.  The clock is read in the minute in which the
\* tick is taken from the channel (nothing lies between the two but a function call).
MinuteBegins ==
    /\ clock < tmix.until /\ loop.at # "tick"
    /\ clock' = clock + 1
    /\ ticks' = (loop.at # "off")
    /\ UNCHANGED <<loop, taken, lapsed, rewound, again, prunedAt, history, prunes, tmix>>

\* A correction of the network's time, a machine that was resumed.
ClockIsSetBack ==
    /\ loop.at # "tick" /\ Struck("clock")
    /\ \E earlier \in 0..LastMinute : earlier < clock /\ clock' = earlier
    /\ rewound' = rewound + 1
    /\ UNCHANGED <<loop, ticks, taken, lapsed, again, prunedAt, history, prunes>>

\* runScheduler starts in the middle of a minute and waits for the next one.
Start ==
    /\ loop.at = "off" /\ ticks' = FALSE
    /\ loop' = [NoLoop EXCEPT !.at = "aligning"]
    /\ UNCHANGED <<clock, taken, lapsed, rewound, again, prunedAt, history, prunes, tmix>>

\* The first whole minute: it is the last one evaluated and the one to evaluate.
Aligned ==
    /\ loop.at = "aligning" /\ ticks
    /\ ticks' = FALSE
    /\ loop' = [loop EXCEPT !.at = "tick", !.last = clock]
    /\ lapsed' = [p \in Policies |-> lapsed[p] + 1]
    /\ UNCHANGED <<clock, taken, rewound, again, prunedAt, history, prunes, tmix>>

Stops ==
    /\ Struck("restart") /\ loop.at # "off"
    /\ loop' = NoLoop /\ ticks' = FALSE
    /\ lapsed' = [p \in Policies |-> lapsed[p] + 1]
    /\ UNCHANGED <<clock, taken, rewound, again, prunedAt, history, prunes>>

TickArrives ==
    /\ loop.at = "idle" /\ ticks
    /\ ticks' = FALSE
    /\ loop' = [loop EXCEPT !.at = "tick"]
    /\ UNCHANGED <<clock, taken, lapsed, rewound, again, prunedAt, history, prunes, tmix>>

-----------------------------------------------------------------------------
(* The schedules.                                                          *)

\* A late tick looks at its own minute only.
MinutesAfter_NoCatchUp(last, now) == {now}
\* One minute too many: the last one evaluated is evaluated again.
MinutesAfter_Inclusive(last, now) ==
    IF now <= last THEN {now} ELSE {m \in last..now : m + CatchUpLimit > now}
\* From last (exclusive) to now (inclusive), newest first and so many at most;
\* the present minute when the clock did not move.
MinutesAfter(last, now) ==
    IF now <= last THEN {now} ELSE {m \in last + 1..now : m + CatchUpLimit > now}

BeginTick ==
    /\ loop.at = "tick"
    /\ \/ /\ loop' = [loop EXCEPT !.at = "policies", !.now = clock, !.left = Policies,
                                  !.minutes = MinutesAfter(loop.last, clock)]
          /\ UNCHANGED <<lapsed, tmix>>
       \/ \* the policies cannot be read: the pass goes on and the minutes are gone
          /\ Struck("list")
          /\ loop' = [loop EXCEPT !.at = "prune", !.now = clock, !.last = clock, !.first = FALSE]
          /\ lapsed' = [p \in Policies |-> lapsed[p] + 1]
    /\ UNCHANGED <<clock, ticks, taken, rewound, again, prunedAt, history, prunes>>

\* The pass is at a minute that was evaluated before.
Repeats == ~loop.first /\ loop.now <= loop.last
CountRepeat(p) == again' = IF Repeats THEN [again EXCEPT ![p] = @ + 1] ELSE again

\* Once for every minute that is due.
RunScheduledAt_EachMinute(p) ==
    /\ loop.at = "policies" /\ p \in loop.left
    /\ loop' = [loop EXCEPT !.left = @ \ {p}]
    /\ taken' = [taken EXCEPT ![p] = @ + Cardinality({m \in loop.minutes : DueNow(ScheduleOf[p], m)})]
    /\ CountRepeat(p)
    /\ UNCHANGED <<clock, ticks, lapsed, rewound, prunedAt, history, prunes, tmix>>
\* A policy due in several of the minutes still runs once; one that cannot start is logged.
RunScheduledAt(p) ==
    /\ loop.at = "policies" /\ p \in loop.left
    /\ loop' = [loop EXCEPT !.left = @ \ {p}]
    /\ taken' = [taken EXCEPT ![p] = @ + IF \E m \in loop.minutes : DueNow(ScheduleOf[p], m) THEN 1 ELSE 0]
    /\ CountRepeat(p)
    /\ UNCHANGED <<clock, ticks, lapsed, rewound, prunedAt, history, prunes, tmix>>

PoliciesDone ==
    /\ loop.at = "policies" /\ loop.left = {}
    /\ loop' = [loop EXCEPT !.at = "prune", !.last = loop.now, !.first = FALSE]
    /\ UNCHANGED <<clock, ticks, taken, lapsed, rewound, again, prunedAt, history, prunes, tmix>>

\* A panic ends the pass and not the loop: `last` stays, and the next tick sees
\* the minutes again, but for the very first one.
TickPanics ==
    /\ Struck("panic") /\ loop.at = "policies"
    /\ loop' = [loop EXCEPT !.at = "idle", !.first = FALSE, !.minutes = {}, !.left = {}]
    /\ lapsed' = [p \in Policies |-> lapsed[p] + 1]
    /\ UNCHANGED <<clock, ticks, taken, rewound, again, prunedAt, history, prunes>>

-----------------------------------------------------------------------------
(* The history.                                                            *)

Finished == {"succeeded", "failed", "cancelled", "superseded"}

DueEvery_Always(interval) == TRUE
\* Due when the row is older than the interval or is not there; the row is written first.
DueEvery(interval) ==
    \A at \in prunedAt : at + interval <= clock

\* The number of a setting above zero, else the default.
RetentionFrom == IF tmix.setting > 0 THEN tmix.setting ELSE Kept

\* Every row counts, finished or not.
Prune_CountsAll(rows, keep) ==
    LET newer(d) == {k \in rows.deployments : k.number > d.number}
    IN  [deployments |-> {d \in rows.deployments : d.status \in Finished => Cardinality(newer(d)) < keep},
         operations |-> {o \in rows.operations : o.ended => o.at + OperationAge >= clock},
         audit |-> {a \in rows.audit : a.at + AuditAge >= clock}]
\* Among the finished rows of the app only those past the newest so many; operations
\* that ended and audit entries by age.
Prune(rows, keep) ==
    LET ended == {d \in rows.deployments : d.status \in Finished}
        newer(d) == {k \in ended : k.number > d.number}
    IN  [deployments |-> {d \in rows.deployments : d \in ended => Cardinality(newer(d)) < keep},
         operations |-> {o \in rows.operations : o.ended => o.at + OperationAge >= clock},
         audit |-> {a \in rows.audit : a.at + AuditAge >= clock}]

PruneHistory ==
    /\ loop.at = "prune"
    /\ loop' = [loop EXCEPT !.at = "idle", !.minutes = {}, !.left = {}]
    /\ IF DueEvery(PruneEvery)
         THEN /\ prunedAt' = {clock} /\ prunes' = prunes \cup {clock}
              /\ history' = Prune(history, RetentionFrom)
         ELSE UNCHANGED <<prunedAt, history, prunes>>
    /\ UNCHANGED <<clock, ticks, taken, lapsed, rewound, again, tmix>>

Numbers == {d.number : d \in history.deployments}

\* The deployer makes a row, which is running until it ends; numbers go up.
DeploymentBegins(n) ==
    /\ tmix.history /\ n \in 1..MaxRows /\ \A k \in Numbers : k < n
    /\ \A d \in history.deployments : d.status \in Finished
    /\ n = 1 \/ n - 1 \in Numbers
    /\ history' = [history EXCEPT !.deployments = @ \cup {[number |-> n, status |-> "building"]}]
    /\ UNCHANGED <<clock, loop, ticks, taken, lapsed, rewound, again, prunedAt, prunes, tmix>>
DeploymentEnds(d, status) ==
    /\ d \in history.deployments /\ d.status = "building"
    /\ history' = [history EXCEPT !.deployments = (@ \ {d}) \cup {[d EXCEPT !.status = status]}]
    /\ UNCHANGED <<clock, loop, ticks, taken, lapsed, rewound, again, prunedAt, prunes, tmix>>
RowsAreWritten ==
    /\ tmix.history /\ history.operations = {} /\ history.audit = {}
    /\ \E ended \in BOOLEAN :
        history' = [history EXCEPT !.operations = {[ended |-> ended, at |-> clock]}, !.audit = {[at |-> clock]}]
    /\ UNCHANGED <<clock, loop, ticks, taken, lapsed, rewound, again, prunedAt, prunes, tmix>>

TickStep == \/ Aligned \/ TickArrives \/ BeginTick \/ PoliciesDone \/ PruneHistory
            \/ \E p \in Policies : RunScheduledAt(p)
TickNext ==
    \/ MinuteBegins \/ ClockIsSetBack \/ Start \/ Stops \/ TickPanics \/ TickStep
    \/ \E n \in 1..MaxRows : DeploymentBegins(n)
    \/ \E d \in history.deployments, s \in {"succeeded", "failed"} : DeploymentEnds(d, s)
    \/ RowsAreWritten

TicksSpec == TickInit /\ [][TickNext]_tickVars

-----------------------------------------------------------------------------
\* A policy that was run in this pass is settled to the pass's minute; before the
\* first evaluation everything up to the minute before is.
SettledTo(p) ==
    IF loop.at \in {"off", "aligning"} THEN 0
    ELSE IF loop.at = "policies" /\ p \notin loop.left THEN loop.now + 1
    ELSE IF loop.first THEN loop.last ELSE loop.last + 1

DuePolicy(p, m) == m > 0 /\ DueNow(ScheduleOf[p], m - 1)

Ledger == INSTANCE MinuteLedger WITH
    LedgerPolicies <- Policies, LedgerMinutes <- 0..LastMinute + 1, Limit <- CatchUpLimit, Due <- DuePolicy,
    settled <- [p \in Policies |-> SettledTo(p)], begun <- taken, lapses <- lapsed,
    rewinds <- rewound

\* The scheduler is the ledger: ticks that come late or are dropped lose no minute
\* within the limit and repeat none, whatever runs long; a clock that is set back has one
\* minute run again, from which the schedule goes on (runScheduler, minutesAfter: "yields
\* the current minute and nothing else"; RunScheduledAt: "catching up is not a reason to
\* take the same backup twice").
MinutesAreSettled == Ledger!LedgerSpec

\* "It is safe to run at any time": a prune keeps what has not ended, and of what has
\* the newest so many of the app (Prune).
PruneKeepsTheNewest ==
    [][history'.deployments # history.deployments /\ prunes' # prunes =>
          \A d \in history.deployments \ history'.deployments :
              /\ d.status \in Finished
              /\ Cardinality({k \in history'.deployments : k.status \in Finished}) = RetentionFrom
              /\ \A k \in history'.deployments : k.status \in Finished => k.number > d.number]_tickVars

\* "Nothing it deletes is referenced by something that is not": Sync and RunOnce go by
\* the latest deployment that succeeded, so an app that was deployed has one.
DeployedIsRecorded ==
    [][(\E d \in history.deployments : d.status = "succeeded")
         => \E d \in history'.deployments : d.status = "succeeded"]_tickVars
=============================================================================
