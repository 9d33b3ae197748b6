------------------------------ MODULE MCUpkeep ------------------------------
(***************************************************************************)
(* The parts of the panel that work without being asked, side by side:     *)
(* schedules, the minute tick with the history it prunes, the health       *)
(* watcher and the event hub that shows it all to a browser.  A behaviour  *)
(* is one part's; the parts share no state.                                *)
(***************************************************************************)
EXTENDS Scheduler, Watch, EventHub

VARIABLE part

HighsMC == [minute |-> 1, hour |-> 1, day |-> 2, month |-> 2, weekday |-> 3]
YearMC == <<[month |-> 1, day |-> 1], [month |-> 1, day |-> 2], [month |-> 2, day |-> 1]>>
CycleDaysMC == YearMC \o YearMC \o YearMC \o YearMC \o <<[month |-> 2, day |-> 2]>>

V(v) == ListOf(<<Part("value", v, 0, 1)>>)
Every(n) == ListOf(<<Part("star", 0, 0, n)>>)
FromTo(a, b) == ListOf(<<Part("range", a, b, 1)>>)
ExpressionsMC ==
    {Star, V(0), Every(2), ListOf(<<Part("junk", 0, 0, 1)>>), ListOf(<<Part("value", 0, 0, 2), Part("value", 1, 0, 1)>>)}
    \X {Star, V(1), V(2)} \X {Star, V(2), Every(2)} \X {Star, V(2)}
    \X {Star, V(3), FromTo(1, 3), FromTo(2, 1), Every(2), ListOf(<<Part("value", 1, 0, 2)>>)}

ScheduleOfMC == [p1 |-> <<V(0), Star, Star, Star, Star>>, p2 |-> <<Star, V(1), Star, Star, FromTo(1, 3)>>]

TMix(faults, lapses, rows, setting, until) ==
    [faults |-> faults, lapses |-> lapses, history |-> rows, setting |-> setting, until |-> until]
TickMixesMC == {TMix({}, 0, FALSE, 0, 8), TMix({"restart", "list", "panic"}, 2, FALSE, 0, 4),
                TMix({"clock"}, 1, FALSE, 0, 5), TMix({"clock", "panic"}, 2, FALSE, 0, 2),
                TMix({}, 0, TRUE, 2, 4), TMix({"restart"}, 1, TRUE, 0, 2)}

VMix(kinds, moves, faults, struck) == [kinds |-> kinds, moves |-> moves, faults |-> faults, struck |-> struck]
WatchMixesMC == {
    VMix({"node", "remove"}, 3, {"cluster", "rows", "timeout"}, 1),
    VMix({"node", "remove"}, 3, {"store", "timeout"}, 2),
    VMix({"app"}, 2, {}, 0)}

AnyOf(S) == CHOOSE x \in S : TRUE

UpkeepInit ==
    /\ part \in {"cron", "ticks", "watch", "hub"}
    /\ CronInit /\ TickInit /\ WatchInit /\ HubInit
    /\ part # "cron" => typed = AnyOf(Expressions)
    /\ part # "ticks" => tmix = AnyOf(TickMixes)
    /\ part # "watch" => vmix = AnyOf(WatchMixes)
UpkeepNext ==
    \/ part = "cron" /\ CronNext /\ UNCHANGED <<tickVars, watchVars, hubVars, part>>
    \/ part = "ticks" /\ TickNext /\ UNCHANGED <<cronVars, watchVars, hubVars, part>>
    \/ part = "watch" /\ WatchNext /\ UNCHANGED <<cronVars, tickVars, hubVars, part>>
    \/ part = "hub" /\ HubNext /\ UNCHANGED <<cronVars, tickVars, watchVars, part>>

\* The watcher's goroutine goes on passing for as long as the panel runs.
WatchFairness == WF_watchVars(part = "watch" /\ WatchStep)
\* A publisher that has its number takes the lock; the handler's loop and the goroutine
\* behind the context run.
StreamFairness ==
    /\ \A p \in Publishers : WF_hubVars(part = "hub" /\ Deliver(p))
    /\ \A b \in Browsers : /\ WF_hubVars(part = "hub" /\ HandlerStep(b))
                           /\ WF_hubVars(part = "hub" /\ ContextDone(b))
UpkeepSpec == /\ UpkeepInit /\ [][UpkeepNext]_<<cronVars, tickVars, watchVars, hubVars, part>>
              /\ WatchFairness /\ StreamFairness

\* One part alone, for the configurations that ask about what the documentation says.
TickSpec == UpkeepSpec /\ part = "ticks"
WatchSpec == UpkeepSpec /\ part = "watch"
HubOnly == UpkeepSpec /\ part = "hub"

HistoryMixMC == {TMix({}, 0, TRUE, 0, 4)}
AppMixMC == {VMix({"app"}, 2, {}, 0)}
=============================================================================
