-------------------------------- MODULE Cron --------------------------------
(***************************************************************************)
(* Schedules (cron/cron.go).  An expression has five fields; a field is    *)
(* "*" or a list of parts, each a star, a range or a value, with a step.   *)
(* Text that is not a number is a part of kind "junk".  The calendar is a  *)
(* parameter: the code's literals on a real one, a short one for TLC, so   *)
(* that NextRun's five-year horizon can be walked through.                 *)
(***************************************************************************)
EXTENDS Naturals, Sequences, FiniteSets, SequencesExt

CONSTANTS
    Highs,       \* the largest minute, hour, day of the month, month and weekday a field takes
    CycleDays,   \* the days of four years in order, each with its month and its day
    YearDays,    \* days in a year that is not a leap year
    Expressions, \* what people type
    Schedulers   \* minutes at which somebody looks at a schedule

ASSUME CronAssumption ==
    /\ Highs \in [{"minute", "hour", "day", "month", "weekday"} -> Nat] /\ Highs.weekday > 0
    /\ Expressions \subseteq Seq([star : BOOLEAN, parts : Seq([kind : {"star", "range", "value", "junk"},
                                                            low : Nat, high : Nat, step : Nat])])
    /\ CycleDays \in Seq([month : 1..Highs.month, day : 1..Highs.day])
    /\ YearDays \in Nat /\ YearDays < Len(CycleDays)
    /\ Schedulers \subseteq Nat

Fields == <<"minute", "hour", "day", "month", "weekday">>
Lows == [f \in ToSet(Fields) |-> IF f \in {"day", "month"} THEN 1 ELSE 0]

VARIABLES
    typed,  \* the expression of a scheduled job as somebody typed it
    stored, \* what the panel keeps and sends to the cluster: {} or one expression
    shown   \* the next run shown for it: {} or one record of when it was asked and the answer

cronVars == <<typed, stored, shown>>

Star == [star |-> TRUE, parts |-> <<>>]
Part(kind, low, high, step) == [kind |-> kind, low |-> low, high |-> high, step |-> step]
ListOf(parts) == [star |-> FALSE, parts |-> parts]

RangeOf(low, high, step) == {v \in low..high : (v - low) % step = 0}

\* A part is refused when its step is below one or its numbers leave the field's range.
PartRefused(p, low, high) ==
    \/ p.kind = "junk" \/ p.step < 1
    \/ p.kind = "range" /\ (p.low < low \/ p.high > high \/ p.low > p.high)
    \/ p.kind = "value" /\ (p.low < low \/ p.low > high)

\* A value with a step runs to the end of the field.
PartValues(p, low, high) ==
    CASE p.kind = "star" -> RangeOf(low, high, p.step)
      [] p.kind = "range" -> RangeOf(p.low, p.high, p.step)
      [] p.kind = "value" /\ p.step > 1 -> RangeOf(p.low, high, p.step)
      [] OTHER -> {p.low}

\* The values of a field; none is a refusal.
ParseField(field, low, high) ==
    LET parts == ToSet(field.parts) IN
    IF field.star THEN RangeOf(low, high, 1)
    ELSE IF \E p \in parts : PartRefused(p, low, high) THEN {}
    ELSE UNION {PartValues(p, low, high) : p \in parts}

\* Sunday is 0, and 7 is accepted for it.
ParseSchedule(e) ==
    LET values(i) == ParseField(e[i], Lows[Fields[i]], Highs[Fields[i]])
        sunday(v) == IF v = Highs.weekday THEN 0 ELSE v
    IN  [ok |-> Len(e) = 5 /\ \A i \in 1..Len(e) : values(i) # {},
         minutes |-> values(1), hours |-> values(2), days |-> values(3), months |-> values(4),
         weekdays |-> {sunday(v) : v \in values(5)},
         dayRestricted |-> ~e[3].star, weekdayRestricted |-> ~e[5].star]

Matches(s, t) ==
    /\ t.minute \in s.minutes /\ t.hour \in s.hours /\ t.month \in s.months
    /\ IF s.dayRestricted /\ s.weekdayRestricted THEN t.day \in s.days \/ t.weekday \in s.weekdays
       ELSE /\ s.dayRestricted => t.day \in s.days
            /\ s.weekdayRestricted => t.weekday \in s.weekdays

\* The weekday field sorted and without repeats, unless it is "*".
Ranked(values, i) == CHOOSE v \in values : Cardinality({w \in values : w < v}) = i - 1
JoinValues(values) == ListOf([i \in 1..Cardinality(values) |-> Part("value", Ranked(values, i), 0, 1)])
Canonical_ExpandsStar(e) ==
    IF ~ParseSchedule(e).ok THEN {} ELSE {[e EXCEPT ![5] = JoinValues(ParseSchedule(e).weekdays)]}
Canonical(e) ==
    IF ~ParseSchedule(e).ok THEN {}
    ELSE IF e[5].star THEN {e}
    ELSE {[e EXCEPT ![5] = JoinValues(ParseSchedule(e).weekdays)]}

\* The calendar: what Go's time package says of a minute counted from an epoch.
DayMinutes == (Highs.minute + 1) * (Highs.hour + 1)
TimeOf(n) ==
    LET d == n \div DayMinutes
        date == CycleDays[(d % Len(CycleDays)) + 1]
    IN  [minute |-> n % (Highs.minute + 1), hour |-> (n \div (Highs.minute + 1)) % (Highs.hour + 1),
         day |-> date.day, month |-> date.month, weekday |-> d % Highs.weekday]

DueNow(e, n) == ParseSchedule(e).ok /\ Matches(ParseSchedule(e), TimeOf(n))

\* Five years, of which one at least is a leap year.
HorizonDays == Len(CycleDays) + YearDays
\* A horizon of one year.
NextRun_OneYear(e, after) ==
    LET s == ParseSchedule(e)
        fires == {n \in after + 1..after + YearDays * DayMinutes : Matches(s, TimeOf(n))}
    IN  IF ~s.ok THEN {} ELSE {n \in fires : \A k \in fires : n <= k}
\* The first minute after the given one, within the horizon: {} when it "never fires".
NextRun(e, after) ==
    LET s == ParseSchedule(e)
        fires == {n \in after + 1..after + HorizonDays * DayMinutes : Matches(s, TimeOf(n))}
    IN  IF ~s.ok THEN {} ELSE {n \in fires : \A k \in fires : n <= k}

-----------------------------------------------------------------------------
CronInit == typed \in Expressions /\ stored = {} /\ shown = {}

\* A schedule is validated and kept as the parser understood it, or refused.
ValidateSchedule ==
    /\ stored = {} /\ Canonical(typed) # {}
    /\ stored' = Canonical(typed)
    /\ UNCHANGED <<typed, shown>>

\* A caller asks when a schedule runs next (backup.NextRun).
ShowNextRun(n) ==
    /\ shown = {} /\ ParseSchedule(typed).ok
    /\ shown' = {[after |-> n, next |-> NextRun(typed, n)]}
    /\ UNCHANGED <<typed, stored>>

CronNext == ValidateSchedule \/ \E n \in Schedulers : ShowNextRun(n)
CronSpec == CronInit /\ [][CronNext]_cronVars

-----------------------------------------------------------------------------
\* All the minutes there are: the calendar repeats after a four-year cycle of each weekday.
AllMinutes == 0..Len(CycleDays) * Highs.weekday * DayMinutes - 1

\* The five fields read straight off what was typed, without parser, lists or flags: a value is
\* in a part when it is reached in steps between the part's ends; a day is right when it and its
\* weekday are, or, when neither field is "*", one of them; Sunday is 0 and 7.
Begin(p, low) == IF p.kind = "star" THEN low ELSE p.low
End(p, high) == CASE p.kind = "range" -> p.high
                  [] p.kind = "value" /\ p.step <= 1 -> p.low
                  [] OTHER -> high
Says(field, v, low, high) ==
    field.star \/ \E p \in ToSet(field.parts) :
                     Begin(p, low) <= v /\ v <= End(p, high) /\ (v - Begin(p, low)) % p.step = 0
ReadDirectly(e, t) ==
    LET day == Says(e[3], t.day, 1, Highs.day)
        weekday == \/ Says(e[5], t.weekday, 0, Highs.weekday)
                   \/ t.weekday = 0 /\ Says(e[5], Highs.weekday, 0, Highs.weekday)
    IN  /\ Says(e[1], t.minute, 0, Highs.minute) /\ Says(e[2], t.hour, 0, Highs.hour)
        /\ Says(e[4], t.month, 1, Highs.month)
        /\ IF e[3].star \/ e[5].star THEN day /\ weekday ELSE day \/ weekday

\* "What was validated is what runs": the expression sent to the cluster fires in the
\* minutes a direct reading of what was typed gives, spells Sunday 0, and is left alone
\* when it is made canonical again (cron.ParseSchedule, Matches, Canonical).
CanonicalMeansTheSame ==
    \A e \in stored :
        /\ \A n \in 0..Len(CycleDays) * DayMinutes - 1 : DueNow(e, n) <=> ReadDirectly(typed, TimeOf(n))
        /\ e[5].star \/ \A p \in ToSet(e[5].parts) : p.low < Highs.weekday
        /\ Canonical(e) = {e}

\* A schedule is shown the first minute in which it fires, and "never fires" is said
\* only of one that does not (cron.NextRun's horizon reaches the next leap day).
NeverMeansNever ==
    \A a \in shown :
        LET due == {n \in AllMinutes : n > a.after /\ DueNow(typed, n)}
        IN  a.next = {n \in due : \A k \in due : n <= k}
=============================================================================
