------------------------------ MODULE Periods ------------------------------
(* When a scheduled job is due: core/jobs/schedules.py, from the expansion of *)
(* a cron field to the latest firing before a moment.                         *)
(*                                                                            *)
(* A moment is a number of slots since a Sunday.  A cron's minute and hour    *)
(* fields are one field here, over the slots of a day; its month field is     *)
(* "*", and every month has MonthDays days.                                   *)
EXTENDS Integers, FiniteSets, FiniteSetsExt

CONSTANTS
    SlotsPerDay, \* bound: the moments of a day that a cron can name
    MonthDays,   \* bound: the days of every month
    WindowDays,  \* bound: the days over which the gaps of a cron are measured
    Never        \* ValueError: no such firing

\* A part of a field: "*", a number or a range, with or without a step.
AnyPart == [any |-> TRUE, from |-> 0, to |-> 0, step |-> 0]
One(n) == [any |-> FALSE, from |-> n, to |-> n, step |-> 0]
Star == {AnyPart}

\* _expand(): a number with a step runs to the end of the field's range.
PartEnd(part, high) ==
    IF part.any \/ (part.from = part.to /\ part.step # 0) THEN high ELSE part.to
PartStart(part, low) == IF part.any THEN low ELSE part.from
Stride(part) == IF part.step = 0 THEN 1 ELSE part.step
Expand(parts, low, high) ==
    UNION {{n \in PartStart(p, low)..PartEnd(p, high) : (n - PartStart(p, low)) % Stride(p) = 0} :
             p \in parts}

\* Vixie cron: when both day fields are restricted, either one is enough.
DayHit(cron, day) ==
    LET dom == ((day % MonthDays) + 1) \in Expand(cron.doms, 1, MonthDays)
        dow == (day % 7) \in {d % 7 : d \in Expand(cron.dows, 0, 7)}
    IN  IF cron.doms = Star \/ cron.dows = Star THEN dom /\ dow ELSE dom \/ dow

\* cron_fire_times()
FireTimes(cron, start, days) ==
    UNION {{day * SlotsPerDay + slot : slot \in Expand(cron.slots, 0, SlotsPerDay - 1)} :
             day \in {d \in start..(start + days - 1) : DayHit(cron, d)}}

Gaps(fires) ==
    {Min({later \in fires : later > fire}) - fire : fire \in fires \ {Max(fires)}}

\* period_seconds(), of a cron and of an interval
CronPeriod(cron) ==
    LET fires == FireTimes(cron, 0, WindowDays)
    IN  IF Cardinality(fires) < 2 THEN Never
        ELSE Min(Gaps(fires))
PeriodOf(schedule) == IF schedule.cron THEN CronPeriod(schedule.fires) ELSE schedule.every

\* previous_fire(): over the shortest gap and two days before now
Lookback(cron) == CronPeriod(cron) + 2 * SlotsPerDay
PreviousFire(cron, now) ==
    LET fires == FireTimes(cron, (now - Lookback(cron)) \div SlotsPerDay,
                           Lookback(cron) \div SlotsPerDay + 2)
        past == {fire \in fires : fire <= now}
    IN  IF past = {} THEN Never ELSE Max(past)

\* expire_seconds(): a run that waited 90% of the period is dropped.
ExpireSeconds(spec) ==
    IF spec.expires # 0 THEN spec.expires ELSE Max({1, (PeriodOf(spec.schedule) * 9) \div 10})

\* _jittered_start(): a per-name offset into the current period, or the next
JitteredStart(every, offset, now) ==
    LET start == (now \div every) * every + offset
    IN  IF start > now THEN start ELSE start + every

\* What all this says of one job between two moments
ClockOf(spec, from, until) ==
    LET crons == spec.schedule.cron
        fires == IF crons THEN FireTimes(spec.schedule.fires, from \div SlotsPerDay, WindowDays) ELSE {}
    IN  [every |-> PeriodOf(spec.schedule),
         expires |-> ExpireSeconds(spec),
         next |-> [now \in from..until |->
                     IF crons THEN Min({fire \in fires : fire > now}) ELSE now + PeriodOf(spec.schedule)],
         last |-> [now \in from..until |->
                     IF crons THEN PreviousFire(spec.schedule.fires, now) ELSE Never]]
=============================================================================
