----------------------------- MODULE MCPeriods -----------------------------
(* The clock under which the health report and the schedule doctor ask when a *)
(* cron was last due.                                                         *)
EXTENDS Periods

CONSTANTS From, Until \* bounds: the first moment and the last
VARIABLES cron, clock

\* One a day, one on work days, one on the first two work days of a week, one
\* on the first days of a month or on Sundays, and every other slot.
Days(a, b) == [any |-> FALSE, from |-> a, to |-> b, step |-> 0]
Registered ==
  { [slots |-> {One(1)}, doms |-> Star, dows |-> Star],
    [slots |-> {One(1)}, doms |-> Star, dows |-> {Days(1, 5)}],
    [slots |-> {One(1)}, doms |-> Star, dows |-> {Days(1, 2)}],
    [slots |-> {One(0)}, doms |-> {Days(1, 2)}, dows |-> {One(7)}],
    [slots |-> {[AnyPart EXCEPT !.step = 2]}, doms |-> Star, dows |-> Star] }

Init == cron \in Registered /\ clock = From
Next == clock < Until /\ clock' = clock + 1 /\ UNCHANGED cron
Spec == Init /\ [][Next]_<<cron, clock>>

\* schedules.py:91, of previous_fire(): "The latest firing at or before `now`".
PreviousFireIsTheLatest ==
  PreviousFire(cron, clock) =
    Max({fire \in FireTimes(cron, 0, clock \div SlotsPerDay + 1) : fire <= clock})
=============================================================================
