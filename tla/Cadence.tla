-------------------------------- MODULE Cadence --------------------------------
(***************************************************************************)
(* computeNextRun (automation/schedule.ts): when a schedule fires next.    *)
(*                                                                         *)
(* A moment is a number of ticks since a Sunday, 00:00 UTC; the calendar's *)
(* proportions are parameters.  The Date setters are modelled by the       *)
(* arithmetic they do on such a number: UTC has no gaps.                   *)
(***************************************************************************)
EXTENDS Naturals

CONSTANTS Minute, MinutesPerHour, HoursPerDay, DaysPerWeek   \* Minute: in ticks

ASSUME CadenceAssumption ==
  /\ Minute \in Nat \ {0}
  /\ MinutesPerHour \in Nat \ {0}
  /\ HoursPerDay \in Nat \ {0}
  /\ DaysPerWeek \in Nat \ {0}

Hour == MinutesPerHour * Minute
Day == HoursPerDay * Hour

\* What parseScheduleInput lets through; an unused field is 0.
Cadences ==
  [kind: {"hourly"}, weekday: {0}, hour: {0}, minute: 0..MinutesPerHour - 1]
    \union [kind: {"daily"}, weekday: {0}, hour: 0..HoursPerDay - 1, minute: 0..MinutesPerHour - 1]
    \union [kind: {"weekly"}, weekday: 0..DaysPerWeek - 1, hour: 0..HoursPerDay - 1,
            minute: 0..MinutesPerHour - 1]

StartOf(unit, t) == t - (t % unit)
Weekday(t) == (t \div Day) % DaysPerWeek

\* setUTCHours(hour, minute) on a moment of some day.
AtTime(c, t) == StartOf(Day, t) + c.hour * Hour + c.minute * Minute

NextHourly(c, from) ==
  LET next == StartOf(Hour, from) + c.minute * Minute
  IN  IF next <= from THEN next + Hour ELSE next

NextDaily(c, from) ==
  LET next == AtTime(c, from)
  IN  IF next <= from THEN next + Day ELSE next

\* Slip: the weekday is right and its time has passed.
WeeklySameDay(c, from) ==
  LET next == AtTime(c, from)
  IN  next + ((c.weekday + DaysPerWeek - Weekday(next)) % DaysPerWeek) * Day

NextWeekly(c, from) ==
  LET next  == AtTime(c, from)
      delta == (c.weekday + DaysPerWeek - Weekday(next)) % DaysPerWeek
  IN  next + (IF delta = 0 /\ next <= from THEN DaysPerWeek ELSE delta) * Day

NextRun(c, from) ==
  CASE c.kind = "hourly" -> NextHourly(c, from)
    [] c.kind = "daily"  -> NextDaily(c, from)
    [] c.kind = "weekly" -> NextWeekly(c, from)

-----------------------------------------------------------------------------
\* The reference: the moments a cadence names.
Fires(c, t) ==
  /\ t % Minute = 0
  /\ (t \div Minute) % MinutesPerHour = c.minute
  /\ c.kind \in {"daily", "weekly"} => (t \div Hour) % HoursPerDay = c.hour
  /\ c.kind = "weekly" => Weekday(t) = c.weekday

\* computeNextRun names the first moment of the cadence after `from`: strictly after, so that a
\* run is not due again at once, and with none skipped between.
IsNext(c, from, t) == t > from /\ Fires(c, t) /\ \A u \in from + 1..t - 1 : ~Fires(c, u)
=============================================================================
