CONSTANTS
  Minute = 1
  MinutesPerHour = 2
  HoursPerDay = 2
  DaysPerWeek = 3
  Schedules = {a, b}
  Chosen <- MCChosen
  Invocations = {i1}
  NoRow = NoRow
  Gone = Gone
  MaxTime = 3
  MaxEdits = 1
  MaxFaults = 0

SPECIFICATION Spec

INVARIANTS
  PlannedOnCadence

CHECK_DEADLOCK FALSE
