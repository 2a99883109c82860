CONSTANTS
  Minute = 1
  MinutesPerHour = 2
  HoursPerDay = 2
  DaysPerWeek = 3
  Schedules = {a, b}
  Chosen <- MCChosen
  Invocations = {i1, i2}
  NoRow = NoRow
  Gone = Gone
  MaxTime = 3
  MaxEdits = 1
  MaxFaults = 1

SPECIFICATION FairSpec

INVARIANTS
  TypeOK
  ExtraRunsHaveReasons
  NextRunIsTheNext

PROPERTIES
  OwnerDecides
  DueIsServed
