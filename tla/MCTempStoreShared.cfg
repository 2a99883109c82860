CONSTANTS
  Instances = {s1, s2}
  Callers = {c1, c2}
  Ids = {f1}
  NoId = NoId
  MaxCrashes = 0
  MaxFaults = 0

SPECIFICATION Spec

INVARIANTS
  IssuedStaysReadable

CHECK_DEADLOCK FALSE
