CONSTANTS
  Instances = {s1}
  Callers = {c1, c2, c3}
  Ids = {f1}
  NoId = NoId
  MaxCrashes = 2
  MaxFaults = 1

SPECIFICATION FairSpec

INVARIANTS
  TypeOK
  NothingForgotten

PROPERTIES
  KeepsThePromise
  ExpiredFilesGo
