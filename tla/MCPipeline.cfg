CONSTANTS
  r1 = r1
  r2 = r2
  Runs <- MCRuns
  Requests <- MCRequests
  MaxFiles = 2
  MaxOutputs = 1
  MaxJobs = 1

SPECIFICATION FairSpec

INVARIANTS
  TypeOK
  InputsLeaveWithTheCall
  InputsReadable
  ResultsReachable
  NoOpenJobAfterAnswer
  ThrowsOnlyWithoutJob
  BarEndsWithTheCall

PROPERTIES
  KeepsThePromise
  EveryCallEnds

\* Every call ends, and the owner has no more to delete: the system really may stop.
CHECK_DEADLOCK FALSE
