\* A batch that has replied has nothing left to do.
SPECIFICATION FairSpec
CONSTANTS
  N = 3
  Steps = 2
  Unset = Unset
  Asked = Unset
  MaxOut = 2
  Together <- MCTogether
CHECK_DEADLOCK FALSE
INVARIANTS
  TypeOK
  ReportIsTrue
  FailuresAreOwn
  BarNeverFarAhead
PROPERTIES
  KeepsThePromise
  EveryBatchReplies
