CONSTANTS
  Runs = {r1, r2}

SPECIFICATION FairSpec

INVARIANTS
  TypeOK
  OutageAloneIsHarmless
  ThrowsOnlyForeignRows
  NoContradiction
  OpenRowsTellOfOutages

PROPERTIES
  EveryRunEnds

\* Every run is answered in the end: the system really may stop.
CHECK_DEADLOCK FALSE
