CONSTANTS
  Runs = {r1}

SPECIFICATION Spec

INVARIANTS
  NeverTakesToolsDown

CHECK_DEADLOCK FALSE
