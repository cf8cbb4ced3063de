SPECIFICATION Spec
CONSTANTS
  Traces <- TwinTraces
  ROB_SIZE = 4
  LQ_SIZE = 2
  SQ_SIZE = 3
  WQ_SIZE = 2
INVARIANTS
  ForwardsToItsLoads
CHECK_DEADLOCK FALSE
