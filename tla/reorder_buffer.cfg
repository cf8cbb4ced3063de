SPECIFICATION Spec
CONSTANTS
  Traces <- SmallTraces
  ROB_SIZE = 4
  LQ_SIZE = 2
  SQ_SIZE = 2
  WQ_SIZE = 2
INVARIANTS
  TypeOK
  WorkConserved
  LoadsSeeStores
  ForwardsToItsLoads
PROPERTIES
  EveryInstructionRetires
\* A trace ends; the program reads it again from the start.
CHECK_DEADLOCK FALSE
