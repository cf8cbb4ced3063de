SPECIFICATION Spec
CONSTANTS
  d1 = d1
  d2 = d2
  Loads = {d1, d2}
  Addresses = {2, 4}
  WORDS = 2
  NUM_SET <- One
  NUM_WAY <- One
  RQ_SIZE <- Queue12
  WQ_SIZE <- One
  PQ_SIZE <- One
  MSHR_SIZE <- Registers22
  LLC_WQ_SIZE = 1
  Prefetched <- SomePrefetches
  Window = 1
INVARIANTS
  TypeOK
  EveryMissAnsweredOnce
  LoadsConserved
PROPERTIES
  ModificationKept
  EveryLoadAnswered
