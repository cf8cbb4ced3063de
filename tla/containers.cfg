\* A queue of three slots over four addresses: it fills, wraps and empties.  A three-way
\* set over four addresses: it fills up, evicts, and is thinned by invalidations.  The
\* index sets have their constants in MCContainers.
SPECIFICATION ContainersSpec
CONSTANTS
  SIZE = 3
  Addr = {a1, a2, a3, a4}
  NoAddr = NoAddr
  NUM_WAY = 3
  Tags = {t1, t2, t3, t4}
  NoTag = NoTag
INVARIANTS
  TypeOK
  RingInvariant
  CheckQueueExact
  NoDuplicateRequest
  Ranking
PROPERTIES
  ImplementsFifo
  ImplementsRecencyList
  ImplementsSets
