\* Two instructions and lists of two slots for a page with three successors.
SPECIFICATION RecordedSpec
CONSTANTS
  pc1 = pc1
  pc2 = pc2
  Pcs = {pc1, pc2}
  Pages = {1, 2, 3, 4}
  S = 2
  Follows <- HubFollows
INVARIANTS
  TypeOK
  DistinctPredictions
  RecencyOrder
  ManagedWithLru
