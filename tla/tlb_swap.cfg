SPECIFICATION Spec
CONSTANTS
  f1 = f1
  f2 = f2
  i1 = i1
  l1 = l1
  s1 = s1
  Pages = {1, 2, 3}
  Frames = {f1, f2}
  DRAM_PAGES = 2
  Fetchers = {i1}
  Loads = {l1}
  Stores = {s1}
  CodePages = {2}
  DataPages = {2, 3}
  NUM_SET <- Sets111
  NUM_WAY <- Ways122
  LATENCY <- Latency112
  MAX_READ <- Read121
  RQ_SIZE <- Queue113
  MSHR_SIZE <- Registers122
  PROCESSED_SIZE = 2
  PAGE_TABLE_LATENCY = 1
  SWAP_LATENCY = 2
  MaxPredictions = 1
INVARIANTS
  TypeOK
  EveryMissAnsweredOnce
  ConsumerConservation
  UpperTagsUnique
  StlbMissIsNew
SYMMETRY FrameSymmetry
