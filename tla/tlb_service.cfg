SPECIFICATION Spec
CONSTANTS
  i1 = i1
  l1 = l1
  s1 = s1
  Pages = {1, 2, 3}
  Frames = {1, 2, 3}
  DRAM_PAGES = 3
  Fetchers = {i1}
  Loads = {l1}
  Stores = {s1}
  CodePages = {1}
  DataPages = {2, 3}
  NUM_SET <- Sets111
  NUM_WAY <- Ways112
  LATENCY <- Latency111
  MAX_READ <- Read121
  RQ_SIZE <- Queue113
  MSHR_SIZE <- Registers112
  PROCESSED_SIZE = 2
  PAGE_TABLE_LATENCY = 1
  SWAP_LATENCY = 2
  MaxPredictions = 1
INVARIANTS
  TlbCoherent
PROPERTIES
  ImplementsService
  EveryRequestAnswered
