\* Five pages over a memory of three frames: runs start at frames 0 to 3, collide
\* with each other, and memory fills up and swaps.
SPECIFICATION Spec
CONSTANTS
  Pages = {1, 2, 3, 4, 5}
  DRAM_PAGES = 3
  Frames = {0, 1, 2, 3, 4, 5, 6}
  RandomFrames = {0, 1, 2, 3}
  Runs = {1, 2}
  Modulus = 16
INVARIANTS
  TypeOK
  MutualInverse
  Accounting
PROPERTIES
  ImplementsAddressMap
