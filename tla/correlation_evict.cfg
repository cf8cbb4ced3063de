\* One instruction, which makes the table that of GAC.
SPECIFICATION RecordedSpec
CONSTANTS
  pc1 = pc1
  Pcs = {pc1}
  Pages = {1, 2, 3, 4}
  S = 2
  Follows <- HubFollows
INVARIANTS
  EvictionFindsVictim
