SPECIFICATION FairSpec
CONSTANTS
  a1 = a1  a2 = a2
  links = 2  queue_depth = 1  block_size = 64
  ps_per_dram = 3  ps_per_logic = 2
  vault <- MCTwoQuads  Transaction <- MCMixed
  VaultDepth = 2  MaxOutstanding = 1  MaxAge = 4
INVARIANTS
  LookupFinds
  AgeMeansPacket
PROPERTIES
  CubeProgresses
