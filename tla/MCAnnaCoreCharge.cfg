CONSTANTS
  ReadsPerTick = 2
  CpmCycles = 2
  NCu = 1
  VectorSize = 128
  Cluster <- MCCluster
  MetadataLen <- MCMetadataLen
  VectorLen <- MCVectorLen
  NScm = 2
  ScmCycles = 1
  WordSize = 32
  BatchSize = 2
  VectorNum <- MCVectorNum
  Work <- MCWork
  Garbage = {0, 1}
SPECIFICATION Spec
PROPERTY ChargesOwnCluster
