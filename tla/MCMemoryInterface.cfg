CONSTANTS
  LowSize = 2
  StackNum = 2
  PortNum = 2
  SwitchBatch = 2
  ReadersPerCore = 2
  ReadsPerTick = 1
  Address <- MCAddress
  Submission <- MCSubmission
  MaxSubmissions = 2
  DramDepth = 2
SPECIFICATION FairSpec
INVARIANTS
  EntriesMatchReads
  ProcessingNumExact
PROPERTIES
  ImplementsReadService
  ReadersGetReady
