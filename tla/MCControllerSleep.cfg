SPECIFICATION FairSpec
CONSTANTS
  config <- MCSleep
  Location <- MCConflict
  MaxOutstanding = 2
PROPERTIES
  SleepingRankWakes
CHECK_DEADLOCK FALSE
