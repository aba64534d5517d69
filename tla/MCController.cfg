SPECIFICATION FairSpec
CONSTANTS
  config <- MCFull
  Location <- MCLocation
  MaxOutstanding = 2
INVARIANTS
  OneOnItsWay
  RefreshesDoNotPileUp
PROPERTIES
  ReadsBeforeWrites
  AnswersOnce
  FollowsProtocol
CHECK_DEADLOCK FALSE
