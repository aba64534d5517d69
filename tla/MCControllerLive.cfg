SPECIFICATION FairSpec
CONSTANTS
  config <- MCRanks
  Location <- MCConflict
  MaxOutstanding = 2
PROPERTIES
  SameLocationInOrder
  AnswersAll
  EveryRankRefreshed
