SPECIFICATION FairSpec
CONSTANTS
  config <- MCSplit
  Location <- MCConflict
  MaxOutstanding = 2
PROPERTIES
  AnswersAll
