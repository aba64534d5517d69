SPECIFICATION TimedSpec
CONSTANTS
  config <- MCRanks
  Row <- MCRow
  MaxRefreshes = 1
PROPERTY DataBusExclusive
CHECK_DEADLOCK FALSE
