SPECIFICATION TimedSpec
CONSTANTS
  config <- MCDevice
  Row <- MCTwoRows
  MaxRefreshes = 1
INVARIANTS
  ExitsOnlyAsleep
  ActivationsPerWindow
PROPERTIES
  DataBusExclusive
  DataRestored
  RefreshAfterRowCycle
  ActivateAfterRefresh
CHECK_DEADLOCK FALSE
