SPECIFICATION MCSpec
CONSTANTS
  a1 = a1  a2 = a2
  ClusterNum = 3
  CoreNum = 2
  BatchSize = 2
  Inputs <- MCInputs
  Structure <- MCStructure
  LowSize = 8
  StackNum = 4
  LowBits = 3
  StackBits = 2
  MaxAddress = 1023
  Address = {a1, a2}
  elements = 2
  Traces <- MCTraces
  MaxClk = 4
  Counter = {reads, writes}
  Value = {0, 1, 2, 4, 5, 6}
  start_val = 1
  end_val = 5
  num_bins = 2
  MaxEvents = 4
INVARIANTS
  EveryProbeServedOnce
  LatencySpansProbes
  OnePlacePerRequest
  MapIsBitwise
  ElementsComplete
  TraceInOrder
  TotalsExact
  BinsOfHeaders
PROPERTIES
  RunEndsIfAllBusy
  EveryTransactionAnswered
CHECK_DEADLOCK FALSE
