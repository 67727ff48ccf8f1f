CONSTANTS
  NumNodes = 4
  NumInputs = 1
  MaxActs = 2
  ExtraActs = 2
  Forward = TRUE
  InnerOutputs = FALSE
  AxiWidthBytes = 2
  MaxParallelism = 4
  MaxWeightRomBytes = 30
  Networks <- MCNetworks
SPECIFICATION TileSpec
INVARIANTS InputsAreLive PeakIsLargest OverlapsAreTies BusIsExclusive TwoBuffersSuffice OverlapNeverCosts RoutesCarryTheDataflow TilesShareTheOutputs ResidualsAreWired
CHECK_DEADLOCK FALSE
