CONSTANTS
  NumNodes = 4
  NumInputs = 2
  MaxActs = 2
  ExtraActs = 1
  Forward = FALSE
  InnerOutputs = FALSE
  Widths <- RegularWidths
  MaxParallelism = 4
  BiasesPerRow = 2
  TileOverhead = 9
  WeightBankDepth = 20
  BiasBankDepth = 10
SPECIFICATION PackSpec
INVARIANTS SortsOrRejects NothingLiveIsLost RefusesOnlyWhenFull OperandsAreWhereRead ChainValidates
PROPERTY ImplementsAllocator
CHECK_DEADLOCK FALSE
