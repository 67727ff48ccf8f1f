CONSTANTS
  Chains <- AllChains
  Words = 2
  LaneWords = 2
  ActDepth = 4
  KernelMod = 4
  CountMod = 4
  MaxRuns = 3
SPECIFICATION Spec
 
PROPERTY FabricEnds
CHECK_DEADLOCK FALSE
