CONSTANTS
  Usages = {{"run"}, {"start"}, {"run", "start"}}
  MaxInferences = 3
SPECIFICATION FairSpec
INVARIANTS OkMeansOutput FlagIsThisInference
PROPERTIES CallsReturn EveryStartIsReported
CHECK_DEADLOCK FALSE
