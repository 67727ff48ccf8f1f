CONSTANTS
  Parallelism = 4
  WordBytes = 2
  WordsPerTile = 2
  CountMod = 16
  ActDepth = 2
  NumLayers = 2
  LayerInDim <- MCTwoLayers
  StrayDims = {4}
  MaxInferences = 2
  PatientHost = FALSE
  HostResets = FALSE
SPECIFICATION Spec
INVARIANT OutputIsThisInference
