CONSTANTS
  Parallelism = 8
  WordBytes = 2
  WordsPerTile = 4
  CountMod = 16
  ActDepth = 4
  NumLayers = 4
  LayerInDim <- MCFourLayers
  StrayDims <- MCStrayDims
  MaxInferences = 3
  PatientHost = TRUE
  HostResets = TRUE
SPECIFICATION FairSpec
INVARIANT OutputIsThisInference
PROPERTIES EveryInferenceEnds ImplementsService
