CONSTANTS
  Parallelism = 4
  WordBytes = 2
  WordsPerTile = 2
  CountMod = 16
  ActDepth = 2
  BiasPerRow = 2
  InDims = {2}
  TileCounts = {2}
  ElapsedCap = 30
SPECIFICATION FairSpec
PROPERTY LayerEnds
