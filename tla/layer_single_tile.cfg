CONSTANTS
  Parallelism = 4
  WordBytes = 2
  WordsPerTile = 2
  CountMod = 16
  ActDepth = 2
  BiasPerRow = 2
  InDims = {1, 2, 4, 7}
  TileCounts = {1}
  ElapsedCap = 30
SPECIFICATION FairSpec
INVARIANTS InStep TileIsComplete LatencyIsFixed
PROPERTY LayerEnds
