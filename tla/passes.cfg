SPECIFICATION Spec
CONSTANTS
  Sources <- MCSources
  Samples <- MCSamples
  Managers = {"cli", "transformer"}
  Length = 3
INVARIANTS MeaningPreserved WellFormed CachesFresh ScalesAgree StageValidates BlocksCompose
