SPECIFICATION FairSpec
CONSTANTS
  k1 = k1
  k2 = k2
  Keys = {k1, k2}
  Own = Own
  NoKey = NoKey
  UsedBefore = {k1}
  NumDirs = 2
  OwnContent = TRUE
  ExtraRuns = FALSE
  Kills = TRUE
PROPERTIES
  ZipIsOwnUndisturbed
  MenusSettleUndisturbed
