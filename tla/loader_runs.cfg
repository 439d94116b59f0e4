SPECIFICATION Spec
CONSTANTS
  k1 = k1
  k2 = k2
  Keys = {k1}
  Own = Own
  NoKey = NoKey
  UsedBefore = {k1}
  NumDirs = 1
  OwnContent = TRUE
  ExtraRuns = TRUE
  Kills = FALSE
INVARIANTS
  ShownWhileRunning
