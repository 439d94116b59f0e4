SPECIFICATION Spec
CONSTANTS
  k1 = k1
  k2 = k2
  k3 = k3
  Keys = {k1, k2, k3}
  WholeKeys = {}
  BadKeys = {}
  NoKey = NoKey
  NumLetters = 3
  NumSlots = 2
  OwnContent = TRUE
  PanelActive = FALSE
  CopyMode = FALSE
  Restarts = TRUE
  UmountMayFail = FALSE
  LoaderMayFail = TRUE
SYMMETRY SameKeys
INVARIANTS
  SlotsUnique
  NoHiddenKey
