SPECIFICATION FairSpec
CONSTANTS
  k1 = k1
  k2 = k2
  k3 = k3
  Keys = {k1, k2}
  WholeKeys = {k2}
  BadKeys = {}
  NoKey = NoKey
  NumLetters = 2
  NumSlots = 2
  OwnContent = TRUE
  PanelActive = TRUE
  CopyMode = TRUE
  Restarts = FALSE
  UmountMayFail = TRUE
  LoaderMayFail = FALSE
INVARIANTS
  IndexedIsAtUsb0
PROPERTIES
  MountsKept
  KeyGetsMounted
  MenusSettleUnmoved
