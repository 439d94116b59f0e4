SPECIFICATION Spec
CONSTANTS
  s1 = s1
  s2 = s2
  Sticks = {s1}
  First = s1
  NoStick = NoStick
  Dirs0 = {0, 11}
  Buttons = {"left", "right"}
  OneThread = TRUE
  CutsMayCome = TRUE
  BatteryMayDip = TRUE
INVARIANTS
  FlagPutBack
  StatusExplained
PROPERTIES
  StickKeepsContent
