SPECIFICATION FairSpec
CONSTANTS
  Boxes <- MCBoxes
  Levels = {"low", "flat"}
  MaxEvents = 3
PROPERTIES
  StartsUp
  PowerDownServed
  TellsBattery
  ScreenGoesDark
CHECK_DEADLOCK FALSE
