SPECIFICATION FairSpec
CONSTANTS
  onboard = onboard
  dongle = dongle
  Wifi = {onboard, dongle}
  Driver <- MCDriver
  Predictable = {dongle}
  MaxFaults = 2
INVARIANTS
  ProgressTrue
  FilesInStep
PROPERTY
  BoxComesUp
