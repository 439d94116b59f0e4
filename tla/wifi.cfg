SPECIFICATION FairSpec
CONSTANTS
  n1 = n1
  n2 = n2
  Nets = {n1, n2}
  Online = {n1, n2}
  Odd = {n2}
  First = n1
  None = None
  MaxKnown = 2
  MaxActs = 2
PROPERTIES
  OwnKept
  LearntWorks
  WipeHolds
  ConfCatchesUp
  LeaseFollows
  ClientComesBack
