------------------------------- MODULE MCHat -------------------------------
EXTENDS Hat

Neo(hat, otg) == [board |-> "NEO", hat |-> hat, otg |-> otg]

MCBoxes ==
  {Neo("none", "off"), Neo("q1y2018", "off"), Neo("q3y2018", "off"),
   Neo("q4y2018", "on"), Neo("q4y2018", "named"), Neo("q3y2021", "on")}
    \cup [board : {"CM", "RM3", "PI"}, hat : {"q4y2018"}, otg : {"off"}]
=============================================================================
