SPECIFICATION FairSpec
CONSTANTS
  Commands = {"hostname", "brand", "static", "country", "reset"}
  r1 = r1
  r2 = r2
  Requests = {r1, r2}
  Names = {"box", "new", "b_d"}
  First = "box"
  BadNames = {"b_d"}
  Options = {"off", "on"}
  Default = "off"
  NoToken = NoToken
  Tokens = {t1}
  t1 = t1
  Empty = Empty
  None = None
  MaxAsked = 2
  MaxCuts = 1
  Afterwards = FALSE
  TmpSurvives = TRUE
INVARIANTS
  NothingLeftBehind
PROPERTIES
  SettingsKept
  ResetRestores
  NamesSettle
CHECK_DEADLOCK FALSE
