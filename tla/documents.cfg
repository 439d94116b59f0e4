SPECIFICATION Spec
CONSTANTS
  Kinds = {"ppt", "pptx", "ppt text", "pptx text", "xlsx", "xls", "doc"}
  Slides = {1, 2}
  MaxEdits = 6
  RowLimit = 2
  Trees <- MCTrees
  Bodies <- MCBodies
INVARIANTS
  DeckShown
  TextShown
CHECK_DEADLOCK FALSE
