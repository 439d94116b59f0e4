SPECIFICATION Spec
CONSTANTS
  Codes <- MCCodes
  English = "en"
  TransCode <- MCTransCode
  BaseCode <- MCBaseCode
  ZimCodes = {"en", "zh"}
  NameBegins <- MCNameBegins
  FileSlug <- MCFileSlug
  CollectionSlug <- MCCollectionSlug
  Looks <- MCLooks
  Shapes <- MCShapes
  Listings <- MCListings
  RootListings <- MCRootListings
  MaxEnglish = 2
INVARIANTS
  FilesShown
  TilesShown
  OpensOwn
  TextIsCurrent
PROPERTIES
  CorrectionsKept
CHECK_DEADLOCK FALSE
