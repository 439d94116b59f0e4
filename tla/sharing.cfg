SPECIFICATION FairSpec
CONSTANTS
  MaxBytes = 3
  RestartAt = {"idle", "count", "save", "add", "hook", "nat", "dns", "dnsmasq", "phones"}
  ResetAt = {"idle", "count", "unhook", "remove", "add", "hook", "nat", "dns", "dnsmasq", "phones"}
  ListMayFail = FALSE
  DnsMayFail = TRUE
INVARIANTS
  NeverTwice
  Accounted
PROPERTIES
  SharingSettles
  PhonesRejoin
