CONSTANTS
  a = a
  b = b
  Users <- MCUsers
  OneAccount = TRUE
  MaxMessages = 4
  MaxBuilds = 4
  MaxReloads = 1
SPECIFICATION FairSpec
INVARIANTS
  PointerOwner
  ShownIsSaved
  ClearedIsGone
PROPERTIES
  SignedInIsShown
CHECK_DEADLOCK FALSE
