CONSTANTS
  ForkPastGaps = FALSE
  MaxEntries = 4
  MaxFiles = 2
  MaxCrashes = 1
SPECIFICATION Spec
INVARIANTS
  FileFollows
  ReopenRestores
  TreesAreWhole
PROPERTIES
  ForkKeepsPath
CHECK_DEADLOCK FALSE
