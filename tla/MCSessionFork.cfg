CONSTANTS
  ForkPastGaps = TRUE
  MaxEntries = 4
  MaxFiles = 2
  MaxCrashes = 0
SPECIFICATION Spec
PROPERTIES
  ForkKeepsPath
CHECK_DEADLOCK FALSE
