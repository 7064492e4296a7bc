CONSTANTS
  p1 = p1
  p2 = p2
  Phones = {p1, p2}
  Requests <- MCSingle
  Dispatchers = {d1}
  Starters = {s1, s2}
  DelayMin = 1
  DelayMax = 1
  MinSendGap = 2
  Cooldown = 3
  MaxAttempts = 2
  MaxClaims = 2
  DayLength = 6
  WindowStart = 0
  WindowEnd = 5
  DispatchEnd = 6
  Horizon = 2
  MaxRows = 2
  MaxStarts = 2
  MaxCrashes = 0
  MaxTicks = 1
SPECIFICATION FairSpec
PROPERTIES
  Dispatched
