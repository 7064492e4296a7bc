CONSTANTS
  p1 = p1
  p2 = p2
  Phones = {p1, p2}
  Requests <- MCRequests
  Dispatchers = {d1}
  Starters = {s1}
  DelayMin = 1
  DelayMax = 1
  MinSendGap = 1
  Cooldown = 2
  MaxAttempts = 1
  MaxClaims = 2
  DayLength = 4
  WindowStart = 0
  WindowEnd = 3
  DispatchEnd = 3
  Horizon = 5
  MaxRows = 3
  MaxStarts = 2
  MaxCrashes = 0
  MaxTicks = 0
SPECIFICATION Spec
INVARIANTS
  NoDuplicatePending
  StagedApart
