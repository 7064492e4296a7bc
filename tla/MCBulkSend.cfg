CONSTANTS
  p1 = p1
  p2 = p2
  Phones = {p1, p2}
  Requests <- MCPair
  Dispatchers = {d1, d2}
  Starters = {s1}
  DelayMin = 1
  DelayMax = 1
  MinSendGap = 1
  Cooldown = 3
  MaxAttempts = 2
  MaxClaims = 2
  DayLength = 6
  WindowStart = 1
  WindowEnd = 4
  DispatchEnd = 5
  Horizon = 3
  MaxRows = 2
  MaxStarts = 1
  MaxCrashes = 1
  MaxTicks = 0
SYMMETRY MCSymmetry
SPECIFICATION Spec
INVARIANTS
  ClaimExclusive
  AttemptsCountSends
  RetriesPaced
PROPERTIES
  ImplementsLifecycle
