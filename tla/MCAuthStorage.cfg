CONSTANTS
  i1 = i1
  i2 = i2
  c1 = c1
  c2 = c2
  p1 = p1
  p2 = p2
  Instances = {i1, i2}
  Providers = {p1, p2}
  Callers = {c1, c2}
  InstanceOf <- MCInstanceOf
  Nobody = Nobody
  Orphan = Orphan
  MaxTokens = 3
  MaxCrashes = 1
SYMMETRY MCSymmetry
SPECIFICATION Spec
INVARIANTS
  RefreshOnce
  FileCanRefresh
PROPERTIES
  FileNeverBack
  NothingVanishes
CHECK_DEADLOCK FALSE
