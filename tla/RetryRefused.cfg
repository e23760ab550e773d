SPECIFICATION Spec
CONSTANTS
  c1 = c1
  c2 = c2
  c3 = c3
  c4 = c4
  Calls = {c1, c2, c3}
  Gets = {c1}
  MaxRetries = 2
  Timeout = 1
  Guards = {TRUE}
  StartTime = 3
  MaxTime = 8
  FailThreshold = 2
  FailWindow = 2
  OpenCooldown = 2
  HalfOpenProbe = 1
  TokenTTL = 2
  Skew = 1
  Tolerance = 2
  Skews = {1}
SYMMETRY GetSymmetry
INVARIANTS
  RetryNotRefused
CHECK_DEADLOCK FALSE
