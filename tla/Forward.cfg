SPECIFICATION Spec
CONSTANTS
  c1 = c1
  c2 = c2
  c3 = c3
  c4 = c4
  Calls = {c1, c2, c3}
  Gets = {c1}
  MaxRetries = 2
  Timeout = 1
  Guards = {TRUE, FALSE}
  StartTime = 3
  MaxTime = 5
  FailThreshold = 2
  FailWindow = 1
  OpenCooldown = 1
  HalfOpenProbe = 1
  TokenTTL = 2
  Skew = 1
  Tolerance = 2
  Skews <- SkewEnds
SYMMETRY GetSymmetry
INVARIANTS
  TypeOK
  ClosedBelowThreshold
  TwoProbesPerInterval
  OpenSendsNobody
PROPERTIES
  HandledOnce
  PromptIsCurrent
CHECK_DEADLOCK FALSE
