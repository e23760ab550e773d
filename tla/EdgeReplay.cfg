SPECIFICATION PipelineSpec
CONSTANTS
  r1 = r1
  r2 = r2
  r3 = r3
  k1 = k1
  b1 = b1
  b2 = b2
  u1 = u1
  Requests = {r1, r2, r3}
  Protected = {r1, r2}
  Keys = {k1}
  Bodies = {b1, b2}
  Users = {u1}
  Address = Address
  Routes = {"auth", "account"}
  UserLimit = 1
  AddressLimit = 1
  Window = 2
  MaxTime = 2
  NULL = NULL
  MaxFaults = 1
  MaxChainFaults = 1
SYMMETRY Symmetry
INVARIANTS
  ExpiryAdmitsOne
  ReplayIsFaithful
  NoLockLeftBehind
  WithinLimit
  CountersExpire
PROPERTIES
  ImplementsCallNext
CHECK_DEADLOCK FALSE
