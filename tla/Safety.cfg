SPECIFICATION Spec
CONSTANTS
  r1 = r1
  r2 = r2
  r3 = r3
  u1 = u1
  u2 = u2
  k1 = k1
  k2 = k2
  a1 = a1
  a2 = a2
  m = m
  p0 = p0
  NULL = NULL
  Sessions = {r1, r2, r3}
  Requests = {r1, r2, r3}
  Users = {u1, u2}
  Keys = {k1, k2}
  Accounts = {a1, a2, m}
  Merchant = m
  Owner <- OwnerTwo
  CreatedAt <- AgeTwo
  CreditLimit <- LimitTwo
  Currency <- CurrencyTwo
  Codes = {"USD", "EUR"}
  MaxBigint = 9
  Amounts = {1}
  Currencies = {"USD", "EUR"}
  PoolSize = 2
  FirstPool = p0
  Faults = {"set_status"}
  MaxFaults = 1
SYMMETRY KeySymmetry
INVARIANTS
  NoOverspend
  SnapshotMatchesLedger
  DoubleEntry
  NoStaleApproval
  LockHasOneHolder
  ResponsesBacked
  AnswersAgree
PROPERTIES
  ActiveAtPosting
CHECK_DEADLOCK FALSE
