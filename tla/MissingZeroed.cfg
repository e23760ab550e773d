SPECIFICATION Spec
CONSTANTS
  r1 = r1
  r2 = r2
  r3 = r3
  u1 = u1
  u2 = u2
  k1 = k1
  k2 = k2
  a1 = a1
  a2 = a2
  m = m
  p0 = p0
  NULL = NULL
  Sessions = {r1, r2, r3}
  Requests = {r1, r2, r3}
  Users = {u1}
  Keys = {k1, k2}
  Accounts = {a1, m}
  Merchant = m
  Owner <- OwnerOne
  CreatedAt <- AgeOne
  CreditLimit <- LimitOne
  Currency <- CurrencyOne
  Codes = {"USD"}
  MaxBigint = 9
  Amounts = {2}
  Currencies = {"USD"}
  PoolSize = 2
  FirstPool = p0
  Faults = {"drop_snapshot"}
  MaxFaults = 1
SYMMETRY KeySymmetry
INVARIANTS
  MissingIsRebuilt
CHECK_DEADLOCK FALSE
