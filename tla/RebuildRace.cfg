SPECIFICATION OpsSpec
CONSTANTS
  r1 = r1
  r2 = r2
  r3 = r3
  s1 = s1
  s2 = s2
  u1 = u1
  k1 = k1
  k2 = k2
  k3 = k3
  a1 = a1
  m = m
  p0 = p0
  NULL = NULL
  Sessions = {r1, r2, r3, s1}
  Requests = {r1, r2, r3}
  Users = {u1}
  Keys = {k1, k2, k3}
  Accounts = {a1, m}
  Merchant = m
  Owner <- OwnerOne
  CreatedAt <- AgeOne
  CreditLimit <- LimitOne
  Currency <- CurrencyOne
  Codes = {"USD"}
  MaxBigint = 9
  Amounts = {1}
  Currencies = {"USD"}
  PoolSize = 2
  FirstPool = p0
  Faults = {}
  MaxFaults = 0
  Scripts = {s1}
  Kinds = {"rebuild"}
SYMMETRY SessionSymmetry
INVARIANTS
  NoOverspend
CHECK_DEADLOCK FALSE
