SPECIFICATION Spec
CONSTANTS
  Calls = {c1, c2}
  Nobody = nobody
  old = old
  new = new
  k1 = k1
  k2 = k2
  k3 = k3
  k4 = k4
  k5 = k5
  k6 = k6
  k7 = k7
  k8 = k8
  Users = {old, new}
  Registered = {old}
  Keys = {k1, k2, k3, k4, k5, k6, k7, k8}
  Requests <- MCRequests
  Settings <- MCSettings
  PerRequest = 2
  Daily = 2
  MaxDay = 1
  MaxMore = 1
SYMMETRY Symmetry
CHECK_DEADLOCK FALSE
INVARIANTS
  DailyLimitKept
PROPERTIES
  CapsRespected RetryIsNotLimited
