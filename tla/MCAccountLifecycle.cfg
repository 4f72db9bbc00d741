CONSTANTS
  People = {p}
  Logins = {l1, l2, l3}
  Requests = {r1, r2}
  Admins = {m}
  AccountIds = {a1, a2}
  Nobody = Nobody
  HashKey = TRUE
  MaxBalance = 1
SPECIFICATION LifecycleSpec
SYMMETRY Symmetry
INVARIANTS
  OneAccountPerPerson
  ClosedStaysOut
PROPERTIES
  RefusedOnlyIfClosed
