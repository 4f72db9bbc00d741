CONSTANTS
  Jobs = {"liability-snapshot", "expiry-notice"}
  Instances = {i1, i2}
  a = a
  b = b
  None = None
  Lots <- MCLots
  MaxDay = 2
  DaysBefore = 2
  MaxAccounts = 1
  Boundary = 2
  Transactions = {t1}
SPECIFICATION JobsSpec
SYMMETRY Symmetry
INVARIANTS
  OneUnlessOverrun
  ToldOnceUnlessOverrun
  SnapshotIsMonthEndUnlessCrossed
  LockEndsUnlessCutShort
