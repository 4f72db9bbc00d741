SPECIFICATION ApprovalSpec
CONSTANTS
  Admins = {a1, a2, a3}
  ApprovalRequests = {r1}
  PayloadKeys = {k1}
  Files = {f1}
  OldUsers <- MCOldUsers
  Csv <- MCCsv
  NoAdmin = nobody
  MaxBatches = 1
  MaxCrashes = 0
SYMMETRY Symmetry
CHECK_DEADLOCK FALSE
INVARIANTS
  RejectedIsNotCarriedOut
