SPECIFICATION ApprovalSpec
CONSTANTS
  Admins = {a1, a2, a3}
  ApprovalRequests = {r1, r2}
  PayloadKeys = {k1}
  Files = {f1}
  OldUsers <- MCOldUsers
  Csv <- MCCsv
  NoAdmin = nobody
  MaxBatches = 2
  MaxCrashes = 1
SYMMETRY Symmetry
CONSTRAINT OneSubject
CHECK_DEADLOCK FALSE
INVARIANTS
  OneExecutor CreditedOnce ApprovedIsCarriedOut
