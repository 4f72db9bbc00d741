SPECIFICATION Spec
CONSTANTS
  None = none
  old = old
  ann = ann
  bob = bob
  s0 = s0
  s1 = s1
  s2 = s2
  k0 = k0
  k1 = k1
  k2 = k2
  Sessions = {s0, s1}
  Accounts = {old, ann, bob}
  Linked0 = {old}
  Keys = {k0, k1}
  LinkKey <- OwnLinks
  Workers = {w1, w2}
  Legacy = TRUE
  Halfway <- MCHalfway
  MaxJobs = 3
SYMMETRY Symmetry
CHECK_DEADLOCK FALSE
INVARIANTS
  OneBonusPerVisit PaidAsAgreed ConfirmNeverCollides
