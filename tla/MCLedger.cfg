SPECIFICATION Spec
CONSTANTS
  Wallets = {w1, w2}
  Keys = {k1, k2, k3, k4}
  Amounts = {1, 2}
  ExpiryDays = {0, 1, 2}
  MaxTime = 1
SYMMETRY Symmetry
CHECK_DEADLOCK FALSE
INVARIANTS
  BalancesSound JournalChained Reconciled EndedOnce LiabilityRollsForward
PROPERTIES
  HistoryImmutable MergedWalletClosed
