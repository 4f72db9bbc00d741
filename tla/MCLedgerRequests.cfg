SPECIFICATION FairSpec
CONSTANTS
  Calls = {c1, c2, c3}
  Nobody = nobody
  Wallets = {1, 2, 3}
  a = a
  b = b
  g1 = g1
  g2 = g2
  h = h
  Keys = {a, b, g1, g2, h}
  Requests <- MCRequests
  Wallet0 <- MCWallet0
  Journal0 <- MCJournal0
  Hold0 <- MCHold0

CHECK_DEADLOCK FALSE
INVARIANTS
  AnsweredOnceAsAsked MergeFollowsBalance
PROPERTIES
  LedgerSteps EveryCallEnds
