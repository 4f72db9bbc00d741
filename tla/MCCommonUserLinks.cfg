SPECIFICATION FairSpec
CONSTANTS
  None = none
  ann = ann
  bob = bob
  i1 = i1
  i2 = i2
  Accounts = {ann, bob}
  Ids = {i1, i2}
  Rank <- MCRank
  Agencies = {x, y}
  Calls = {c1, c2}
  Given <- MCGiven
  MaxCalls = 3
CHECK_DEADLOCK FALSE
INVARIANTS
  OneAccountPerId
PROPERTIES
  ReferrerSetOnce EveryCallEnds
