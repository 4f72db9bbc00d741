SPECIFICATION FairSpec
CONSTANTS
  Events = {e1}
  Dispatchers = {d1, d2, d3}
  Nothing = nothing
  BatchLimit = 2
  MaxAttempts = 3
  MaxRetries = 1
  MaxCrashes = 1
CHECK_DEADLOCK FALSE
INVARIANTS
  ExclusiveUnlessRetried SentWasDelivered
PROPERTIES
  SettledStaysSettled EveryEventSettles
