SPECIFICATION Spec
CONSTANTS
  w1 = w1
  w2 = w2
  a1 = a1
  e1 = e1
  e2 = e2
  m1 = m1
  m2 = m2
  t1 = t1
  t2 = t2
  card = card
  Workers <- MCWorkers
  Admins <- MCAdmins
  Callers <- MCCallers
  Entitled <- MCEntitled
  Terms <- MCTerms
  AssetOf <- MCAssetOf
  Events <- MCEvents
  Bodies <- MCBodies
  Deliveries <- MCDeliveries
  MaxAttempts = 2
  MaxCrashes = 1
  NoBody = nobody
  NoEvent = noevent
  NoJob = nojob
SYMMETRY Symmetry
INVARIANTS
  OneWorkerPerEvent HoldingOrTombstone NoUniqueViolation SucceededIsAccomplished
PROPERTIES
  RevokedStaysRevoked
