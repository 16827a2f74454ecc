CONSTANTS
  Challenge = {c1, c2, c3}
  Holder = {h1}
  Credential = {k1, k2}
  None = None
  Request = {1, 2, 3, 4}
  OfferTTL = 1
  RetryTTL = 2
  OfferLimit = 1
  RetryLimit = 1
  IssuedLimit = 1
  Skew = 0
  MaxAttempts = 2
  MaxOpen = 3
  MaxTime = 0
SPECIFICATION FairSpec
INVARIANTS
  AuditTrail
  BusyOnlyUnderContention
  StoredStateLoads
PROPERTIES
  AtomicSpec
  NoRevokedAnswer
  EveryRequestEnds
CONSTRAINT Bounds
CHECK_DEADLOCK FALSE
