CONSTANTS
  Challenge = {c1}
  Holder = {h1, h2}
  Credential = {k1, k2}
  None = None
  Request = {r1, r2, r3}
  OfferTTL = 2
  RetryTTL = 4
  OfferLimit = 1
  RetryLimit = 2
  IssuedLimit = 2
  Skew = 1
  MaxAttempts = 2
  MaxOpen = 2
  MaxTime = 4
SPECIFICATION Spec
INVARIANTS
  RetryReturnsCredential
  OneCredentialPerChallenge
  AnswersAreMinted
PROPERTIES
  StatusNeverRollsBack
SYMMETRY Symmetry
CHECK_DEADLOCK FALSE
