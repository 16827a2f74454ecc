CONSTANTS
  Credential = {k1}
  Challenge = {c1}
  Call = {v1, v2}
  Unset = Unset
  ValidFrom <- Always
  ValidUntil <- UntilTwo
  Drift = 1
  MaxTime = 2
  MaxHeads = 4
  MaxTTL = 2
  MaxAge = 0
  Tolerance = 0
  Retention = 0
  Hosted = TRUE
SPECIFICATION VerifierSpec
INVARIANTS
  AcceptedOnce
  NoStaleAcceptance
  AcceptedInTime
PROPERTIES
  GateSpec
SYMMETRY Symmetry
CHECK_DEADLOCK FALSE
