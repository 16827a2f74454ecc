CONSTANTS
  Challenge = {c1, c2}
  Call = {v1, v2}
  Ttl = 2
  MaxAge = 0
  Tolerance = 1
  Drift = 2
  ValidFrom = 1
  ValidUntil = 3
  MaxTime = 3
  MaxHeads = 3
  None = None
SPECIFICATION Spec
INVARIANTS
  HandedIsReadable
  AcceptedAreDue
PROPERTIES
  GateSpec
SYMMETRY Symmetry
CHECK_DEADLOCK FALSE
