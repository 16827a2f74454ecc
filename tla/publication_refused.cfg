CONSTANTS
  Credential = {k1, k2}
  Challenge = {c1}
  ValidFrom <- Zero
  ValidUntil <- Zero
  Drift = 0
  MaxTime = 0
  MaxHeads = 5
  MaxRuns = 4
SPECIFICATION Spec
INVARIANTS
  RefusesOnlyUnresolved
SYMMETRY Symmetry
CHECK_DEADLOCK FALSE
