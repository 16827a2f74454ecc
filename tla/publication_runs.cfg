CONSTANTS
  Credential = {k1, k2}
  Challenge = {c1}
  ValidFrom <- Zero
  ValidUntil <- Zero
  Drift = 0
  MaxTime = 0
  MaxHeads = 5
  MaxRuns = 3
  Process = {p1, p2}
  Admin = {a1, a2}
  None = None
SPECIFICATION PreprodSpec
INVARIANTS
  ConfirmedRevocationHolds
  RecordsAreTruthful
  DeploymentsRecorded
  AdministrationKept
  TrialCleansUp
SYMMETRY Symmetry
VIEW View
CHECK_DEADLOCK FALSE
