CONSTANTS
  Key = {k1, k2}
  Serial = {s1, s2}
  Pass = {w1, w2}
  Remote = {r1}
  Loopback = {}
  MaxLocks = 2
  MaxHolders = 2
  MaxTicks = 1
  None = None
SPECIFICATION Spec
INVARIANTS
  NothingLeftOpen
  HolderHasBackup
  ConsentPerProof
  PresentationMatches
PROPERTIES
  BackupOnlyGrows
SYMMETRY Symmetry
CHECK_DEADLOCK FALSE
