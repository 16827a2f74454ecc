CONSTANTS
  Key = {k1, k2}
  Serial = {s1}
  Pass = {w1}
  Remote = {}
  Loopback = {}
  MaxLocks = 2
  MaxHolders = 2
  MaxTicks = 0
  None = None
SPECIFICATION Spec
INVARIANT TimerReachesHolder
CHECK_DEADLOCK FALSE
