CONSTANTS
  Tab = {b1}
  Session = {s1, s2}
  Challenge = {c1}
  None = None
  MaxSessions = 1
  SessionTTL = 1
  ChallengeTTL = 1
  MaxTime = 2
SPECIFICATION Spec
INVARIANTS
  ResultFits
PROPERTIES
  SessionsStand
SYMMETRY Symmetry
CHECK_DEADLOCK FALSE
