CONSTANTS
  Process = {p1, p2, p3}
  Issuer = {i1, i2, i3}
  Attempts = 2
  Empty = Empty
  None = None
  Server = {s1}
  Request = {r1, r2}
  Nobody = Nobody
  Store = {"postgres", "sqlite"}
  Limit = 2
  Window = 3
  AttemptLimit = 1
  MaxWait = 1
  MaxTime = 6
SPECIFICATION LocalSpec
INVARIANTS
  AnswersStand
  StartedAsMarked
  WithinBudget
  RefusalIsDue
PROPERTIES
  NoNewIdentity
SYMMETRY Symmetry
CHECK_DEADLOCK FALSE
