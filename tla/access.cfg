CONSTANTS
  Operator = {o1}
  Token = {t1, t2}
  Recovery = Recovery
  None = None
  Server = {s1}
  Request = {r1}
  Enrollment = {e1, e2}
  Credential = {k1}
  Command = {c1, c2, c3}
  Role = {"issuer", "administrator"}
  Action = {"approve", "revoke", "issue"}
  Lifetime = 1
  MaxTime = 1
SPECIFICATION ConsoleSpec
INVARIANTS
  ActorStood
  NobodyStranded
  ActsAsShown
SYMMETRY Symmetry
CHECK_DEADLOCK FALSE
