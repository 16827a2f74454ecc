CONSTANTS
  Task = {p1, p2, p3, p4, p5}
  Issuer = {i1, i2}
  Key = {s1, s2}
  None = None
SPECIFICATION Spec
INVARIANTS
  OneIssuer
  CurrentKeyOpens
PROPERTIES
  WritesStand
SYMMETRY Symmetry
CHECK_DEADLOCK FALSE
