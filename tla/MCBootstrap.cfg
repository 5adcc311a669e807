SPECIFICATION BootSpec
CONSTANTS
  p1 = p1
  p2 = p2
  Pod = {p1, p2}
  MaxAttempts = 3
  MaxCommits = 4
SYMMETRY PodSym
INVARIANTS
  RowIsTrue
PROPERTIES
  OwnersWorkIsKept
CHECK_DEADLOCK FALSE
