SPECIFICATION ControlSpec
CONSTANTS
  u1 = u1
  u2 = u2
  w1 = w1
  w2 = w2
  d1 = d1
  d2 = d2
  t1 = t1
  t2 = t2
  a1 = a1
  a2 = a2
  r1 = r1
  r2 = r2
  None = None
  User = {u1, u2}
  MaySuspend = {u1}
  Workspace = {w1, w2}
  Device = {d1, d2}
  Target = {t1, t2}
  Alias = {a1, a2}
  RepoName = {r1, r2}
  Owner <- MCOwner
  Linked <- MCLinked
  FirstName <- MCFirstName
SYMMETRY Symmetry
INVARIANTS
  Reopens
  EligibilityAgrees
PROPERTIES
  NoWayBack
