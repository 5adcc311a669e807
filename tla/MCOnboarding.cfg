SPECIFICATION OnbSpec
CONSTANTS
  None = None
  u1 = u1
  f1 = f1
  f2 = f2
  r1 = r1
  r2 = r2
  w1 = w1
  w2 = w2
  c1 = c1
  c2 = c2
  User = {u1}
  Flow = {f1, f2}
  Repo = {r1, r2}
  Workspace = {w1, w2}
  Call = {c1, c2}
  MaxPending = 1
SYMMETRY OnbSym
INVARIANTS
  OneWorkspaceEach
  PartialIsRemembered
  StepsInOrder
CHECK_DEADLOCK FALSE
