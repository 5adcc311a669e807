SPECIFICATION OAuthSpec
CONSTANTS
  None = None
  p1 = p1
  u1 = u1
  u2 = u2
  b1 = b1
  b2 = b2
  c1 = c1
  c2 = c2
  q1 = q1
  t1 = t1
  t2 = t2
  t3 = t3
  a1 = a1
  a2 = a2
  Person = {p1}
  User = {u1, u2}
  Browser = {b1, b2}
  Client = {c1, c2}
  DcrClient = {c1}
  Request = {q1}
  Token = {t1, t2, t3}
  Process = {a1, a2}
  MaxPages = 2
SYMMETRY OAuthSym
INVARIANTS
  LookupsResolve
  TokensAreSound
PROPERTIES
  DecisionIsFinal
CHECK_DEADLOCK FALSE
