SPECIFICATION FairEnrollSpec
CONSTANTS
  w1 = w1
  u1 = u1
  u2 = u2
  d1 = d1
  d2 = d2
  m1 = m1
  b1 = b1
  b2 = b2
  None = None
  User = {u1, u2}
  MaySuspend = {u1}
  Workspace = {w1}
  Device = {d1, d2}
  Target = {}
  Alias = {}
  RepoName = {}
  Owner <- MCOwner
  Linked = {}
  FirstName <- MCFirstName
  Machine = {m1}
  Browser = {b1, b2}
  MaxActive = 1
INVARIANTS
  DeviceWasApproved
  LocalStateConsistent
PROPERTIES
  LoginsEnd
