SPECIFICATION FairCoordSpec
CONSTANTS
  c1 = c1
  c2 = c2
  j1 = j1
  a1 = a1
  a2 = a2
  d1 = d1
  d2 = d2
  r1 = r1
  t1 = t1
  dg1 = dg1
  dg2 = dg2
  Call = {c1, c2}
  Op = {"submit", "claim", "poll", "cancel"}
  JobId = {j1}
  AttemptId = {a1, a2}
  Device = {d1, d2}
  Target = {t1}
  RequestId = {r1}
  Digest = {dg1, dg2}
  Payload = {p1, p2}
  Report <- MCReport
  FenceToken = {}
  Submission <- MCTwoContents
  Credential <- MCCredential
  MaxRounds = 3
  PollLimit = 1
  RowStates = {"disabled"}
  BindingStates = {}
  None = None
INVARIANTS
  AnswersHold
PROPERTIES
  ImplementsStore
  CallsEnd
