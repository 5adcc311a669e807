SPECIFICATION FairDeleteSpec
CONSTANTS
  j1 = j1
  j2 = j2
  a1 = a1
  d1 = d1
  r1 = r1
  r2 = r2
  t1 = t1
  dg1 = dg1
  Call = {c1}
  Op = {"submit", "claim", "report"}
  JobId = {j1, j2}
  AttemptId = {a1}
  Device = {d1}
  Target = {t1}
  RequestId = {r1, r2}
  Digest = {dg1}
  Payload = {}
  Report <- MCReport
  FenceToken = {k1, k2}
  Submission <- MCSubmission
  Credential <- MCCredential
  MaxRounds = 3
  PollLimit = 1
  RowStates = {}
  BindingStates = {}
  ScanBatch = 1
  SlowDeletes = {}
  None = None
INVARIANTS
  NothingRunsOnDeleted
PROPERTIES
  DeletesOnlyQuiet
  FenceHeals
