SPECIFICATION Spec
CONSTANTS
  j1 = j1
  j2 = j2
  a1 = a1
  a2 = a2
  d1 = d1
  d2 = d2
  JobId = {j1, j2}
  AttemptId = {a1, a2}
  Device = {d1, d2}
  Target = {t1}
  RequestId = {r1, r2}
  Digest = {dg1}
  Payload = {p1, p2}
  Report <- MCReport
  FenceToken = {k1}
  None = None
SYMMETRY Symmetric
INVARIANTS
  TypeOK JobAttemptAgree OneAttemptPerJob
  QueueOffersClaimable OneJobPerRequest ReportTellsTheTruth
PROPERTIES
  TerminalIsFinal ImplementsLifecycle
