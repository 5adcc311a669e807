SPECIFICATION ConnSpec

CONSTANTS
  JobId = {j1}
  AttemptId = {a1, a2}
  Device = {d1, d2}
  Target = {t1}
  RequestId = {r1}
  Digest = {g1}
  Payload = {p1}
  FenceToken = {}
  None = None
  Self = d1
  Crashes = 1
  Losses = 1
  OrcaFaults = 2
  Executors = {"logical", "command"}
  ResultTargets = {"none", "resource"}
  MayCancel = TRUE
  MayReconcile = TRUE
  Report <- AllReports
  Faults <- AllFaults
  Receipts <- CloseReceipts
INVARIANTS
  AtMostOnceDispatch
  NoOrphanedClaim
  CompletedWasWorked
  LocalStateIsSound
