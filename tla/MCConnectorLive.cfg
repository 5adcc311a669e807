SPECIFICATION FairConnSpec

CONSTANTS
  JobId = {j1}
  AttemptId = {a1}
  Device = {d1}
  Target = {t1}
  RequestId = {r1}
  Digest = {g1}
  Payload = {p1}
  FenceToken = {}
  None = None
  Self = d1
  Crashes = 1
  Losses = 1
  OrcaFaults = 0
  Executors = {"logical", "command"}
  ResultTargets = {"none", "resource"}
  MayCancel = FALSE
  MayReconcile = FALSE
  Report <- AllReports
  Faults <- AllFaults
  Receipts <- CloseReceipts

PROPERTY DeviceFreed
PROPERTY ResultsArrive
