SPECIFICATION FairWsSpec
CONSTANTS
  None = None
  Request = {r1, r2}
  MaxCommits = 4
  MaxMoves = 2
  MaxNet = 1
  MaxCrashes = 1
INVARIANTS
  AppliedOnce
  OutcomeIsTrue
  PendingIsKept
PROPERTIES
  PendingSettles
