\* The contract is registered anew, in other versions, while its run is served.
SPECIFICATION Spec
CONSTANTS
  None = None
  w1 = w1
  w2 = w2
  Steps <- MCSteps
  Ops <- MCOps
  RunIds = {"r1"}
  Contracts = {"report"}
  Workers = {w1}
  Submissions <- Versions
  Seeded <- SeedShort
  Restarts = TRUE
  MaxObs = 6
  MaxStarts = 1
INVARIANTS
  RunsCoherent
  ApprovalPrecedesGatedStep
  EndIsRecorded
CHECK_DEADLOCK FALSE
