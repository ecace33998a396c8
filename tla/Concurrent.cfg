\* Two requests in flight on one run of the seeded contract.
SPECIFICATION Spec
CONSTANTS
  None = None
  w1 = w1
  w2 = w2
  Steps <- MCSteps
  Ops <- MCOps
  RunIds = {"r1"}
  Contracts = {"report"}
  Workers = {w1, w2}
  Submissions = {}
  Seeded <- SeedReport
  Restarts = FALSE
  MaxObs = 6
  MaxStarts = 1
SYMMETRY WorkerSymmetry
INVARIANTS
  TypeOK
  RunsCoherent
  CallsAdmitted
  ApprovalPrecedesGatedStep
  EndIsRecorded
CHECK_DEADLOCK FALSE
