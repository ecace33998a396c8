\* One request at a time, contracts registered once: four flows, restarts, a fair operator.
SPECIFICATION FairSpec
CONSTANTS
  None = None
  w1 = w1
  w2 = w2
  Steps <- MCSteps
  Ops <- MCOps
  RunIds = {"r1"}
  Contracts = {"report", "rework", "noreject", "recurring"}
  Workers = {w1}
  Submissions = {}
  Seeded <- SeedFour
  Restarts = FALSE
  MaxObs = 9
  MaxStarts = 2
INVARIANTS
  EvidenceLocatesRun
  ApprovalSpentOnce
PROPERTIES
  EvidenceGrows
  StateAdvancesByFlow
  RunsSettle
CHECK_DEADLOCK FALSE
