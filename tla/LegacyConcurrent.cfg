\* Two requests in flight, a run id used twice, the contract registered anew,
\* a store that may fail, a restart.
SPECIFICATION Spec
CONSTANTS
  None = None
  k1 = k1
  k2 = k2
  Steps <- MCSteps
  Ops = {}
  Hops = 6
  Workers = {k1, k2}
  RunIds = {"r1"}
  Contracts = {"report"}
  Seed <- SeedReport
  Candidates <- Versions
  OutcomeMaps <- Asked
  FileContract = "report"
  EscalationStep = "s3"
  MaxStarts = 2
  MaxRestarts = 1
SYMMETRY WorkerSymmetry
INVARIANTS
  TypeOK
  GatePassedByDecision
  DecisionTakenOnce
  WaitingRunPersisted
  BlockedRunDecidable
PROPERTIES
  DecisionSnapshotStays
CHECK_DEADLOCK FALSE
