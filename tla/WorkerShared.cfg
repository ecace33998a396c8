\* Two isolates, two requests in flight, a namespace that lags, evidence that expires.
SPECIFICATION Spec
CONSTANTS
  None = None
  k1 = k1
  k2 = k2
  i1 = i1
  i2 = i2
  Steps <- MCSteps
  Ops = {}
  Hops = 4
  Eventual = TRUE
  Isolates = {i1, i2}
  Workers = {k1, k2}
  RunIds = {"r1"}
  Contracts = {"report", "index"}
  IndexId = "index"
  Seed <- SeedReview
  Candidates = {}
  OutcomeMaps <- ApprovalAsked
  MaxRegistrations = 0
  MaxStarts = 2
  Retention = TRUE
  MaxDecisions = 1
SYMMETRY Symmetric
INVARIANTS
  TypeOK
  ContinuationOnRecord
  GatePassedByDecision
  PromisedRunKept
  DecidedRunNotWaiting
PROPERTIES
  DecisionEvidenceStays
CHECK_DEADLOCK FALSE
