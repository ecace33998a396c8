\* Registrations that overlap in two isolates, the id of the index among theirs.
SPECIFICATION Spec
CONSTANTS
  None = None
  k1 = k1
  k2 = k2
  i1 = i1
  i2 = i2
  Steps <- MCSteps
  Ops = {}
  Hops = 4
  Eventual = TRUE
  Isolates = {i1, i2}
  Workers = {k1, k2}
  RunIds = {"r1"}
  Contracts = {"report", "other", "index"}
  IndexId = "index"
  Seed <- SeedReview
  Candidates <- DirectOnly
  OutcomeMaps <- ApprovalAsked
  MaxRegistrations = 2
  MaxStarts = 1
  Retention = FALSE
  MaxDecisions = 0
SYMMETRY Symmetric
INVARIANTS
  IndexedContractsStored
  PublishedContractStored
PROPERTIES
  NewestVersionWalked
CHECK_DEADLOCK FALSE
