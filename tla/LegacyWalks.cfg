\* One request at a time, three flows, every outcome a client may ask of a step.
SPECIFICATION Spec
CONSTANTS
  None = None
  k1 = k1
  k2 = k2
  Steps <- MCSteps
  Ops = {}
  Hops = 7
  Workers = {k1}
  RunIds = {"r1"}
  Contracts = {"report", "reviews", "loop"}
  Seed <- SeedThree
  Candidates = {}
  OutcomeMaps <- AllAsked
  FileContract = "loop"
  EscalationStep = None
  MaxStarts = 1
  MaxRestarts = 0
INVARIANTS
  WalkFollowsFlow
CHECK_DEADLOCK FALSE
