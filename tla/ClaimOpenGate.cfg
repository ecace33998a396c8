\* Counterexample: a run that waits on a gate already resolved.
SPECIFICATION Spec
CONSTANTS
  None = None
  w1 = w1
  w2 = w2
  Steps <- MCSteps
  Ops <- MCOps
  RunIds = {"r1"}
  Contracts = {"report"}
  Workers = {w1}
  Submissions = {}
  Seeded <- SeedTwoGates
  Restarts = FALSE
  MaxObs = 6
  MaxStarts = 1
INVARIANTS
  WaitingRunHasOpenGate
CHECK_DEADLOCK FALSE
