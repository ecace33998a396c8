\* Two puts of one run overlap.
SPECIFICATION Spec
CONSTANTS
  k1 = k1
  k2 = k2
  k3 = k3
  Callers = {k1, k2}
  RunIds = {"r1"}
  Pieces = 2
  MaxPuts = 3
  Overlap = TRUE
INVARIANTS
  PublishedWhole
CHECK_DEADLOCK FALSE
