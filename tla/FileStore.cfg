\* Three calls at once, puts and gets, on two runs; puts of one run do not overlap.
SPECIFICATION Spec
CONSTANTS
  k1 = k1
  k2 = k2
  k3 = k3
  Callers = {k1, k2, k3}
  RunIds = {"r1", "r2"}
  Pieces = 2
  MaxPuts = 3
  Overlap = FALSE
SYMMETRY CallerSymmetry
INVARIANTS
  TypeOK
  PublishedWhole
PROPERTIES
  StoreIsAtomicMap
CHECK_DEADLOCK FALSE
