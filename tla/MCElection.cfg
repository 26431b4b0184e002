SPECIFICATION ElectionSpec
CONSTANTS
  ENode = {n1, n2, n3}  NodeFailAfter = 1  HealthQueue = 1  MaxTerm = 2  MaxTrouble = 1
INVARIANTS ElectionSafe
SYMMETRY NodeSymmetry
CHECK_DEADLOCK FALSE
