SPECIFICATION Spec
CONSTANTS
  N = 2
  Conn = {c1}
  MaxApplies = 1
INVARIANTS DrainWaitsForAll
CHECK_DEADLOCK FALSE
