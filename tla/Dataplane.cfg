SPECIFICATION FairSpec
CONSTANTS
  N = 3
  Conn = {c1, c2}
  MaxApplies = 2
INVARIANTS FirstIsFreshest OnlyUncountedAreCut
PROPERTIES ShutdownCompletes
CHECK_DEADLOCK FALSE
