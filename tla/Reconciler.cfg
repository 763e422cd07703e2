SPECIFICATION FairSpec
CONSTANTS
  Replica = {1}
  ConfigSpec = {"c1", "c2", "bad"}
  Valid = {"c1", "c2"}
  RouteSpec = {"r1"}
  MaxEdits = 3
  MaxFailures = 1
  MaxRestarts = 1
INVARIANTS
  QuietIsCurrent
PROPERTIES
  NoStaleVerdict
  Converges
CHECK_DEADLOCK FALSE
