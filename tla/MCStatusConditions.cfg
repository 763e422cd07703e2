SPECIFICATION Spec
CONSTANTS
  GatewaySpecs <- Listeners
  ServedPorts = {873}
  RouteSpecs <- Routes
  MaxGen = 2
  MaxClock = 3
PROPERTIES
  WriteSettles
  ForeignUntouched
  HonestTimes
  RejectionsAnnounced
CHECK_DEADLOCK FALSE
