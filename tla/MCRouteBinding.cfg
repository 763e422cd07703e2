SPECIFICATION Spec
CONSTANTS
  Classes <- MCClasses
  Configs <- MCConfigs
  Second = 2
  Malformed = Malformed
  NoConfig = NoConfig
  Gateways <- MCGateways
  RouteSpec <- MCRouteSpec
  GatewayRank <- MCGatewayRank
  RouteRank <- MCRouteRank
  Services <- MCServices
  Grants <- MCGrants
  Tokens <- MCTokens
  NameLimit = 4
  MaxClock = 2
INVARIANTS
  ConflictJustified
  TableIsEntitled
  HealthyIsServed
  AcceptedTakesEffect
PROPERTY
  NewcomersDisturbNobody
