SPECIFICATION FairSpec
CONSTANTS
  c1 = c1  c2 = c2  c3 = c3  a = a  b = b  u1 = u1  u2 = u2  m = m
  Conn = {c1, c2, c3}
  IP = {a, b}
  Upstream = {u1, u2}
  Module = {m}
  MaxQueues = 2
  NoQueue = NoQueue
  ClientIP <- TwoAddresses
  Hash <- Hashes
  UpstreamOrder <- Order
  Configs <- OneOfTwoRemoved
INVARIANTS
  CountersBalance
  PerIPCap
  PlacesOwned
PROPERTIES
  QueueWithinCap
  EveryRelayReturns
