SPECIFICATION Spec
CONSTANTS
  c1 = c1  c2 = c2  c3 = c3  a = a  b = b  u1 = u1  u2 = u2  m = m
  Conn = {c1, c2, c3}
  IP = {a}
  Upstream = {u1}
  Module = {m}
  MaxQueues = 2
  NoQueue = NoQueue
  ClientIP <- OneAddress
  Hash <- HashOfOne
  UpstreamOrder <- OrderOfOne
  Configs <- RemovedAndAdded
PROPERTIES
  AdmissionWithinCap
