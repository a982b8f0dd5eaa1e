\* Safety: three requests, two permits, connections that expire.
SPECIFICATION HonestCallers
CONSTANTS
  r1 = r1
  r2 = r2
  r3 = r3
  c1 = c1
  c2 = c2
  c3 = c3
  NoConn = NoConn
  Req <- ThreeReq
  Conn <- MCConn
  Prewarmed <- TwoPrewarmed
  IdleTimeout = 0
  MaxLifetime = 1
  MaxTime = 2
  MaxConnections = 2
  HasTimeout = TRUE
INVARIANTS
  ConnectionsBounded
PROPERTIES
  SweepIsComplete
  ImplementsSessionPool
  Served
