\* Safety of the pool, its refinement of SessionPool, and get that returns.
SPECIFICATION TimedCallers
CONSTANTS
  r1 = r1
  r2 = r2
  r3 = r3
  c1 = c1
  c2 = c2
  c3 = c3
  Req <- MCReq
  Conn <- MCConn
  NoConn = NoConn
  MaxConnections = 2
  Prewarmed <- MCPrewarmed
INVARIANTS
  PermitAccounting
  ConnectionsBounded
  ExclusiveCheckout
  NoIdlePermitWhileWaiting
PROPERTIES
  ImplementsSessionPool
  GetReturns
