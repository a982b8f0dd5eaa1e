\* Panics, dropped futures and every statement failing.
SPECIFICATION EngineSpec
CONSTANTS
  r1 = r1
  r2 = r2
  r3 = r3
  c1 = c1
  c2 = c2
  c3 = c3
  NoConn = NoConn
  NoTx = NoTx
  Leaked = Leaked
  Req <- ThreeReq
  Conn <- TwoConn
  Prewarmed <- OnePrewarmed
  Failing <- AnyStatement
  MayCancel = TRUE
  MayPanic = TRUE
  HasTimeout = TRUE
  IdleTimeout = 0
  MaxLifetime = 1
  MaxTime = 0
  MaxConnections = 1
SYMMETRY ThreeSymmetry
INVARIANTS
  OkMeansCommitted
  NeverInsideAnother

  
