\* A BEGIN whose future is dropped before the guard exists.
SPECIFICATION EngineSpec
CONSTANTS
  r1 = r1
  r2 = r2
  r3 = r3
  c1 = c1
  c2 = c2
  c3 = c3
  NoConn = NoConn
  NoTx = NoTx
  Leaked = Leaked
  Req <- TwoReq
  Conn <- TwoConn
  MaxConnections = 1
  Prewarmed <- MCPrewarmed
  Failing <- AnyStatement
  MayCancel = TRUE
INVARIANTS
  NoInheritedTransaction
