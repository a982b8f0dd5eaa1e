\* Transactions that run to their end or panic.
SPECIFICATION EngineSpec
CONSTANTS
  r1 = r1
  r2 = r2
  r3 = r3
  c1 = c1
  c2 = c2
  c3 = c3
  NoConn = NoConn
  NoTx = NoTx
  Leaked = Leaked
  Req <- ThreeReq
  Conn <- MCConn
  MaxConnections = 2
  Prewarmed <- MCPrewarmed
  Failing <- AnyStatement
  MayCancel = FALSE
SYMMETRY ThreeSymmetry
INVARIANTS
  NoInheritedTransaction
  TransactionPinned
  QueryAutocommits
  ReportsOutcome
