\* Panics and failing COMMITs.
SPECIFICATION FairEngine
CONSTANTS
  r1 = r1
  r2 = r2
  r3 = r3
  c1 = c1
  c2 = c2
  c3 = c3
  NoConn = NoConn
  NoTx = NoTx
  Leaked = Leaked
  Req <- TwoReq
  Conn <- TwoConn
  Prewarmed <- OnePrewarmed
  Failing <- AnyButRollback
  MayCancel = FALSE
  MayPanic = TRUE
  HasTimeout = TRUE
  IdleTimeout = 0
  MaxLifetime = 1
  MaxTime = 1
  MaxConnections = 1
INVARIANTS
  OpenTransactionIsGuarded
PROPERTIES
  PermitComesBack
