CONSTANTS
  c1 = c1
  c2 = c2
  c3 = c3
  Conns = {c1, c2, c3}
  NoConn = NoConn
  Permits = 1
  Statements = {"begin", "read", "write"}
  RollbackCanFail = FALSE
SPECIFICATION FairSpec
PROPERTY WaiterIsServed
