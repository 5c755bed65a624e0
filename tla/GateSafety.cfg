CONSTANTS
  c1 = c1
  c2 = c2
  c3 = c3
  Conns = {c1, c2, c3}
  NoConn = NoConn
  Permits = 2
  Statements = {"begin", "commit", "rollback", "read", "write", "sync"}
  RollbackCanFail = FALSE
SPECIFICATION Spec
SYMMETRY ConnSymmetry
INVARIANT TypeOK
INVARIANT Isolation
INVARIANT DoorHasHolder
INVARIANT TransactionHasHolder
