CONSTANTS
  c1 = c1
  c2 = c2
  Conns = {c1, c2}
  NoConn = NoConn
  Permits = 2
  Statements = {"begin", "commit", "rollback", "read", "write", "sync"}
  RollbackCanFail = TRUE
SPECIFICATION Spec
SYMMETRY ConnSymmetry
INVARIANT TransactionHasHolder
