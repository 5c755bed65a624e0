SPECIFICATION Spec
CONSTANTS
  Conns = {c1, c2, c3}
  c1 = c1
  c2 = c2
  c3 = c3
  NoConn = NoConn
  SyncMode = "Full"
  MaxGen = 3
  MaxFsyncFailures = 1
  MaxHeapFailures = 0
  RawSyncMayFail = FALSE
  MaxRollbacks = 1
SYMMETRY ConnSymmetry
INVARIANTS
  AckedIsDurable
CHECK_DEADLOCK FALSE
