SPECIFICATION Spec
CONSTANTS
  Conns = {c1, c2, c3}
  c1 = c1
  c2 = c2
  c3 = c3
  NoConn = NoConn
  SyncMode = "Full"
  MaxGen = 3
  MaxFsyncFailures = 1
  MaxHeapFailures = 1
  RawSyncMayFail = TRUE
  MaxRollbacks = 1
SYMMETRY ConnSymmetry
INVARIANTS
  TypeOK
  AckedIsDurableUnlessBypassed
  CommittedIsKept
  DiscardedNeverInHeap
PROPERTIES
  ReliefFollowsLog
CHECK_DEADLOCK FALSE
