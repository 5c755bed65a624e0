SPECIFICATION FairSpec
CONSTANTS
  Conns = {c1, c2}
  c1 = c1
  c2 = c2
  NoConn = NoConn
  SyncMode = "Full"
  MaxGen = 2
  MaxFsyncFailures = 1
  MaxHeapFailures = 1
  RawSyncMayFail = TRUE
  MaxRollbacks = 1
PROPERTIES
  TicketsAreAnswered
CHECK_DEADLOCK FALSE
