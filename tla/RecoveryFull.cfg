SPECIFICATION Spec
CONSTANTS
  Pages = {p1, p2}
  p1 = p1
  p2 = p2
  SlotsPerPage = 2
  Rows = {r1, r2}
  r1 = r1
  r2 = r2
  MaxVersion = 2
  RowOps = {"insert", "update", "relocate", "patch", "delete"}
  Budget = 2
  DefaultBudget = 1
  Deferred = FALSE
  Checkpoints = TRUE
  MaxOps = 2
  MaxCommits = 2
  MaxCrashes = 2
SYMMETRY HeapSymmetry
INVARIANTS
  TypeOK
  RecoveredIsCommitted
  LsnsAreFresh
CHECK_DEADLOCK FALSE
