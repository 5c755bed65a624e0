SPECIFICATION Spec
CONSTANTS
  Pages = {p1, p2}
  p1 = p1
  p2 = p2
  SlotsPerPage = 2
  Rows = {r1, r2}
  r1 = r1
  r2 = r2
  MaxVersion = 2
  RowOps = {"insert", "update", "delete_many"}
  Budget = 1
  DefaultBudget = 1
  Deferred = TRUE
  Checkpoints = FALSE
  MaxOps = 2
  MaxCommits = 2
  MaxCrashes = 1
SYMMETRY HeapSymmetry
INVARIANTS
  WriteAhead
  RecoveredIsCommitted
  StatementHasRoom
PROPERTIES
  ImplementsDurableStore
CHECK_DEADLOCK FALSE
