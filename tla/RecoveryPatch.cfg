SPECIFICATION Spec
CONSTANTS
  Pages = {1, 2}
  SlotsPerPage = 2
  Rows = {r1}
  r1 = r1
  MaxVersion = 2
  RowOps = {"insert", "patch", "delete_many"}
  Budget = 1
  DefaultBudget = 1
  Deferred = FALSE
  Checkpoints = TRUE
  MaxOps = 2
  MaxCommits = 2
  MaxCrashes = 1
SYMMETRY RowSymmetry
INVARIANTS
  RecoveredIsCommitted
CHECK_DEADLOCK FALSE
