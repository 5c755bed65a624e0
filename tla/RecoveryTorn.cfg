SPECIFICATION Spec
CONSTANTS
  Pages = {1, 2}
  SlotsPerPage = 2
  Rows = {r1, r2}
  r1 = r1
  r2 = r2
  MaxVersion = 2
  RowOps = {"insert"}
  Budget = 1
  DefaultBudget = 1
  Deferred = TRUE
  Checkpoints = TRUE
  MaxOps = 2
  MaxCommits = 2
  MaxCrashes = 1
SYMMETRY RowSymmetry
INVARIANTS
  AllOrNothing
CHECK_DEADLOCK FALSE
