SPECIFICATION Spec
CONSTANTS
  Id = {x}
  Runner = {r1, r2}
  Putter = {}
  NoRunner = NoRunner
  MaxAttempts = 2
  RunCap = 1
  Recreate = TRUE
  MaxCrash = 0
  SaveMayFail = FALSE
INVARIANTS OneExecution
CHECK_DEADLOCK FALSE
