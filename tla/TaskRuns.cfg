SPECIFICATION FairSpec
CONSTANTS
  Id = {x}
  Runner = {r1, r2}
  Putter = {p}
  NoRunner = NoRunner
  MaxAttempts = 2
  RunCap = 1
  Recreate = FALSE
  MaxCrash = 1
  SaveMayFail = TRUE
INVARIANTS TypeOK OneRunPerTask RegisteredIsWorking DeletedIsCancelled CreatedSurvives DeletedStaysDeleted
  FileMatchesMemory StatusAddsUp
PROPERTIES RunEnds
CHECK_DEADLOCK FALSE
