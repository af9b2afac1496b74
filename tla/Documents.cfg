SPECIFICATION Spec
CONSTANTS
  Key = {"k1"}
  NoKey = "none"
  Field = {"f", "g"}
  Rest = {"r"}
  Null = Null
  Writer = {t1, t2}
  Doc <- MCDoc
  Config <- MCConfig
  Keep = 1
  MaxAttempts = 2
  Torn = Torn
  Missing = Missing
  MaxWrites = 3
  MaxFaults = 1
INVARIANTS TypeOK FilesWhole BaselineFirst TemplateFailureHarmless SuccessIsComplete ReportsChange
PROPERTY BaselineKept
CHECK_DEADLOCK FALSE
SYMMETRY WriterSymmetry
