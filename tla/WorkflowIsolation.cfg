SPECIFICATION Spec
CONSTANTS
  Programs <- MCPrograms
  AnyJob <- MCAnyJob
  Nesting = 3
  Objects <- MCObjects
  LocalDoc <- MCLocalDoc
  CustomDoc <- MCCustomDoc
  Env <- MCEnv
  Strict = TRUE
  MaxLoop = 2
  MaxCallDepth = 2
  MaxAttempts = 2
  Replies <- MCReplies
  NumericText <- MCNumericText
  TextOrder <- MCTextOrder
  TimeoutMs = 0
  DefaultTimeoutMs = 1
  MaxTimeoutMs = 2
INVARIANT FunctionIsolated
