SPECIFICATION Spec
CONSTANTS
  Limits <- MCLimits
  TicksPerMinute = 2
  MinInterval = 2
  Stored <- MCStored
  Requested <- MCRequested
  MaxFailed = 1
  MaxTick = 10
  MaxLag = 1
PROPERTIES
  MatchingMinuteRuns
  NoEarlyRun
