SPECIFICATION FairSpec
CONSTANTS
  Inst <- TwoInst
  Stream <- TwoStream
  Home <- TwoHome
  Req = {1, 2}
  Caller <- MCCaller
  Target <- MCTarget
  Pings = {2}
  Unlimited = {2}
  ReqParts <- Whole
  RepParts <- Whole
  Replies <- UpToOne
  MaxReplies = 1
  Slots <- OneSlot
  OutCap = 1
  MaxCrash = 0
  RedisMayFail = FALSE
INVARIANT TypeOK
PROPERTIES NoReplyDropped AckAfterHandling CallReturns HandlersFinish PelDrains
CHECK_DEADLOCK FALSE
