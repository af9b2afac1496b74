SPECIFICATION FairSpec
CONSTANTS
  Inst <- TwoInst
  Stream <- TwoStream
  Home <- TwoHome
  Req = {1}
  Caller <- MCCaller
  Target <- MCTarget
  Pings = {}
  Unlimited = {1}
  ReqParts <- Whole
  RepParts <- Whole
  Replies <- UpToOne
  MaxReplies = 1
  Slots <- OneSlot
  OutCap = 1
  MaxCrash = 1
  RedisMayFail = FALSE
PROPERTIES AtLeastOnce
CHECK_DEADLOCK FALSE
