SPECIFICATION Spec
CONSTANTS
  Inst <- ThreeInst
  Stream <- TwoStream
  Home <- ThreeHome
  Req = {1}
  Caller <- MCCaller
  Target <- MCTarget
  Pings = {}
  Unlimited = {}
  ReqParts <- TwoPart
  RepParts <- TwoPart
  Replies <- UpToOne
  MaxReplies = 1
  Slots <- OneSlot
  OutCap = 1
  MaxCrash = 1
  RedisMayFail = TRUE
INVARIANTS SemaphoreAccounting AtMostOnce
PROPERTIES ImplementsRPC
CHECK_DEADLOCK FALSE
