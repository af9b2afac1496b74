SPECIFICATION Spec
CONSTANTS
  gateway = gateway
  crawler = crawler
  t1 = t1
  t2 = t2
  closer = closer
  Service = {gateway}
  Gateway = gateway
  Rest <- MCRest
  Direct = {gateway}
  Request = {t1, t2}
  Closer = closer
  MaxPid = 2
  Op = {"restart", "adopt", "start-offline"}
  PingMayFail = TRUE
  KillMayFail = TRUE
  LookMayFail = TRUE
INVARIANTS TypeOK Tracked OneChild ExitStopsAll
PROPERTIES RequestsFinish
CHECK_DEADLOCK FALSE
