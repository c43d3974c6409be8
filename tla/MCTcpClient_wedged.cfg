SPECIFICATION FairSpec
CONSTANTS
  MaxReq = 2
  MaxOutstanding = 1
  IdMod = 8
  NotifyIds = {}
  Pending = Pending
  NetError = NetError
  ReconnectMax = 4
  MaxFailures = 1
  MayStop = FALSE
PROPERTY EveryRequestIsSent
CHECK_DEADLOCK FALSE
