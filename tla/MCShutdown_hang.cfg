SPECIFICATION FairShutdown
CONSTANTS
  MaxReq = 2
  MaxOutstanding = 1
  IdMod = 4
  NotifyIds = {}
  Pending = Pending
  NetError = NetError
  ReconnectMax = 2
  MaxFailures = 1
  MayStop = TRUE
  MaxFiles = 1
PROPERTY EndBusinessReturns
CHECK_DEADLOCK FALSE
