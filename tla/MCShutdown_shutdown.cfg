SPECIFICATION FairShutdown
CONSTANTS
  MaxReq = 3
  MaxOutstanding = 1
  IdMod = 4
  NotifyIds = {}
  Pending = Pending
  NetError = NetError
  ReconnectMax = 2
  MaxFailures = 1
  MayStop = TRUE
  MaxFiles = 2
INVARIANT ShutdownTypeOK
INVARIANT OwnAnswer
 
CHECK_DEADLOCK FALSE
