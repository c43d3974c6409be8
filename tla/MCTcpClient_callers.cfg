SPECIFICATION FairSpec
CONSTANTS
  MaxReq = 3
  MaxOutstanding = 2
  IdMod = 4
  NotifyIds = {0}
  Pending = Pending
  NetError = NetError
  ReconnectMax = 4
  MaxFailures = 2
  MayStop = TRUE
INVARIANT TypeOK
INVARIANT PromiseOnce
INVARIANT OwnAnswer
INVARIANT SingleWrite
INVARIANT SomebodyReads
INVARIANT NoOrphan
PROPERTY Refines
PROPERTY Reconnects
CHECK_DEADLOCK FALSE
