SPECIFICATION FairSpec
CONSTANTS
  Ids = {1, 2}
  Videos = {1, 2}
  MaxItems = 2
  MaxSessions = 2
  MaxTries = 2
  MaxCalls = 2
  None = None
INVARIANT TypeOK
INVARIANT StaleEventsAreHarmless
PROPERTY CloseIsSignalled
PROPERTY EveryAdGetsItsTurn
CHECK_DEADLOCK FALSE
