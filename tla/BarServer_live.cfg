SPECIFICATION FairSpec
CONSTANTS
  MaxSessions = 2
  MaxAsks = 2
  Ads = {a1}
  Whats = {"policy", "ad", a1}
  MaxChanges = 1
  None = None
  Garbage = Garbage
PROPERTY RequestsAnswered
CHECK_DEADLOCK FALSE
