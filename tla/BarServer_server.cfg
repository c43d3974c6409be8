SPECIFICATION Spec
CONSTANTS
  MaxSessions = 2
  MaxAsks = 2
  Ads = {a1}
  Whats = {"policy", "ad", "unknown", a1}
  MaxChanges = 2
  None = None
  Garbage = Garbage
INVARIANT TypeOK
INVARIANT SessionOutlivesPosts
INVARIANT AnswersInOrder
INVARIANT PoolIsServed
CHECK_DEADLOCK FALSE
