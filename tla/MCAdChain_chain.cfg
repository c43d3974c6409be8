SPECIFICATION FairChain
CONSTANTS
  Ids = {1, 2}
  MaxVer = 2
  Policies <- MCPolicies
  Lists <- MCLists
  MaxChanges = 1
  MaxRuns = 2
  Roles = {FALSE}
  None = None
INVARIANT ClientFileIsKnown
PROPERTY ReachesClient
PROPERTY EventuallyReleased
CHECK_DEADLOCK FALSE
