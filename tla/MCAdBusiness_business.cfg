SPECIFICATION Spec
CONSTANTS
  Ids = {1, 2}
  MaxVer = 2
  Policies <- MCPolicies
  Lists <- MCLists
  MaxChanges = 2
  MaxRuns = 3
  Roles = {TRUE, FALSE}
  None = None
INVARIANT TypeOK
INVARIANT CachedFileMatches
INVARIANT NoForgottenDownload
INVARIANT OnePolicyChain
PROPERTY ImplementsFileCache
CHECK_DEADLOCK FALSE
