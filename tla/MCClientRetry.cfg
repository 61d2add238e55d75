SPECIFICATION Spec
CONSTANTS
  Clients = {"c1", "c2"}
  Ids = {1, 2, 3}
  Keys = {"k"}
  MaxUsers = 2
  None = None
  Plan <- MCPlan
  Refusals = {"Internal"}
  retryAttempts = 2
  MaxBackoff = 100
  Width = 8
INVARIANTS
  DuplicatesOnlyAfterLostAnswer
  ExhaustedAppliedOnlyIfLost
  KeyedCreateOneUser
  OKMeansApplied
  BackoffInRange
CHECK_DEADLOCK FALSE
