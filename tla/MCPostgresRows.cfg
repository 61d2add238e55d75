SPECIFICATION FairSpec
CONSTANTS
  Callers = {c1, c2}
  Ids = {i1}
  Keys = {k}
  MaxUsers = 1
  None = None
  Ops = {"create", "update", "rmu", "delete"}
  MaxAttempts = 2
  MaxWrites = 2
  CommitsGetLost = TRUE
INVARIANT
  NoErrorMeansCommitted
PROPERTIES
  ImplementsUserStore
  CallsReturn
