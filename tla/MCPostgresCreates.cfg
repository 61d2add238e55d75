SPECIFICATION Spec
CONSTANTS
  Callers = {c1, c2}
  Ids = {i1, i2, i3}
  Keys = {k1, k2}
  MaxUsers = 2
  None = None
  Ops = {"create", "delete"}
  MaxAttempts = 2
  MaxWrites = 2
  CommitsGetLost = TRUE
SYMMETRY Symmetry
INVARIANTS
  OneUserPerKey
  KeyedCreateSurvivesLostCommit
  NotFoundLeavesKeyFree
PROPERTY
  ImplementsUserStore
