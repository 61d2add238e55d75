SPECIFICATION Spec
CONSTANTS
  Ids = {1, 2, 3}
  Keys = {k1, k2}
  Marks = {a, b}
  MaxUsers = 2
  MaxWrites = 2
  None = None
INVARIANTS
  ReplayReturnsOriginal
PROPERTIES
  ImplementsUserStore
