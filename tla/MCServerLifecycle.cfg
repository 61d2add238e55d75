SPECIFICATION Spec
CONSTANTS
  Starts <- MCStarts
  Edits <- MCEdits
  Faulty = {"grpc", "gateway"}
  MaxCalls <- MCMaxCalls
  None = None
  Absent = Absent
  Blank = Blank
  Bad = Bad
INVARIANTS
  ReadyOnlyWhileServing
  RepositoryOutlivesCalls
  NothingLeftOpen
  CleanExit
  LevelIsConfigured
PROPERTIES
  StopsWhenAsked
CHECK_DEADLOCK FALSE
