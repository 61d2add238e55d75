SPECIFICATION FairSpec
CONSTANTS
  Callers = {c1, c2, c3}
  Results = {"nil", "appError", "failure", "ErrUnavailable", "panic"}
  CfgFailureThreshold = 2
  CfgSuccessThreshold = 0
  CfgOpenTimeout = 1
  CfgMaxHalfOpenRequests = 2
INVARIANTS
  ProbeBudget
PROPERTIES
  TripsOnConsecutiveFailures
  OpenWindow
  Recovers
