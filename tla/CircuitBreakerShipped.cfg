SPECIFICATION FairSpec
CONSTANTS
  Callers = {c1, c2, c3}
  Results = {"nil", "failure"}
  CfgFailureThreshold = 2
  CfgSuccessThreshold = 2
  CfgOpenTimeout = 1
  CfgMaxHalfOpenRequests = 1
PROPERTIES
  Recovers
