SPECIFICATION Spec
CONSTANTS
  Callers = {c1, c2}
  Ids = {i1, i2}
  None = None
  CfgTTL = 1
  CfgMaxEntries = 1
  Failures = {"ErrUnavailable", "failure", "ambiguous"}
  MaxLatency = 1
  MaxVersion = 3
INVARIANTS
  CacheBounded
  StalenessBounded
  OutdatedOnlyByRace
