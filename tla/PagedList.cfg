SPECIFICATION FairScanSpec
CONSTANTS
  UserIds = {1, 2, 3, 4}
  PageSizes = {0, 2, 9}
  defaultPageSize = 1
  maxPageSize = 3
INVARIANTS
  ScanComplete
  BackendsAgree
PROPERTY
  ScanEnds
