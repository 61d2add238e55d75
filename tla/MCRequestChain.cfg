SPECIFICATION Spec
CONSTANTS
  Slots = {"unary", "any"}
  Methods <- MCMethods
  Senders <- MCSenders
  Metadata <- MCMetadata
  AuthConfig <- MCAuthConfig
  Policy <- MCPolicy
  DefaultDeny = FALSE
  Skew = 1
  Subjects = {"alice"}
  Burst = 1
  GlobalBurst = 1
  Rate = 1
  MaxInFlight = 1
  MaxMessages = 1
  MaxNow = 1
  Ids = {1}
  MaxUsers = 1
  Names = {"", "text"}
  Emails = {"", "text", "address"}
  Ages = {0, 151}
  None = None
  Absent = Absent
  Blank = Blank
  Bad = Bad
INVARIANTS
  SlotsConserved
  ChainOrder
  OnlyVouchedAccepted
  RecordsTruthful
  StoredUsersValid
