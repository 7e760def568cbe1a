SPECIFICATION ColdSpec
CONSTANTS
  None = None
  Ops <- BothOps
  IOErrors = FALSE
  CommitFails = FALSE
  Deletes = FALSE
  ManyFiles = TRUE
  MaxToggles = 1
  MaxRequests = 3
  MaxCrashes = 0
PROPERTY OnlyItsLocation
CHECK_DEADLOCK FALSE
