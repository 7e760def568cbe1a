SPECIFICATION FairSpec
CONSTANTS
  NoFile = NoFile
  Torn = Torn
  None = None
  Ops = {"move", "symlink"}
  First = L1
  Locs = {L1}
  Data = {d1}
  RowIds = {r1, r2, r3}
  MaxRecs = 2
  MaxLate = 0
  Requests <- NoPins
  Recreates = FALSE
  IOErrors = TRUE
  MaxCrashes = 1
PROPERTIES
  MigratingHeals
