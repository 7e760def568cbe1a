SPECIFICATION Spec
CONSTANTS
  NoFile = NoFile
  Torn = Torn
  None = None
  Ops = {"move", "symlink", "copy"}
  First = L1
  Locs = {L1}
  Data = {d1, d2}
  RowIds = {r1, r2, r3}
  MaxRecs = 2
  MaxLate = 3
  Requests <- MostRequests
  Recreates = TRUE
  IOErrors = FALSE
  MaxCrashes = 1
SYMMETRY Symmetry
INVARIANTS
  TypeOK
  InventorySynced
  
PROPERTIES
  DropsOnlyMissing
  PinnedStays
  LinksRestored
