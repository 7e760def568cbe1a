SPECIFICATION Spec
CONSTANTS
  NoFile = NoFile
  Torn = Torn
  None = None
  Ops = {"move"}
  First = L1
  Locs = {L1, L2}
  Data = {d1, d2}
  RowIds = {r1, r2, r3}
  MaxRecs = 2
  MaxLate = 1
  Requests <- PinsOnly
  Recreates = FALSE
  IOErrors = FALSE
  MaxCrashes = 0
SYMMETRY Symmetry
PROPERTIES
  DropsOnlyMissing
