SPECIFICATION Spec
CONSTANTS
  None = None
  Jobs = {j1, j2}
  Paths = {p1}
  MaxScans = 3
  MaxFiles = 1
  Loads <- OneFile
  Workers = 2
  Ageing = TRUE
  CommitFails = FALSE
SYMMETRY Symmetry
INVARIANTS
  OneScanPerPath
CHECK_DEADLOCK FALSE
