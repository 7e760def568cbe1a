SPECIFICATION FairSpec
CONSTANTS
  None = None
  Jobs = {j1, j2}
  Paths = {p1}
  MaxScans = 3
  MaxFiles = 2
  Loads <- McLoads
  Workers = 2
  Ageing = TRUE
  CommitFails = TRUE
INVARIANTS
  IntactOneScanPerPath
  EntryIsOwnScan
  ProcessedWithinTotal
  EntryIsNewest
PROPERTIES
  RunningScanIsKept
  SkipsOnlyForAScan
  ScanEnds
CHECK_DEADLOCK FALSE
