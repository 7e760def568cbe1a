SPECIFICATION FairSpec
CONSTANTS
  None = None
  Files = {f1}
  Locs = {L1, L2}
  First = L1
  TaskIds = {t1, t2}
  Handlers = {h1, h2}
  Scans = TRUE
  IOErrors = TRUE
  CommitFails = TRUE
  MaxCrashes = 1
INVARIANTS
  IntactOneTaskPerFile
PROPERTIES
  EveryTaskEnds
  MigratingEnds
CHECK_DEADLOCK FALSE
