SPECIFICATION Spec
CONSTANTS
  None = None
  NoFile = NoFile
  Jobs = {j1}
  Pulls = {j1}
  Moves = {j1}
  Size = 2
  ChunkSize = 1
  MaxRetries = 2
  CallIds = {c1, c2}
  MaxTmp = 3
  MaxVersion = 1
  Foreign = {}
  MaxCrashes = 0
  HashFails = FALSE

CHECK_DEADLOCK FALSE
INVARIANTS MoveKeepsContent
