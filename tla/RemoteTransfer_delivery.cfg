SPECIFICATION FairSpec
CONSTANTS
  None = None
  NoFile = NoFile
  Jobs = {j1}
  Pulls = {}
  Moves = {j1}
  Size = 2
  ChunkSize = 1
  MaxRetries = 2
  CallIds = {c1}
  MaxTmp = 3
  MaxVersion = 2
  Foreign = {1}
  MaxCrashes = 1
  HashFails = TRUE

CHECK_DEADLOCK FALSE
INVARIANTS TypeOK TmpIsPrefix ConfirmedIsDelivered
PROPERTIES Delivers TransferEnds
