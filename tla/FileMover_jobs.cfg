SPECIFICATION Spec
CONSTANTS
  NoFile = NoFile
  Torn = Torn
  NoSum = NoSum
  NoLink = NoLink
  Data = {d1, d2, d3, d4}
  Starts = {"hot", "cold", "aside"}
  Ops = {"move", "copy", "symlink", "thaw"}
  Checked = {TRUE, FALSE}
  Faults = {"rename", "copy", "unlink", "symlink", "restore", "read"}
  MaxWrites = 3
  MaxJobs = 3
SYMMETRY Symmetry
INVARIANTS
  CalmJobKeepsContent
  CopyKeepsContent
  FailedJobKeepsSource
  SuccessDelivers
CHECK_DEADLOCK FALSE
