SPECIFICATION Spec
CONSTANTS
  NoFile = NoFile
  Torn = Torn
  NoSum = NoSum
  NoLink = NoLink
  Data = {d1, d2}
  Starts = {"hot"}
  Ops = {"move"}
  Checked = {TRUE}
  Faults = {}
  MaxWrites = 1
  MaxJobs = 1
SYMMETRY Symmetry
INVARIANTS
  JobKeepsContent
CHECK_DEADLOCK FALSE
