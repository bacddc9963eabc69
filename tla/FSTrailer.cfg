SPECIFICATION Spec
CONSTANTS
  PathGiven = FALSE
  Split = "raw-size"
  Packs = TRUE
  Openmode = "recreate"
  MaxBranchSize = 3
  Existing <- NoFiles
  NThreads = 2
  ThreadModes = {FALSE}
  Monitoring = FALSE
  Multipart = FALSE
  MaxIteration = 2
  WritesPerMessage = 1
  QueueLength = 1
  SlowWriter = FALSE
  DrainLimit = 5
  StopsFirst = FALSE
  InputHWM = 2
  Lengths <- OneLength
  MaxMessages = 4
  MaxRuns = 2
INVARIANTS
  FileIsFramed
CHECK_DEADLOCK FALSE
