SPECIFICATION FairSpec
CONSTANTS
  PathGiven = FALSE
  Split = "raw-size"
  Packs = TRUE
  Openmode = "recreate"
  MaxBranchSize = 3
  Existing <- StaleFiles
  NThreads = 2
  ThreadModes = {TRUE, FALSE}
  Monitoring = TRUE
  Multipart = FALSE
  MaxIteration = 0
  WritesPerMessage = 1
  QueueLength = 1
  SlowWriter = FALSE
  DrainLimit = 2
  StopsFirst = TRUE
  InputHWM = 2
  Lengths <- ThreeLengths
  MaxMessages = 4
  MaxRuns = 2
INVARIANTS
  TypeOK
  WrittenInOrder
  WrittenInOwnRun
  FileIsFramed
  NothingLost
  SplitInTime
PROPERTIES
  EarlierRunsKept
  StopEndsRun
  ReceivedIsWritten
CHECK_DEADLOCK FALSE
