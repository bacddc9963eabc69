SPECIFICATION FairSpec
CONSTANTS
  Fems = {f1, f2}
  MaxTFId = 2
  MaxRuns = 1
  StopsInTime = FALSE
  DrainTries = 1
  InputHWM = 1
  OutputHWM = 1
  NumSource = 2
  NumDestination = 2
  BufferTimeout = 1
  BufferDepthLimit = 0
  DiscardOutput = FALSE
  OutputIncompleteTF = TRUE
  DecimatorPeers = 0
  DecimationFactor = 1
  DecimationOffset = 0
PROPERTIES
  EntriesLeave
  KeepsReceiving
CHECK_DEADLOCK FALSE
