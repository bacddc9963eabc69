SPECIFICATION FairSpec
CONSTANTS
  Fems = {f1, f2}
  MaxTFId = 2
  MaxRuns = 1
  StopsInTime = FALSE
  DrainTries = 1
  InputHWM = 1
  OutputHWM = 1
  NumSource = 2
  NumDestination = 2
  BufferTimeout = 0
  BufferDepthLimit = 1
  DiscardOutput = TRUE
  OutputIncompleteTF = TRUE
  DecimatorPeers = 1
  DecimationFactor = 1
  DecimationOffset = 0
PROPERTY
  KeepsReceiving
CHECK_DEADLOCK FALSE
