SPECIFICATION StopSpec
CONSTANTS
  Fems = {f1, f2}
  MaxTFId = 1
  MaxRuns = 2
  StopsInTime = TRUE
  DrainTries = 1
  InputHWM = 1
  OutputHWM = 1
  NumSource = 2
  NumDestination = 2
  BufferTimeout = 0
  BufferDepthLimit = 1
  DiscardOutput = FALSE
  OutputIncompleteTF = FALSE
  DecimatorPeers = 1
  DecimationFactor = 1
  DecimationOffset = 0
INVARIANTS
  CompleteFramesAreWhole
PROPERTIES
  StopEndsRun
  DeliverySpec
CHECK_DEADLOCK FALSE
