SPECIFICATION Spec
CONSTANTS
  Fems = {f1, f2}
  MaxTFId = 2
  MaxRuns = 1
  StopsInTime = FALSE
  DrainTries = 1
  InputHWM = 2
  OutputHWM = 1
  NumSource = 2
  NumDestination = 2
  BufferTimeout = 0
  BufferDepthLimit = 1
  DiscardOutput = TRUE
  OutputIncompleteTF = TRUE
  DecimatorPeers = 0
  DecimationFactor = 0
  DecimationOffset = 0
SYMMETRY Symmetry
INVARIANTS
  TypeOK
  NoCompleteFrameWaits
  DepthWithinLimit
  CompleteFramesAreWhole
  IncompleteFramesAreShort
  NoSTFDuplicated
  LostCountsWithinFailures
PROPERTY
  DeliverySpec
CHECK_DEADLOCK FALSE
