SPECIFICATION ChainSpec
CONSTANTS
  OffsetBegin <- MinusThree
  OffsetEnd = 2
  MaxTime = 11
  WordSize = 64
  NumDestination = 1
  OutputHWM = 1
  LinkHWM = 1
  MaxSlicerRuns = 1
  NsigMax = 3
  Configurations <- SmallConfigurations
  Signals <- SmallSignals
  MarkLen = 2
  TimeRegion = 12
  InputHWM = 1
  MaxFilterRuns = 1
  Frames <- SmallFrames
  FewFrames <- FewSmallFrames
  StartedWith <- SmallStarted
INVARIANTS
  ChainTypeOK
  TableIsExpression
  TriggersAreRisingCoincidences
  SlicesAreWindows
  RegularFramesAreSliced
PROPERTIES
  ImplementsSlicer
CHECK_DEADLOCK FALSE
