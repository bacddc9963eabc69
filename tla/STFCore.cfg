SPECIFICATION Spec
CONSTANTS
  MaxHBF = 2
  SplitMethod = 0
  TimeFrameIdType = "first"
  NumDestination = 1
  DiscardOutput = TRUE
  WithDQM = FALSE
  MaxErrors = 1
  FrameIdModulus = 4
  ThrottledBeats <- OneThrottled
  DataPerBeat = 1
  OutputHWM = 1
  MaxBeats = 5
  MaxMessage = 3
  MaxLost = 2
  MaxRuns = 1
INVARIANTS
  TypeOK
  HBFsEndInDelimiters
  WordsInOrder
  STFsBeginOnBoundary
  ThrottledIsMarked
  UnbrokenWithoutLoss
CHECK_DEADLOCK FALSE
