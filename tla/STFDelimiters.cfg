SPECIFICATION Spec
CONSTANTS
  MaxHBF = 2
  SplitMethod = 0
  TimeFrameIdType = "first"
  NumDestination = 2
  DiscardOutput = FALSE
  WithDQM = FALSE
  MaxErrors = 1
  FrameIdModulus = 4
  ThrottledBeats <- OneThrottled
  DataPerBeat = 1
  OutputHWM = 1
  MaxBeats = 5
  MaxMessage = 3
  MaxLost = 0
  MaxRuns = 1
INVARIANTS
  OnePairOfDelimiters
CHECK_DEADLOCK FALSE
