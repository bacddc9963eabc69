SPECIFICATION FairSpec
CONSTANTS
  MaxHBF = 2
  SplitMethod = 0
  TimeFrameIdType = "sequence"
  NumDestination = 2
  DiscardOutput = TRUE
  WithDQM = TRUE
  MaxErrors = 1
  FrameIdModulus = 4
  ThrottledBeats <- OneThrottled
  DataPerBeat = 1
  OutputHWM = 1
  MaxBeats = 5
  MaxMessage = 3
  MaxLost = 0
  MaxRuns = 2
INVARIANT
  WordsOfOneRun
PROPERTIES
  StopEndsRun
  KeepsReceiving
CHECK_DEADLOCK FALSE
