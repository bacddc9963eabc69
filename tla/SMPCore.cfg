SPECIFICATION Spec
CONSTANTS
  WordBytes = 2
  WordsPerCycle = 2
  OutputHWM = 1
  MaxBytes = 6
  MaxRuns = 2
INVARIANTS
  WordsStayWhole
PROPERTIES
  WordsAreHandedOn
  StopEndsRun
CHECK_DEADLOCK FALSE
