SPECIFICATION RunsFairSpec
CONSTANTS
  Jobs <- MCOne
  Rows <- MCTwo
  BatchSize = 2
  Views <- MCOne
  Runs <- MCOne
  Levels = {"L3"}
  NoRun = 0
  MayPause = TRUE
PROPERTIES
  RunsEnd
CHECK_DEADLOCK FALSE
