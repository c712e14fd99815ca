SPECIFICATION RunsSpec
CONSTANTS
  Jobs <- MCTwo
  Rows <- MCOne
  BatchSize = 1
  Views <- MCTwo
  Runs <- MCTwo
  Levels = {"L1", "L3"}
  NoRun = 0
  MayPause = FALSE
INVARIANTS
  RunsInv
  DoneIsIndexed
  InProgressIsHeld
PROPERTIES
  DoneIsNeverRequeued
VIEW MCView
CHECK_DEADLOCK FALSE
