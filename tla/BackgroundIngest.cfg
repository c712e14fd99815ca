SPECIFICATION BgFairSpec
CONSTANTS
  Items <- MCItems
  Starts <- MCStarts
  Workers <- MCWorkers
  Concurrency = 1
  MayCancel = TRUE
INVARIANTS SchedulerInv SomebodyActs
PROPERTIES AskedIsTaken
CHECK_DEADLOCK FALSE
