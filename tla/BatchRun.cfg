SPECIFICATION FairSpec
CONSTANTS
  Items <- MCTwo
  Runs <- MCTwo
  Extractors = {e1}
  Analysts = {a1}
  MaxMishaps = 1
  NoRun = 0
  NoItem = 0
INVARIANTS
  
  FlagTellsTheTruth
  QuietIsSaved
PROPERTIES
  
  ComesToRest
CHECK_DEADLOCK FALSE
