SPECIFICATION OutboxFairSpec
CONSTANTS
  Entries <- MCTwo
  push = push
  timer = timer
  files = files
  Pushers = {push}
  Drainers = {timer}
  Uploaders = {files}
  MaxTries = 2
  Batch <- MCBatch
  MaxCrashes = 1
INVARIANTS OutboxTypeOK
PROPERTIES LeavesAccountedFor EntriesSettle
CHECK_DEADLOCK FALSE
