SPECIFICATION ServerSpec
CONSTANTS
  t1 = t1
  d1 = d1
  Tasks = {t1}
  Workers = {w1, w2, w3}
  NoWorker = NoWorker
  NoTask = NoTask
  Lease = 1
  RetryBase = 1
  ReclaimFloor = 1
  MaxAttempts = 2
  MaxLive = 2
  Legacy <- MCNoLegacy
  Unreadable = {}
  Docs = {d1}
  Batch <- MCOneBatch
  Calls = {c1, c2}
SYMMETRY Symmetry
INVARIANTS
  DoneIsSearchable
  DeleteSticks
  ServerInv
