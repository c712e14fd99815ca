SPECIFICATION FairSpec
CONSTANTS
  t1 = t1
  t2 = t2
  old1 = old1
  Tasks = {t1, t2, old1}
  Workers = {w1, w2}
  NoWorker = NoWorker
  NoTask = NoTask
  Lease = 2
  RetryBase = 1
  ReclaimFloor = 1
  MaxAttempts = 2
  MaxLive = 2
  Legacy <- MCLegacy
  Unreadable = {old1}
INVARIANTS
  QueueInv
  
PROPERTIES
  LeaseProtectsOwner
  ImplementsLifecycle
  EveryTaskEnds
