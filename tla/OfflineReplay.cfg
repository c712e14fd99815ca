SPECIFICATION OfflineFairSpec
CONSTANTS
  Ops <- MCTwo
  loop = loop
  command = command
  Replayers = {loop, command}
  Maintenance = loop
  MaxRetries = 2
  BatchLimit <- MCLimits
  MaxCrashes = 1
  MaxResets = 1
INVARIANTS ReplayInv CancelledStaysCancelled
PROPERTIES GoneIsAccountedFor PendingSettles
CHECK_DEADLOCK FALSE
