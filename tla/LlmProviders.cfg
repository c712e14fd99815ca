SPECIFICATION FairSpec
CONSTANTS
  p1 = p1
  p2 = p2
  Order <- MCOrder
  Local = {p2}
  Analysts = {w1, w2}
  Chats = {c1}
  MaxTries = 2
  MaxBursts = 1
  MaxCalls = 3
  MaxClicks = 1
  NoCaller = NoCaller
  NoProvider = NoProvider
INVARIANTS
  ProvidersInv
  SentOnlyWithPermission
PROPERTIES
  
  CallsEnd
CHECK_DEADLOCK FALSE
