SPECIFICATION Spec
CONSTANTS
  p1 = p1
  p2 = p2
  Order <- MCOrder
  Local = {p1, p2}
  Analysts = {w1}
  Chats = {}
  MaxTries = 2
  MaxBursts = 1
  MaxCalls = 1
  MaxClicks = 0
  NoCaller = NoCaller
  NoProvider = NoProvider
INVARIANT NoFallbackOverlooked
CHECK_DEADLOCK FALSE
