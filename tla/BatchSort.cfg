SPECIFICATION FairSpec
CONSTANTS
  a = a
  b = b
  Items = {a, b}
  Order <- MCOrder
  TextItems = {b}
  Names = {"n1", "n2"}
  Sorts <- MCSorts
  Modes = {"move", "copy", "script_move"}
  MaxEdits = 1
  Text = Text
  Nothing = Nothing

  
  
  
PROPERTIES
  SortsEnd
CHECK_DEADLOCK FALSE
