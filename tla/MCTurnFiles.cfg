SPECIFICATION Spec
CONSTANTS
  Accidents = {}
  MaxAccidents = 0
  MaxOrders = 1
  MaxDelay = 1
  Paths <- TurnPaths
  Home <- TurnHome
  Main = "first turn"
  TurnFiles = {"second turn"}
  Walk <- TurnWalk
  Habits = {}
  MaxRecords = 3
  MirrorSlack = 0
INVARIANT NoRecordSkipped
CHECK_DEADLOCK FALSE
