SPECIFICATION FairSpec
CONSTANTS
  Accidents = {"crash", "launch", "reboot", "save"}
  MaxAccidents = 1
  MaxOrders = 1
  MaxDelay = 1
  Paths <- MCPaths
  Home <- MCHome
  Main = "sessions"
  TurnFiles = {}
  Walk <- MCWalk
  Habits = {"archive", "copy", "shrink"}
  MaxRecords = 2
  MirrorSlack = 0
INVARIANT NoRecordSkipped
INVARIANT AppliedOnceInOrder
PROPERTY SupervisionEndsByIntent
PROPERTY CopiesApplyNoOldHistory
PROPERTY StopHonored
PROPERTY RecordsApplied
CHECK_DEADLOCK FALSE
