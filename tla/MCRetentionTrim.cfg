SPECIFICATION Spec
CONSTANTS
  Files = {1, 2}
  Removable = {}
  MaxFileCursorEntries = 1
  MaxProcessedEventEntries = 4
  MaxThreadEntries = 2
  CursorAge = 3
  EventAge = 1
  ThreadAge = 2
  DisplayWindow = 0
  MaxNow = 3
  MaxRecords = 2
  MaxLines = 3
INVARIANT BaselineKept
CHECK_DEADLOCK FALSE
