SPECIFICATION Spec
CONSTANTS
  Files = {1, 2}
  Removable = {2}
  MaxFileCursorEntries = 2
  MaxProcessedEventEntries = 1
  MaxThreadEntries = 1
  CursorAge = 1
  EventAge = 0
  ThreadAge = 1
  DisplayWindow = 0
  MaxNow = 4
  MaxRecords = 2
  MaxLines = 3
INVARIANT HandledOnce
INVARIANT BaselineKept
PROPERTY RetryNotForgotten
PROPERTY OldestForgottenFirst
CHECK_DEADLOCK FALSE
