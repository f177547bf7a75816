SPECIFICATION SpecAlgorithms
CONSTANTS
  Threads = {"thread"}
  Turns = {"first", "second"}
  Owner <- MCOwner
  Events = {"completed"}
  MaxAt = 1
  GoalBlockBefore = 2
  GoalBlockAfter = 5
  MaxDelays = {2, 3, 5, 7}
  MaxRetries = 6
INVARIANT DelayMatchesLoop
INVARIANT StrongestEntryKept
INVARIANT EventsStayHandled
CHECK_DEADLOCK FALSE
