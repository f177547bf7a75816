SPECIFICATION Spec
CONSTANTS
  Kinds = {"recovery", "goal_block"}
  MaxMoves = 2
  MaxFaults = 1
  MaxDispatches = 2
INVARIANT TypeOK
INVARIANT ParentToldOnce
PROPERTY RequestsFollowLook
PROPERTY KeepsPromise
CHECK_DEADLOCK FALSE
