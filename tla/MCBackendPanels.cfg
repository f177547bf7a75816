SPECIFICATION Spec
CONSTANTS
  p1 = p1
  p2 = p2
  a = a
  b = b
  Pids = {p1, p2}
  Ports = {a, b}
  Features = {"enable", "disable", "legacy", "oldroute", "reuse", "die", "disk"}
  MaxClicks = 1
  MaxFaults = 2
INVARIANT EnabledOnlyIfRequested
PROPERTY UserRouteKept
PROPERTY SeenStrangersSpared
SYMMETRY Interchangeable
CHECK_DEADLOCK FALSE
