SPECIFICATION Spec
CONSTANTS
  p1 = p1
  p2 = p2
  a = a
  Pids = {p1, p2}
  Ports = {a}
  Features = {"disable", "launch"}
  MaxClicks = 1
  MaxFaults = 0
PROPERTY RouteInUseKept
CHECK_DEADLOCK FALSE
