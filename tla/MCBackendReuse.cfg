SPECIFICATION Spec
CONSTANTS
  p1 = p1
  p2 = p2
  a = a
  Pids = {p1, p2}
  Ports = {a}
  Features = {"disable", "die", "reuse"}
  MaxClicks = 1
  MaxFaults = 2
PROPERTY StrangersSpared
CHECK_DEADLOCK FALSE
