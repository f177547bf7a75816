SPECIFICATION FairSpec
CONSTANTS
  p1 = p1
  p2 = p2
  a = a
  Pids = {p1, p2}
  Ports = {a}
  Features = {"disable", "launch", "request", "memory", "crash", "hang", "die", "query", "disk", "kill", "squat", "reuse", "oldroute"}
  MaxClicks = 1
  MaxFaults = 1
PROPERTY DisabledBackendRemoved
PROPERTY EnabledBackendServes
CHECK_DEADLOCK FALSE
