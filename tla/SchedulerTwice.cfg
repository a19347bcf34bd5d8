SPECIFICATION Spec
CONSTANTS
  s1 = s1
  s2 = s2
  Servers <- MCServers
  Systems = 1
  MaxFailures = 1
  MaxTicks = 2
  MaxFaults = 0
CHECK_DEADLOCK FALSE
INVARIANTS
  ExactlyOnce
