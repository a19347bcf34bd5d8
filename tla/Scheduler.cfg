SPECIFICATION FairSpec
CONSTANTS
  s1 = s1
  s2 = s2
  Servers <- MCServers
  Systems = 2
  MaxFailures = 1
  MaxTicks = 3
  MaxFaults = 1
CHECK_DEADLOCK FALSE
INVARIANTS
  TypeOK
  NoGaps
  NoTickSkipped
  TicksIncrease
  FailuresIsolated
PROPERTIES
  TicksAdvance
