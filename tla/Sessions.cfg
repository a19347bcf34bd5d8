SPECIFICATION FairSpec
CONSTANTS
  t1 = t1
  t2 = t2
  p1 = p1
  s1 = s1
  s2 = s2
  nobody = nobody
  NoTask = nobody
  Tasks <- MCTasks
  Players <- MCPlayers
  Servers <- MCServers
  Timeout = 1
  TransitionTimeout = 2
  UniqueActiveIndex = TRUE
  Requests <- MCRequests
  MaxNow = 2
  MaxSessions = 2
  MaxRevision = 2
INVARIANTS
  TypeOK
  AtMostOneActive
PROPERTIES
  Lifecycle
  ExpiryJustified
  DeadlinesAdvance
  StaleSessionsExpire
