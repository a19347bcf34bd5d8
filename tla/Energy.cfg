SPECIFICATION FairSpec
CONSTANTS
  t1 = t1
  t2 = t2
  s1 = s1
  s2 = s2
  Nodes = {1, 2}
  Tasks <- MCTasks
  Servers <- MCServers
  Registrations <- MCRegistrations
  Observations <- MCObservations
  MaxWord = 3
  MaxObservations = 2
  MaxCrashes = 1
INVARIANTS
  TypeOK
  RevisionsCount
  LogCoversQueue
PROPERTIES
  NoRegression
  AlarmRaised
