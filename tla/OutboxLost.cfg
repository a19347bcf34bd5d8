SPECIFICATION FairSpec
CONSTANTS
  w1 = w1
  w2 = w2
  Workers <- MCWorkers
  BatchSize = 2
  MaxBackoff = 1
  WordSize = 2
  PoisonDelay = 2
  MaxEvents = 3
  MaxConversions = 1
  MaxAttempts = 2
  MaxCrashes = 1
CHECK_DEADLOCK FALSE
PROPERTIES
  NoEventLost
