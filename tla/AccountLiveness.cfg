CONSTANTS
  Workers = {w1}
  Executors = {e1, e2}
  Nobody = Nobody
  Restorer = Restorer
  MaxUsers = 2
  MaxDeletions = 1
  MaxTokens = 1
  MaxEvents = 1
  MaxCalls = 1
  MaxFaults = 2
SPECIFICATION FairSpec
CHECK_DEADLOCK FALSE
PROPERTY DeletionEnds
