CONSTANTS
  Workers = {w1}
  Executors = {e1, e2}
  Nobody = Nobody
  Restorer = Restorer
  MaxUsers = 2
  MaxDeletions = 1
  MaxTokens = 1
  MaxEvents = 1
  MaxCalls = 1
  MaxFaults = 0
SPECIFICATION Spec
CHECK_DEADLOCK FALSE
INVARIANT CompletedLeavesNoIdentity
