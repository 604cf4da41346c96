CONSTANTS
  Workers = {w1, w2}
  NoWorker = NoWorker
  Tables = {"t1", "t2"}
  Contracts <- MCDisjoint
  EnvSels = {}
  MaxReopened = 1
  MaxOps = 2
  MaxFaults = 1
  MaxOutside = 1
SPECIFICATION Spec
CHECK_DEADLOCK FALSE
INVARIANT ClosedAlwaysReopens
