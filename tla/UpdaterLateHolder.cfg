CONSTANTS
  MaxVersion = 2
  GateVersion = 2
  MaxOps = 3
  MaxFaults = 1
  MaxHolders = 2
  NoVersion = NoVersion
  Empty = Empty
  NoOp = NoOp
  AmbiguousLaunch = FALSE
  WriteFaults = FALSE
SPECIFICATION FairSpec
PROPERTY RollbackRetryEnds
CHECK_DEADLOCK FALSE
