CONSTANTS
  MaxVersion = 2
  GateVersion = 2
  MaxOps = 2
  MaxFaults = 2
  MaxHolders = 2
  NoVersion = NoVersion
  Empty = Empty
  NoOp = NoOp
  AmbiguousLaunch = TRUE
  WriteFaults = FALSE
SPECIFICATION FairSpec
PROPERTY FinalizingSettles
CHECK_DEADLOCK FALSE
