CONSTANTS
  MaxVersion = 2
  GateVersion = 2
  MaxOps = 2
  MaxFaults = 1
  MaxHolders = 2
  NoVersion = NoVersion
  Empty = Empty
  NoOp = NoOp
  AmbiguousLaunch = FALSE
  WriteFaults = FALSE
SPECIFICATION Spec
PROPERTY InterruptedBackupIsRetryable
CHECK_DEADLOCK FALSE
