CONSTANTS
  MaxVersion = 2
  GateVersion = 2
  MaxOps = 3
  MaxFaults = 1
  MaxHolders = 2
  NoVersion = NoVersion
  Empty = Empty
  NoOp = NoOp
  AmbiguousLaunch = FALSE
  WriteFaults = TRUE
SPECIFICATION Spec
INVARIANT SwitchedFilesKeepBackup
CHECK_DEADLOCK FALSE
