CONSTANTS
  MaxVersion = 3
  GateVersion = 2
  MaxOps = 5
  MaxFaults = 2
  MaxHolders = 2
  NoVersion = NoVersion
  Empty = Empty
  NoOp = NoOp
  AmbiguousLaunch = FALSE
  WriteFaults = FALSE
SPECIFICATION FairSpec
INVARIANTS
    ReleaseRecoverable
    GateIsOwned
    FailClosed
    OldApiNeverOverV2
    SingleWriter
PROPERTIES
    FrozenUntilDisabled
    OperationEnds
CHECK_DEADLOCK FALSE
