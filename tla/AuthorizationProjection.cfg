CONSTANTS
  Workers = {w1, w2}
  NoWorker = NoWorker
  Tables = {"t1", "t2"}
  Contracts <- MCContracts
  EnvSels = {"env"}
  MaxReopened = 1
  MaxOps = 2
  MaxFaults = 1
  MaxOutside = 1
SPECIFICATION FairSpec
CHECK_DEADLOCK FALSE
INVARIANTS
    ProjectionsSound
    SettledAgrees
    ClosedCanReopen
PROPERTIES
    ForeignMetadataKept
    RecoveryEnds
