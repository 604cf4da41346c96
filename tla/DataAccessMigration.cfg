CONSTANTS
  Sources <- MCSources
  MaxRows = 2
  MaxFaults = 2
  MaxEdits = 1
SPECIFICATION FairSpec
INVARIANTS
    HistorySound
    SettledAgrees
    NothingWidened
PROPERTIES
    RecoveryEnds
CHECK_DEADLOCK FALSE
