CONSTANTS
  NKeys = 2
  Workers = {w1, w2}
  Ops = {o1, o2}
  NoWorker = NoWorker
  Policies <- MCOpenClosed
  Calls = {"update", "recover"}
  NonAtomic = TRUE
  ReplayReconcile = FALSE
  MaxRequests = 3
  MaxFaults = 1
  MaxOutside = 1
SPECIFICATION Spec
SYMMETRY Symmetry
INVARIANTS
    OperationsSound
    SettledAgrees
    LateWriteHarmless
PROPERTIES
    ImplementsRegister
    ForeignRulesKept
CHECK_DEADLOCK FALSE
