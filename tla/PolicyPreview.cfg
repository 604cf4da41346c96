CONSTANTS
  NKeys = 2
  Workers = {w1, w2}
  Ops = {o1, o2}
  NoWorker = NoWorker
  Policies <- MCOpenClosed
  Calls = {"previewAdoption", "applyAdoption", "previewReconcile", "applyReconcile", "previewExtension", "applyExtension", "recover"}
  NonAtomic = TRUE
  ReplayReconcile = FALSE
  MaxRequests = 3
  MaxFaults = 1
  MaxOutside = 1
SPECIFICATION FairSpec
INVARIANTS
    SettledAgrees
PROPERTIES
    LockReleased
CHECK_DEADLOCK FALSE
