CONSTANTS
  NKeys = 2
  Workers = {w1, w2}
  Ops = {o1, o2}
  NoWorker = NoWorker
  Policies <- MCOpenClosed
  Calls = {"previewReconcile", "applyReconcile", "recover"}
  NonAtomic = FALSE
  ReplayReconcile = TRUE
  MaxRequests = 3
  MaxFaults = 1
  MaxOutside = 1
SPECIFICATION Spec
INVARIANT SettledAgrees
CHECK_DEADLOCK FALSE
