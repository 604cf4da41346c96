CONSTANTS
  Workers = {w1, w2}
  Executors = {e1, e2}
  Nobody = Nobody
  Restorer = Restorer
  MaxUsers = 2
  MaxDeletions = 2
  MaxTokens = 2
  MaxEvents = 1
  MaxCalls = 2
  MaxFaults = 2
SPECIFICATION Spec
SYMMETRY Symmetry
CHECK_DEADLOCK FALSE
INVARIANTS
    AccountsSound
    AcceptedIsFinal
    NoResurrection
PROPERTIES
    PhaseNeverGoesBack
