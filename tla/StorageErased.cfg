SPECIFICATION Spec
CONSTANTS
    Workers = {w1, w2}
    Users = {"u1", "u2"}
    Leaving = {"u1"}
    Names = {"a"}
    Presets = {"admin_only", "owner_only"}
    FirstPreset = "owner_only"
    MaxBuckets = 2
    MaxObjects = 2
    MaxWrites = 2
    MaxAdmin = 1
    MaxFaults = 0
INVARIANT ErasedStaysErased
CHECK_DEADLOCK FALSE
