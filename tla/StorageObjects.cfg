SPECIFICATION FairSpec
CONSTANTS
    Workers = {w1, w2}
    Users = {"u1", "u2"}
    Leaving = {"u1"}
    Names = {"a"}
    Presets = {"admin_only", "owner_only"}
    FirstPreset = "owner_only"
    MaxBuckets = 2
    MaxObjects = 2
    MaxWrites = 3
    MaxAdmin = 1
    MaxFaults = 1
INVARIANTS
    ObjectsSound
PROPERTIES
    OwnershipRespected
    ErasureEnds
CHECK_DEADLOCK FALSE
