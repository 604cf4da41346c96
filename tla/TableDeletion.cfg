SPECIFICATION FairSpec
CONSTANTS
    Workers = {w1, w2}
    Names = {"t1", "t2"}
    Schemas = {"s1", "s2"}
    SchemaOf <- MCSchemaOf
    ScopeOf <- MCScopeOf
    EnvSchemas = {"s2"}
    MaxBorn = 2
    MaxDrops = 1
    MaxSyncs = 1
    MaxFaults = 1
INVARIANTS
    DroppedIsForgotten
PROPERTIES
    StandingGrantsKept
    DeletionCompletes
CHECK_DEADLOCK FALSE
