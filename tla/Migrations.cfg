SPECIFICATION FairSpec
CHECK_DEADLOCK FALSE
CONSTANTS
    r1 = r1
    r2 = r2
    r3 = r3
    Replicas = {r1, r2, r3}
    Known <- MCKnown
    PoolSize = 2
    Nobody = Nobody
    Orphan = Orphan
    MaxFaults = 1
    MaxCrashes = 1
INVARIANTS
    SchemaMatchesRecord
    NoStartupConflict
    ServesMigratedSchema
PROPERTIES
    StartupCompletes
