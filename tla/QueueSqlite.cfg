SPECIFICATION HungSpec
CONSTANTS
    r1 = r1
    r2 = r2
    w1 = w1
    w2 = w2
    Execs = {1, 2}
    Stamps = {1, 2}
    Replicas = {r1}
    Workers = {w1, w2}
    Host <- HostOneReplica
    Backend = "sqlite"
    NoExec = NoExec
    MaxFaults = 0
    MaxCrashes = 1
    MaxSignals = 1
INVARIANTS
    RunAtMostOnce
PROPERTIES
    EarlyResultPersisted
    ShutdownCompletes
