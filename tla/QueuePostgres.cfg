SPECIFICATION FairSpec
CONSTANTS
    r1 = r1
    r2 = r2
    w1 = w1
    w2 = w2
    Execs = {1, 2}
    Stamps = {1}
    Replicas = {r1, r2}
    Workers = {w1, w2}
    Host <- HostTwoReplicas
    Backend = "postgres"
    NoExec = NoExec
    MaxFaults = 1
    MaxCrashes = 0
    MaxSignals = 1
INVARIANTS
    IndInv
    RunAtMostOnce
    StuckExactlyWhenLost
PROPERTIES
    RefinesExecutions
    AcceptedIsDecided
