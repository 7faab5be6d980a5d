SPECIFICATION FairSpec
CHECK_DEADLOCK FALSE
CONSTANTS
    c1 = c1
    c2 = c2
    c3 = c3
    c4 = c4
    i1 = i1
    i2 = i2
    i3 = i3
    NoCluster = NoCluster
    NoRequest = NoRequest
    Workers = {w1, w2}
    Requests <- MCRequests
    Clusters = {c1, c2, c3, c4}
    Region <- MCRegion
    Account <- MCAccount
    Unlabelled = {c3}
    FirstBinding <- MCBinding
    Instances = {i1, i2, i3}
    Owner <- MCOwner
    Place <- MCPlace
    AllowedRegions = {"near"}
    AllowedOperations = {"reboot"}
    AllowedNamespaces = {"ns"}
    AllowedSecrets <- MCSecrets
    MaxRuns = 1
    MaxRebinds = 1
INVARIANTS
    EffectOnNamedCluster
    EffectInAllowedRegion
    
PROPERTIES
    WorkerFreed
