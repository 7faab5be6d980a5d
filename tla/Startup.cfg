CONSTANTS
    Environments <- MCEnvironments
    Files <- MCFiles
    ClusterRegions <- MCClusterRegions
    Executions = {e1}
    MaxRestarts = 1
SPECIFICATION Spec
CHECK_DEADLOCK FALSE
INVARIANTS
    WorkersCanRun
    MockIdentityStaysLocal
    RegionsStated
    RefusedClaimsNothing
