SPECIFICATION Spec
CHECK_DEADLOCK FALSE
CONSTANTS
    Requests = {q1, q2}
    Kinds <- MCKinds
    Users <- MCUsers
    RoleOrder <- MCRoleOrder
    Catalog <- MCCatalog
    NoEntry = NoEntry
    MaxFaults = 2
    MaxChanges = 1
    MaxCrashes = 1
INVARIANTS
    ServedOnlyIfConfirmed
    DenialIsDefinite
    AuditTellsExecution
