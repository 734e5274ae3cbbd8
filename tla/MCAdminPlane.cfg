CONSTANTS
    None = None
    Request = {r1, r2}
    Work <- Jobs
    User <- Users
    Long <- LongUsers
    Prefix = {"1", "2"}
    InitTenants <- Tenants
    InitPbxs <- Pbxs
    InitCondos <- Condos
    InitTrunks <- Trunks
    InitUsers <- LegacyUsers
    MaxChanges = 1
    MaxFaults = 1
SPECIFICATION Spec
SYMMETRY Two
CHECK_DEADLOCK FALSE
INVARIANTS
    TypeOK
    ScopeConsistent
    AloneIsAtomic
    AnswersLinearize
    ProvisionedOrNot
PROPERTIES
    TenantIsolation
    ImportedIsOff
    NoNewClash
