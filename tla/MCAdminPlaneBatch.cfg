CONSTANTS
    None = None
    Request = {r1, r2}
    Work <- LongBatch
    User <- Users
    Long <- LongUsers
    Prefix = {"1", "2"}
    InitTenants <- Tenants
    InitPbxs <- Pbxs
    InitCondos <- Condos
    InitTrunks <- Trunks
    InitUsers <- LegacyUsers
    MaxChanges = 0
    MaxFaults = 0
SPECIFICATION Spec
SYMMETRY Two
CHECK_DEADLOCK FALSE
INVARIANTS
    AllOrNothing
