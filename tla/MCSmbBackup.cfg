CONSTANTS
    Calls = 3
    Name <- Names
    Base <- AllBase
    Collision <- CollisionOf
    Rowless = {2}
    Guess <- Mtimes
    Threshold = 2
    Retries = 1
    MaxBroken = 1
    MaxFaults = 3
SPECIFICATION FairSpec
INVARIANTS
    TypeOK
    DoneIsPublished
PROPERTIES
    WriteOnce
    HealthyIsBackedUp
    RemoteTemporariesGo
