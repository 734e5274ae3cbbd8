CONSTANTS
    Calls = 3
    Name <- Names
    Base <- AllBase
    Collision <- CollisionOf
    Rowless = {}
    Guess <- Mtimes
    Threshold = 2
    Retries = 1
    MaxBroken = 2
    MaxFaults = 0
SPECIFICATION FairSpec
PROPERTIES
    AlwaysRetried
