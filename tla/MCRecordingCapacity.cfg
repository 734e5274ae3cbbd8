CONSTANTS
    Call = {c1, c2, c3, c4}
    Total = 11
    PerCall = 2
    Longest = 3
    Headroom = 1
    MinFree = 20
    ResumeFree = 30
SPECIFICATION FairSpec
INVARIANTS
    TypeOK
    OvercommitBounded
PROPERTIES
    RefusalEnds
