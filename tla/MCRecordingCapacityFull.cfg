CONSTANTS
    Call = {c1, c2, c3}
    Total = 10
    PerCall = 2
    Longest = 3
    Headroom = 1
    MinFree = 20
    ResumeFree = 30
SPECIFICATION Spec
INVARIANTS
    NeverFull
SYMMETRY CallSymmetry
