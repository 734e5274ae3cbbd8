CONSTANTS
    Socket = {s1, s2}
    Hangup = Hangup
    MaxRecordings = 2
    MaxFaults = 1
SPECIFICATION Spec
INVARIANTS
    FinishedIsPublished
SYMMETRY SocketSymmetry
CHECK_DEADLOCK FALSE
