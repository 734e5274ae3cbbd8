CONSTANTS
    Socket = {s1, s2}
    Hangup = Hangup
    MaxRecordings = 2
    MaxFaults = 2
SPECIFICATION FairSpec
INVARIANTS
    TypeOK
    OneFinalizer
    NoOrphanHeartbeat
PROPERTIES
    LeaseKeptToTheEnd
    HangupCleans
    AudioIsEnqueued
CHECK_DEADLOCK FALSE
