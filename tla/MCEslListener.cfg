CONSTANTS
    c1 = c1
    Calls <- OneCall
    Changes = 1
    Registers = 1
    MaxFaults = 2
SPECIFICATION FairSpec
INVARIANTS
    TypeOK
    
    
PROPERTIES
    EndedStaysEnded
    RowsEnd
CHECK_DEADLOCK FALSE
