CONSTANTS
    Required <- SmbAndTranscription
    MaxFaults = 2
SPECIFICATION FairSpec
INVARIANTS
    TypeOK
    OneWorkerInside
    InputsStay
    MarkersTruthful
PROPERTIES
    LifeSpec
    CapturedIsReclaimed
    TemporariesGo
CHECK_DEADLOCK FALSE
