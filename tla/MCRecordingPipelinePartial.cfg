CONSTANTS
    Required <- SmbAndTranscription
    MaxFaults = 0
SPECIFICATION FairSpec
PROPERTIES
    PublishedIsConverted
CHECK_DEADLOCK FALSE
