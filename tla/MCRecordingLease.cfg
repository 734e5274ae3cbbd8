CONSTANTS
    Owner = {o1, o2}
    NoOwner = NoOwner
    LeaseTTL = 3
    HeartbeatPeriod = 2
SPECIFICATION FairSpec
INVARIANTS
    TypeOK
PROPERTIES
    ReleasedOnlyByOwner
    ExclusionSpec
    PromptlyExclusive
    DisplacedNotices
    AbandonedLeaseExpires
