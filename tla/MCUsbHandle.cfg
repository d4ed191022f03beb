SPECIFICATION FairSpec
CONSTANTS
    Interfaces = {"0", "1", "2"}
    Configs <- MCConfigs
    Timeout = 6
    TicksPerMilli = 2
    MaxCalls = 4
    MaxLate = 1
INVARIANTS
    TypeOK
    Restored
    EndpointsClaimed
    DeadlineHolds
PROPERTY CommandEnds
