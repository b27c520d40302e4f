CONSTANTS
    PingClampSubtraction = 3
    PingClampHalveThreshold = 2
    MinPingCheckInterval = 1
    Default <- DefaultValue
    Requests <- AnyRequest
    ServerReadHeader = 13
    Delay = 1
    Tail = 1
    MaxIdle = 13
SPECIFICATION FairSpec
INVARIANTS TypeOK KeptOpen PongInTime IdleTracksServer
PROPERTY CutIsNoticed
