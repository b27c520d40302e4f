CONSTANTS
    PingClampSubtraction = 1
    PingClampHalveThreshold = 2
    MinPingCheckInterval = 1
    Default <- LongInterval
    Requests <- NoRequest
    ServerReadHeader = 13
    Delay = 0
    Tail = 0
    MaxIdle = 13
SPECIFICATION Spec
INVARIANT LessIsEffective
