\* Two calls and a ping, every failure, payloads at and above the limits.
SPECIFICATION Spec
CONSTANTS
    Command = {0, 1}
    Body <- Payloads
    Reply <- Payloads
    Answers = {TRUE, FALSE}
    Peers <- AllPeers
    ClientMax = 2
    ServerMax = 2
    MaxCalls = 2
    MaxPings = 1
    MaxSignals = 0
INVARIANTS
    TypeOK
    OneResultPerCall
    ExecutedAsSent
    OkMeansExecuted
    StatusIsTheHandlers
    NoStall
    InSync
PROPERTIES
    ImplementsRpc
