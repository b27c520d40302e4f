\* Counterexample: a transport failure that is ignored.
SPECIFICATION FairSpec
CONSTANTS
    Command = {1}
    Body <- SmallPayloads
    Reply <- SmallPayloads
    Answers = {TRUE}
    Peers <- OnlyFramework
    ClientMax = 2
    ServerMax = 2
    MaxCalls = 1
    MaxPings = 0
    MaxSignals = 0
PROPERTY
    TransportFailureEndsTask
