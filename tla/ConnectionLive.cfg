\* Every call returns and every task ends, though no timeout need fire.
SPECIFICATION FairSpec
CONSTANTS
    Command = {1}
    Body <- SmallPayloads
    Reply <- SmallPayloads
    Answers = {TRUE, FALSE}
    Peers <- AllPeers
    ClientMax = 2
    ServerMax = 2
    MaxCalls = 2
    MaxPings = 1
    MaxSignals = 1
PROPERTIES
    CallReturns
    ServerNoticesClose
