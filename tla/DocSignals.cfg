\* Counterexample: send(false) restarts an exchange half way.
SPECIFICATION FairSpec
CONSTANTS
    Command = {1}
    Body <- SmallPayloads
    Reply <- SmallPayloads
    Answers = {TRUE}
    Peers <- OnlyFramework
    ClientMax = 2
    ServerMax = 2
    MaxCalls = 2
    MaxPings = 1
    MaxSignals = 2
INVARIANT
    SignalsAreSafe
