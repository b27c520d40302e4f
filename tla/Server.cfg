\* Three clients, one of which may stall in its handshake, compete for two
\* permits; three sends race everything.
SPECIFICATION FairSpec
CONSTANTS
    c1 = c1
    c2 = c2
    c3 = c3
    Clients = {c1, c2, c3}
    MaxConnections = 2
    Tls = TRUE
    Silent = {c1}
    DrainZeros = {TRUE, FALSE}
    MaxSends = 3
INVARIANTS
    TypeOK
    PermitsConserved
    HandlesCoverTasks
    NoneServedAfterReturn
    NobodyMissesShutdown
    StopsOnlyWhenTold
PROPERTIES
    ShutdownReturns
    BacklogServed
