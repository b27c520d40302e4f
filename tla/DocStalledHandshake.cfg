\* Counterexample: a stalled TLS handshake holds the only permit.
SPECIFICATION FairSpec
CONSTANTS
    c1 = c1
    c2 = c2
    c3 = c3
    Clients = {c1, c2}
    MaxConnections = 1
    Tls = TRUE
    Silent = {c1}
    DrainZeros = {FALSE}
    MaxSends = 1
PROPERTY
    ShutdownReturns
