\* Counterexample: max_connections = 0 serves nobody.
SPECIFICATION Spec
CONSTANTS
    c1 = c1
    c2 = c2
    c3 = c3
    Clients = {c1}
    MaxConnections = 0
    Tls = FALSE
    Silent = {}
    DrainZeros = {FALSE}
    MaxSends = 1
INVARIANT
    ZeroMeansUnlimited
