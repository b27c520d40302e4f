\* Counterexample: a drain_timeout of 0 aborts a session that has not ended.
SPECIFICATION Spec
CONSTANTS
    c1 = c1
    c2 = c2
    c3 = c3
    Clients = {c1}
    MaxConnections = 2
    Tls = FALSE
    Silent = {}
    DrainZeros = {TRUE}
    MaxSends = 1
INVARIANT
    ZeroWaitsForever
