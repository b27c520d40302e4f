\* A ping of the old task on the new connection.
SPECIFICATION Spec
CONSTANTS
    Runtimes = {TRUE}
    MaxTries = 2
    MaxConns = 2
    MaxOps = 3
    MaxCancels = 0
INVARIANTS
    CleanExchange
