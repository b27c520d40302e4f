\* Reconnections, cancelled calls and pings in every order, on one thread and
\* on several, where an aborted task may go on for a while.
SPECIFICATION FairSpec
CONSTANTS
    Runtimes = {TRUE, FALSE}
    MaxTries = 2
    MaxConns = 3
    MaxOps = 3
    MaxCancels = 1
INVARIANTS
    TypeOK
    OnePinger
    CleanOnOneThread
    SlotIsTheCallers
    KeptAlive
    AnswerMode
PROPERTIES
    CallsReturn
    DropEndsTasks
