SPECIFICATION ListenerFairSpec
CONSTANTS
    c1 = c1
    c2 = c2
    RconConnections <- MCRconConnections
    MaxStarts = 2
INVARIANTS
    SocketClosedOnce
    StateTellsTheTruth
    NothingRunsAfterStop
PROPERTIES
    DisabledForThisProcess
    StopReturns
\* After Stop, or when nobody calls Start, nothing has to happen.
CHECK_DEADLOCK FALSE
