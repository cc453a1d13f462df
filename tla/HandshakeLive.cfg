SPECIFICATION FairSpec
CONSTANTS
    s1 = s1
    s2 = s2
    t1 = t1
    t2 = t2
    none = none
    Servers <- OneServer
    Tickets <- TwoTickets
    MaxConnectAttempts = 6
    ConnectRetryBaseDelay = 1
    ConnectRetryMaxDelay = 2
    MaxInFlight = 1
    MaxBreaks = 1
    MaxSendFailures = 1
    MaxConnects = 2
    Timely = TRUE
    Oversized = FALSE
    MaxUpdates = 1
PROPERTIES
    HandshakeCompletes
\* The environment may run out of events, and then nothing is left to do.
CHECK_DEADLOCK FALSE
