SPECIFICATION Spec
CONSTANTS
    s1 = s1
    s2 = s2
    t1 = t1
    t2 = t2
    none = none
    Servers <- TwoServers
    Tickets <- TwoTickets
    MaxConnectAttempts = 2
    ConnectRetryBaseDelay = 1
    ConnectRetryMaxDelay = 1
    MaxInFlight = 2
    MaxBreaks = 1
    MaxSendFailures = 0
    MaxConnects = 2
    Timely = FALSE
    Oversized = TRUE
    MaxUpdates = 0
SYMMETRY Symmetry
INVARIANTS
    NoGhostSubscription
    CurrentServerPresentedTicket
PROPERTIES
    BudgetRenewal
\* The environment may run out of events, and then nothing is left to do.
CHECK_DEADLOCK FALSE
