SPECIFICATION FairSpec
CONSTANTS
    c1 = c1
    c2 = c2
    mainThread = mainThread
    Connections <- MCConnections
    MaxLifetimes = 2
    MaxPosts = 2
    MaxReplies = 1
INVARIANTS
    NoUseAfterDestroy
PROPERTIES
    UsesGCAsSpecified
    NobodyWaitsForEver
\* After the last client nothing has to happen.
CHECK_DEADLOCK FALSE
