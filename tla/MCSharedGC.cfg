SPECIFICATION FairSpec
CONSTANTS
    mainThread = mainThread
    rconThread = rconThread
    Posters <- MCPosters
    MaxPosts = 3
    MaxReplies = 2
INVARIANTS
    NoLostWakeup
    DrainedWhenJoined
    HostEventsInOrder
PROPERTIES
    StopReturns
    ImplementsEventLog
\* The object is destroyed in the end: nothing happens after the join.
CHECK_DEADLOCK FALSE
