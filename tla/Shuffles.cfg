SPECIFICATION ShufflesSpec
CONSTANTS
    t1 = t1
    t2 = t2
    none = none
    Threads <- TwoThreads
    Sizes = {2}
    Ranges <- MCRanges
    MaxCloudFileChunkSize = 3
    MaxPendingReadCalls = 2
    MaxWrites = 2
    MaxReads = 3
    MaxPowerLosses = 1
SYMMETRY Symmetry
INVARIANTS
    FileIsWhole
    ResultsLast
\* After the last write and the last read nothing has to happen.
CHECK_DEADLOCK FALSE
