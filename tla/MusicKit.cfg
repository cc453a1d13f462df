SPECIFICATION Spec
CONSTANTS
    p1 = p1
    p2 = p2
    k1 = k1
    k2 = k2
    none = none
    Players <- MCPlayers
    Kits <- MCKits
    MaxUserId = 2
    MaxMVPs = 1
    MaxMessages = 3
    MaxChanges = 4
SYMMETRY Symmetry
INVARIANTS
    NoOrphanEntry
    CountFollowsKit
\* The players may stop playing.
CHECK_DEADLOCK FALSE
