SPECIFICATION Spec
CONSTANTS
    e1 = e1
    m1 = m1
    c1 = c1
    c2 = c2
    NoCard = NoCard
    none = none
    Events = {e1}
    Cards = {m1}
    MaxLevel = 2
    Configs = {c1, c2}
    LevelOf <- MCLevelOf
    Word = 2
    FirstFiles <- MCFiles
    Moves <- MCMoves
    Gifts = {"token"}
    MaxId = 2
    MaxVersion = 4
    MaxCreations = 2
SYMMETRY Symmetry
INVARIANTS
    CrashLosesNothingDurable
    GameCatchesUp
PROPERTIES
    FailedSaveChangesNothing
    SavesLoseNothing
\* After the last coordinator nothing has to happen.
CHECK_DEADLOCK FALSE
