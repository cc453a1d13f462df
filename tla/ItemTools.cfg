SPECIFICATION ToolsSpec
CONSTANTS
    none = none
    MaxStickers = 2
    MaxWear = 1
    Contract = 2
    MaxRarity = 1
    Starts <- MCStarts
    Gifts <- MCGifts
    MaxId = 4
    MaxMessages = 4
    MaxApplied = 1
INVARIANTS
    NothingFromNothing
    GameSeesEverything
    CloneIsCustomized
