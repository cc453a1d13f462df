SPECIFICATION Spec
CONSTANTS
    noTeam = noTeam
    team = team
    d1 = d1
    d2 = d2
    none = none
    Classes <- MCClasses
    Slots <- MCSlots
    NoTeam = noTeam
    Graffiti = 2
    Defaults <- MCDefaults
    InitialItems <- MCItems
    Sealed <- MCSealed
    MaxServerSOCacheItems = 2
    MaxId = 3
SYMMETRY Symmetry
INVARIANTS
    LoadoutConsistent
    GameMirrorsLoadout
    ServerSeesLoadout
PROPERTIES
    SwapKeepsEverything
