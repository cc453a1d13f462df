SPECIFICATION Spec
CONSTANTS
    none = none
    Capacity = 2
    MaxId = 4
    MaxRestarts = 2
    FirstFiles <- MCFirstFiles
INVARIANTS
    
    ContentsCounted
    ReferencesKeepTheirMeaning
