SPECIFICATION FairSpec
CONSTANTS
    Indexers = {i1, i2}
    Words = {w1, w2}
    LegacyTurns = 2
    MaxTurns = 3
    Editing = {3}
    MaxToggles = 1
    MaxCrashes = 1
INVARIANTS
    TypeOK
    LoneMigrationStoresOnce
    RowsSayTheirTurn

    
