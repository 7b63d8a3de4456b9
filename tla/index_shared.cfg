SPECIFICATION FairSpec
CONSTANTS
    Indexers = {i1, i2}
    Kinds = {"user", "ask", "edit"}
    PlyIds = FALSE
    MaxEntries = 4
    MaxLog = 4
    MaxCrashes = 0
INVARIANTS
    NoLineStoredTwice
    PassedTurnsAccounted
PROPERTIES
    ImplementsTurnMemory
    
