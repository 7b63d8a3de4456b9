SPECIFICATION Spec
CONSTANTS
    Indexers = {i1}
    Kinds = {"user", "ask", "agent", "edit", "junk", "huge"}
    PlyIds = TRUE
    MaxEntries = 3
    MaxLog = 5
    MaxCrashes = 1
INVARIANTS
    TypeOK
    PlyIsAbsolute
