SPECIFICATION FairSpec
CONSTANTS
    Openers = {o1, o2}
    ClaudeTurns = {c1}
    AgentTurns = {a1}
    CodexTurns = {x1}
    LegacyVersions = {0, 12}
    MaxExchanges = 1
    MaxCrashes = 1
INVARIANTS
    TypeOK
    VersionKeepsItsPromises
    SymbolsCarriedOver
    
PROPERTIES
    DistilledStays
    LoneOpenersReachLatest
