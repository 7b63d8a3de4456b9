SPECIFICATION Spec
CONSTANTS
    Openers = {o1, o2}
    ClaudeTurns = {a1}
    AgentTurns = {}
    CodexTurns = {}
    LegacyVersions = {}
    MaxExchanges = 1
    MaxCrashes = 1
INVARIANT OpeningIsIdempotent
