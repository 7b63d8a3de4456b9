SPECIFICATION FairSpec
CONSTANTS
    Projects = {p1, p2}
    Clients = {"llamacpp-ft", "claude", "codex", "opencode", "gemini"}
    Limits = {1, 2}
    Ports = {port1, port2}
    Rows = 2
    UserSessions = {u1}
    MaxCrashes = 1
INVARIANTS
    ServersCapped
    ServerHasRun
    
    UsersLogsStay
PROPERTIES
    RunsEnd
