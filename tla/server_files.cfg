SPECIFICATION Spec
CONSTANTS
    Servers = {v1, v2, v3}
    Starters = {t1, t2}
    Stoppers = {p1}
    Clients = {c1}
    Patient = FALSE
    MaxKills = 0
    MaxAborts = 1
SYMMETRY AnyProcess
INVARIANTS
    SocketLeadsSomewhere
