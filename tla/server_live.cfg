SPECIFICATION FairSpec
CONSTANTS
    Servers = {v1, v2}
    Starters = {t1, t2}
    Stoppers = {p1}
    Clients = {}
    Patient = TRUE
    MaxKills = 1
    MaxAborts = 0
 
PROPERTIES
    OrphansEnd
    StartsReturn
    StaleSocketReplaced
