SPECIFICATION Spec
CHECK_DEADLOCK FALSE
SYMMETRY Alike
CONSTANTS
    Paths = {a, b}
    Names = {f, g}
    Dir <- OneDirectory
    Sessions = {s1, s2}
    Doubling = {s1}
    Terse = {s1}
    MaxTime = 3
    MaxExchanges = 2
INVARIANT GitNeverRegresses
