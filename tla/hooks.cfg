SPECIFICATION Spec
SYMMETRY Alike
CONSTANTS
    Procs = {p1, p2, p3}
    Harnesses = {"claude", "codex", "grok", "omp-pi", "opencode"}
    Found <- FoundHooks
    Generations = 1
    MaxEdits = 1
    MaxCrashes = 1
INVARIANTS
    InstallSettles
PROPERTIES
    OthersWorkStays
    ReplacedIsKept
