SPECIFICATION Spec
CONSTANTS
    Proc = {p1, p2}
    CacheOptions = {TRUE, FALSE}
    EndOptions = {TRUE, FALSE}
    MaxBlocks = 3
    MaxFiles = 2
    MaxTime = 2
    MaxRuns = 3
    Crashes = TRUE
    Hole = Hole
    NoFile = NoFile
SYMMETRY ProcSymmetry
INVARIANTS IndexIsComplete QuietCacheIsComplete
