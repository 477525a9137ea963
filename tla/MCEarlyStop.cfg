SPECIFICATION WalkSpec
CONSTANTS
    Zero <- MCZero
    NULL = NULL
    Junk = Junk
    NoEnd <- MCNoEnd
    MissPeriod = 2
    Hash <- ForkHash
    Rank <- ForkRank
    Topologies <- ForkTopologies
    Rec <- ForkHash
    IdOf <- ForkIdOf
    Ends <- ForkEnds
    Margin = 2
    Tips <- NoHash
    StartHashes <- NoHash
    Starts <- NoStart
INVARIANTS EarlyStopExact
