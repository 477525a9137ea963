SPECIFICATION FairWalkSpec
CONSTANTS
    Zero <- MCZero
    NULL = NULL
    Junk = Junk
    NoEnd <- MCNoEnd
    MissPeriod = 2
    Hash <- MCHash
    Rank <- MCRank
    Topologies <- MCTopologies
    Rec <- MCRec
    IdOf <- MCIdOf
    Ends <- MCEnds
    Margin = 1
    Tips <- MCTips
    StartHashes <- MCStartHashes
    Starts <- MCStarts
INVARIANTS ChainVisited ChainEmitted ExitJustified
PROPERTIES WalkTermination KeepsPromise
