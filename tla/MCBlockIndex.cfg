SPECIFICATION FairSpec
CONSTANTS
    Hash <- MCHash
    Zero <- MCZero
    Rank <- MCRank
    Topologies <- MCTopologies
    Rec <- MCRec
    IdOf <- MCIdOf
    NULL = NULL
    Junk = Junk
    Ends <- MCEnds
    NoEnd <- MCNoEnd
    MissPeriod = 2
    Margin = 1
INVARIANTS HeightsLinked NoWildPointer HeightsComplete BestIsHighest
PROPERTIES HeightsStable Termination
