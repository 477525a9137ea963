SPECIFICATION Spec
CONSTANTS
    h1 = h1
    h2 = h2
    h3 = h3
    h4 = h4
    k1 = k1
    k2 = k2
    k3 = k3
    n1 = n1
    n2 = n2
    d1 = d1
    obs = obs
    Hdr <- MCHdr
    Kids <- MCKids
    Notes <- MCNotes
    Root = root
    RootKids = rootKids
    Fn <- MCFn
    Observer = obs
    EventSets <- MCEventSets
    NULL = NULL
    MaxNotifiers = 1
    MaxFailures = 1
    MaxOwn = 2
    Programs <- MCPrograms
SYMMETRY Symmetry
INVARIANTS TreeIsLinked NoUseAfterFree NothingLost DestructorsCalled TraversalComplete
