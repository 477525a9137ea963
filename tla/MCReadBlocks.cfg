SPECIFICATION Spec
CONSTANTS
    Marker <- MCMarker
    NULL = NULL
    FileName <- MCFileName
    Layout <- MCLayout
    Directories <- MCDirectories
    SpaceSize = 1200
    TransactionSize = 120
    InputSize = 80
    OutputSize = 24
    PointerSize = 8
INVARIANTS ListingExact ScanExact RightFileOpen TxExact DumpIsOriginal EndsForAReason
PROPERTIES Termination
