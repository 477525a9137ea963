SPECIFICATION Spec
CONSTANTS
    WordSize = 6
    Ptr <- MCPtr
    Key = {1, 2, 3, 4}
    Keyings <- MCKeyings
    Hashings <- MCHashings
    Sizes = {0, 3}
    NULL = NULL
INVARIANTS LookupExact IterationExact SearchesEnd
