SPECIFICATION Spec
CHECK_DEADLOCK FALSE
CONSTANTS
    Table <- MCTable
    Lines <- MCLines
    Jobs <- MCJobs
    Tried <- MCTried
    IntMax = 7
    LongMax = 31
    Half = 8
    Day = 5
    DayShift = 8
    NULL = NULL
INVARIANTS ParsedAsMeant MapKeptIfRead 
