CONSTANTS
    c1 = c1
    c2 = c2
    c3 = c3
    Caller <- MCCaller
SPECIFICATION SourceSpec
INVARIANTS
    OneOwner
    ClosedMeansClosed
PROPERTY
    CallsEnd
CHECK_DEADLOCK FALSE
