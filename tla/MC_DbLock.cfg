CONSTANTS
    c1 = c1
    c2 = c2
    k1 = k1
    s1 = s1
    s2 = s2
    s3 = s3
    none = none
    Caller <- MCCaller
    Key <- MCKey
    Session <- MCSession
    NoSession = none
    NoKey = none
    MaxConnections = 2
SPECIFICATION FairSpec
INVARIANT
    CleanPool
PROPERTIES
    ImplementsLock
    LocksAndPoolEnd
CHECK_DEADLOCK FALSE
