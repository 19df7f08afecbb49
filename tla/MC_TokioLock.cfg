CONSTANTS
    c1 = c1
    c2 = c2
    c3 = c3
    k1 = k1
    k2 = k2
    m1 = m1
    m2 = m2
    m3 = m3
    none = none
    Caller <- MCCaller
    Key <- MCKey
    Mutex <- MCMutex
    NoMutex = none
SPECIFICATION FairSpec
INVARIANTS
    Exclusion
    OnlyRefusedLeaveEntries
PROPERTY
    WaitersServed
CHECK_DEADLOCK FALSE
