CONSTANTS
    r1 = r1
    r2 = r2
    r3 = r3
    r4 = r4
    nobody = nobody
    Resource <- MCResource
    Registrations <- MCRegistrations
SPECIFICATION SortSpec
INVARIANTS
    StableStartOrder
    CycleIsReal
    ReportedCycleIsCycle
PROPERTIES
    SortDecides
CHECK_DEADLOCK FALSE
