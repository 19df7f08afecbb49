CONSTANTS
    db = db
    cache = cache
    api = api
    int = int
    term = term
    Resource <- MCResource
    Registrations <- MCRegistrations
    Signal <- MCSignal
    ShutdownDelay = 5
    MaxSignals = 2
SPECIFICATION FairSpec
INVARIANTS
    ClosedInOrder
    ResourcesAreThere
    NothingLeftRunning
PROPERTIES
    ImplementsLifecycle
    ProcessEnds
CHECK_DEADLOCK FALSE
