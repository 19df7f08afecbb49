CONSTANTS
    n1 = n1
    n2 = n2
    one = one
    all = all
    none = none
    Namespace <- MCNamespace
    Binding <- MCBinding
    Uses <- MCUses
    Undecodable <- MCUndecodable
    NoBinding = none
    MaxRevision <- MCMaxRevision
    MaxFaults = 1
SPECIFICATION FairSpec
INVARIANTS
    BoundFollowsState
PROPERTIES
    ReadersSeeRegister
    Converges
    BindsAndCloseEnd
CHECK_DEADLOCK FALSE
