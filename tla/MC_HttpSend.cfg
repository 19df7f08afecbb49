CONSTANTS
    MaxRetries = 2
    Config <- MCConfig
SPECIFICATION FairSpec
INVARIANTS
    NoBlindRepeat
    RetriesUsed
    RecordsTell
PROPERTY
    SendEnds
CHECK_DEADLOCK FALSE
