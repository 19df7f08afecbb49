SPECIFICATION Spec
CONSTANTS
    TicksPerSecond = 2
    TicksPerMinute = 4
    TicksPerHour = 8
    TicksPerDay = 24
    Items = {"host", "db"}
    Wrong = "wrong"
    KnownKeys <- SomeKeys
    BadFilter = "bad"
    BadDir = "bad"
    Dates <- SomeDates
    Ints = 8
    MaxNameChars = 4
    MaxMillis = 1003
    MaxPage = 2
    MaxOffset = 12
    ConnectDefault = 10
    NoCase <- LowerCase
    Marked = {"secret", "hidden", "private"}
    Control = {"newline", "return"}
    ExtractorLimit = 2
INVARIANTS
    DatesRight
    SettingsMatter
    ValuesExact
    NothingLeaks
CHECK_DEADLOCK FALSE
