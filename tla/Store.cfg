CONSTANTS
    ReadCap = 100
    CopyChunk = 100
    Sizes = {1, 2, 3}
    Limits <- Small
    WriteErrors = FALSE
    MaxEvents = 4
    MaxFiles = 4
    MaxCrashes = 2
    MaxUpdates = 0
SPECIFICATION Spec
INVARIANTS
    OnlyCutEventsLost
    InOrderOnce
    BookkeepingIsTrue
PROPERTIES
    StoreDrains
    ImplementsQueue
CHECK_DEADLOCK FALSE
