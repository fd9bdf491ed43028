CONSTANTS
    ReadCap = 100
    CopyChunk = 2
    Sizes = {1, 3}
    Limits <- Varying
    WriteErrors = TRUE
    MaxEvents = 4
    MaxFiles = 4
    MaxCrashes = 1
    MaxUpdates = 1
SPECIFICATION Safety
INVARIANTS
    EarlierEventsSurvive
CHECK_DEADLOCK FALSE
