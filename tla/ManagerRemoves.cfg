CONSTANTS
    MaxCount = 2
    MemLimit = 1
    Adders = {a1}
    RealtimeLimit = 1
    Kinds <- AllKinds
    MaxEvents = 2
SPECIFICATION Safety
PROPERTY
    OnlyTheUploadedIsRemoved
CHECK_DEADLOCK FALSE
