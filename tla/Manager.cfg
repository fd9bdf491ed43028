CONSTANTS
    MaxCount = 2
    MemLimit = 2
    Adders = {a1}
    RealtimeLimit = 1
    Kinds <- AllKinds
    MaxEvents = 3
SPECIFICATION Spec
INVARIANTS
    NothingLost
    CriticalNeverLost
    ConfirmedOnce
    DestructionSaves
PROPERTIES
    Delivered
    DestructorReturns
CHECK_DEADLOCK FALSE
