CONSTANTS
    Callers = {c1, c2}
    Workers = {w1, w2}
    MaxRequests = 3
    MaxSleeps = 1
    None = None
SPECIFICATION Spec
INVARIANTS
    OneWorker
    PendingHasWorker
    TerminatedIsQuiet
PROPERTIES
    ImplementsDelayedTask
    ImmediateSkipsDelay
    TerminateReturns
CHECK_DEADLOCK FALSE
