CONSTANTS
    Callers = {c1, c2}
    Reconnects = TRUE
    MaxCalls = 3
    MaxOpens = 2
SPECIFICATION Safety
INVARIANT
    PromiseIsThere
CHECK_DEADLOCK FALSE
