CONSTANTS
    Callers = {c1, c2}
    Reconnects = TRUE
    MaxCalls = 2
    MaxOpens = 2
SPECIFICATION Spec
INVARIANTS
    SomebodyAnswers
PROPERTIES
    CalledOnce
    CallReturns
CHECK_DEADLOCK FALSE
