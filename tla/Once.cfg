CONSTANTS
    Callers = {t1, t2, t3, t4}
SPECIFICATION OnceSpec
INVARIANTS
    RunsOnce
PROPERTIES
    ReturnsAfterRoutine
    EveryCallReturns
