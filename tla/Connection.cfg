CONSTANTS
    Base = 3
    Hello <- HelloBody
    Bodies <- SomeBodies
    Digits = 2
    Overflown <- SignExtended
    SizeValues = 1000
    BufferSize = 4
    MaxBufferSize = 5
    SocketSize = 7
    Callers = {c1, c2}
    Opener = op
    MaxCalls = 2
SPECIFICATION Spec
INVARIANTS
    InOrder
    NothingStranded
    LimitsAgree
    CutsDoNotMatter
PROPERTIES
    Delivered
CHECK_DEADLOCK FALSE
