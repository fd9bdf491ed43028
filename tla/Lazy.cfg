CONSTANTS
    Threads = {t1, t2, t3}
    Objects = {o1, o2, o3, o4}
    Empty = Empty
SPECIFICATION Spec
INVARIANTS
    MutualExclusion
    ReferencesAreCurrent
    NothingLeaked
PROPERTIES
    ToHostReturns
