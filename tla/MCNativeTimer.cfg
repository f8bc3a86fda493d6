CONSTANTS
    Handles = {"h1", "h2"}
    MaxClassRefs = 1
    MaxInput = 6
    Kilo = 10
    WordBits = 16
    Invokers = {"i1", "i2"}
    Functions = {"f1", "f2", "f3"}
    PipeCapacity = 3
    ReadSize = 2
    Threads = {"t1", "t2"}
    Objects = {"o1", "o2"}
    Factories = {"f", "g"}
    Ptrs = {"f", "g", "p1", "p2", "p3"}
    NoObj = NoObj
    SharedThreads = {"t1", "t2"}
    SharedObjects = {"o1", "o2"}
    SharedPtrs = {"p1", "p2", "p3"}
    NoShared = NoShared
    Uniques = {"u1", "u2", "u3"}
    Values = {"v1", "v2", "v3"}
    InvalidValue = InvalidValue
SPECIFICATION MCSpec
INVARIANTS PastTimersFire
CHECK_DEADLOCK FALSE
