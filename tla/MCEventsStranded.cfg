CONSTANTS
    Waiters = {"w1", "w2"}
    Timed = {"w1"}
    MaxSignals = 1
    MaxResets = 0
    Counters = {"c1"}
    SemWaiters = {"s1", "s2", "s3"}
    SemTriers = {"t1"}
    StartCount = 1
    MaxPosts = 3
    Executors = {"e1", "e2"}
    Setters = {"x1", "x2"}
    QtClients = {"q1", "q2"}
    Runnables = {"r1", "r2", "r3"}
SPECIFICATION MCSpec
INVARIANTS SignalAlwaysReachesAWaiter
CHECK_DEADLOCK FALSE
