CONSTANTS
    Waiters = {"w1", "w2", "w3"}
    Timed = {"w1"}
    MaxSignals = 2
    MaxResets = 1
    Counters = {"c1", "c2", "c3"}
    SemWaiters = {"s1", "s2", "s3"}
    SemTriers = {"t1"}
    StartCount = 1
    MaxPosts = 3
    Executors = {"e1", "e2"}
    Setters = {"x1", "x2"}
    QtClients = {"q1", "q2"}
    Runnables = {"r1", "r2", "r3"}
SPECIFICATION MCSpec
INVARIANTS OneSignalPerWait SignalReachesAWaiter SleepersMissedNothing NobodyPassesEarly SemaphoreCounts SwitchHolds
PROPERTIES SignalIsTaken SignalUnblocksAll EverybodyPasses QtThreadServes
CHECK_DEADLOCK FALSE
