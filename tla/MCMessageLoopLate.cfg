CONSTANTS
    MaxQueues = 1
    MaxTasks = 2
    MaxPauses = 0
    MaxTime = 0
    UsedGrades = {"kUnspecified"}
    ObserverKeys = {}
    Posters = {"p1"}
    Joined = {0}
    MaxMerges = 0
SPECIFICATION MLSpec
INVARIANTS NothingLeftBehind

CHECK_DEADLOCK FALSE
