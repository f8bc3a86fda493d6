CONSTANTS
    MaxQueues = 2
    MaxTasks = 2
    MaxPauses = 1
    MaxTime = 1
    UsedGrades = {"kUnspecified", "kDartMicroTasks"}
    ObserverKeys = {}
    Posters = {"p1"}
    Joined = {}
    MaxMerges = 1
SPECIFICATION MLSpec
INVARIANTS WakeCoversAll

CHECK_DEADLOCK FALSE
