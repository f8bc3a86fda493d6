CONSTANTS
    MaxQueues = 2
    MaxTasks = 2
    MaxPauses = 0
    MaxTime = 1
    UsedGrades = {"kUnspecified"}
    ObserverKeys = {}
    Posters = {"p1"}
    Joined = {0}
    MaxMerges = 2
SPECIFICATION MLFairSpec

PROPERTIES TasksAreRun JoinCompletes
CHECK_DEADLOCK FALSE
