CONSTANTS
    MaxQueues = 1
    MaxTasks = 2
    MaxPauses = 0
    MaxTime = 0
    UsedGrades = {"kUserInteraction", "kUnspecified", "kDartMicroTasks"}
    ObserverKeys = {}
SPECIFICATION Spec
INVARIANTS GradeOfTheRunningTask

CHECK_DEADLOCK FALSE
