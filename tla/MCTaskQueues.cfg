CONSTANTS
    MaxQueues = 3
    MaxTasks = 2
    MaxPauses = 1
    MaxTime = 1
    UsedGrades = {"kUserInteraction", "kUnspecified", "kDartMicroTasks"}
    ObserverKeys = {"k"}
SPECIFICATION MCSpec
INVARIANTS TypeOK MergeShape ServedByOneLoop EachTaskOnce FifoAtEqualTimes
PROPERTIES RunsTheEarliest
CHECK_DEADLOCK FALSE
