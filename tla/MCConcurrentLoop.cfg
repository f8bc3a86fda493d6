CONSTANTS
    Workers = {"w1", "w2"}
    Posters = {"p1"}
    Owner = "owner"
    Tasks = {"t1", "t2"}
    Broadcasts = {"b1"}
    WorkersPost = TRUE
    DiskTasks = {"d1", "d2"}
    MainTasks = {"m1"}
    MaxExecutors = 2
SPECIFICATION MCSpec
INVARIANTS NoneSleepsThroughWork
PROPERTIES RefinesTaskPool PostedTasksRun BroadcastsRun DestructionCompletes ExecutorServes
CHECK_DEADLOCK FALSE
