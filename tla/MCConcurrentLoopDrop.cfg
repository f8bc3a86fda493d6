CONSTANTS
    Workers = {"w1"}
    Posters = {"p1"}
    Owner = "owner"
    Tasks = {"t1", "t2"}
    Broadcasts = {}
    WorkersPost = FALSE
    DiskTasks = {"d1", "d2"}
    MainTasks = {"m1"}
    MaxExecutors = 2
SPECIFICATION MCSpec
INVARIANTS NoTaskIsDropped

CHECK_DEADLOCK FALSE
