CONSTANTS
    BadLine = BadLine
    Bad <- BadLine
    Files <- MCFiles
    FlowNums = {0, 2, 3}
    Durations = {1, 3}
    QlenMonStart = 1
    QlenMonEnd = 4
    QlenMonInterval = 2
    LinkUtilRecord = TRUE
    UtilMonStart = 2
    SwitchMonInterval = 1
    LinkDownAt = 3
    MaxTime = 12
SPECIFICATION Spec
INVARIANT AllFlowsRunAtReturn
PROPERTY Termination
CHECK_DEADLOCK FALSE
