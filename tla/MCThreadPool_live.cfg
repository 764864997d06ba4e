CONSTANTS
    w1 = w1
    w2 = w2
    c1 = c1
    low = low
    high = high
    p1 = p1
    p2 = p2
    p3 = p3
    d1 = d1
    d2 = d2
    d3 = d3
    NoTask = NoTask
    NoOne = NoOne
    Workers <- MCWorkers2
    Clients <- MCClient
    Tasks <- MCTask1
    TaskPriority <- MCTaskPriority1
    PauseTasks <- MCPause2
    DeleteTasks <- MCDelete2
    InitialWorkers <- MCOne
    Sizes <- MCUpDown
    Calls <- MCAllCalls

SPECIFICATION FairSpec
PROPERTY PauseQuiesces
PROPERTY StopKillsAll
PROPERTY ImplementsExecutor
