CONSTANTS
    w1 = w1
    w2 = w2
    c1 = c1
    low = low
    high = high
    p1 = p1
    p2 = p2
    p3 = p3
    d1 = d1
    d2 = d2
    d3 = d3
    NoTask = NoTask
    NoOne = NoOne
    Workers <- MCWorkers2
    Clients <- MCClient
    Tasks <- MCTasks
    TaskPriority <- MCTaskPriority
    PauseTasks <- MCPause2
    DeleteTasks <- MCDelete3
    InitialWorkers <- MCOne
    Sizes <- MCUpDown
    Calls <- MCAllCalls

SPECIFICATION Spec
SYMMETRY MCSymmetry
INVARIANT Consistent
INVARIANT ThreadCount
INVARIANT DeleteFindsWorker
INVARIANT PauseCovers
PROPERTY StopDrains
PROPERTY ImplementsExecutorSafely
