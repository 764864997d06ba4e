CONSTANTS
    t1 = t1
    t2 = t2
    t3 = t3
    Items <- MCItems
    Threads <- MCThreads
    TimedThreads <- MCMixed
    Compare <- MCGreater

SPECIFICATION PollingSpec
PROPERTY PollingServes
