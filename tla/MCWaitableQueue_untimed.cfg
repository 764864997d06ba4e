CONSTANTS
    t1 = t1
    t2 = t2
    t3 = t3
    Items <- MCItems
    Threads <- MCThreads
    TimedThreads <- MCNobody
    Compare <- MCGreater

SPECIFICATION FairSpec
INVARIANT NoLostWakeup
PROPERTY BlockedUntilData
PROPERTY ImplementsBuffer
