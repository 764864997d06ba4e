CONSTANTS
    t1 = t1
    t2 = t2
    t3 = t3
    Null = Null
    DeadBeef = DeadBeef
    Threads <- MCThreads

SPECIFICATION FairSpec
INVARIANT PointerValid
PROPERTY EveryoneReturns
PROPERTY ImplementsOnce

\* Everyone may spin after a constructor threw.
CHECK_DEADLOCK FALSE
