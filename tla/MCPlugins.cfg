CONSTANTS
    w1 = w1
    Read_ = Read
    Write_ = Write
    Trim_ = Trim
    readSo = readSo
    trimSo = trimSo
    text = text
    Main = Main
    Monitor = Monitor
    Overflow = Overflow
    Null = Null
    Workers <- MCWorkers
    Keys <- MCKeys
    MainKeys <- MCMainKeys
    Files <- MCFiles
    Libraries <- MCLibraries
    KeyOf <- MCKeyOf
    QueueLimit = 2
    BatchLimit = 2
    MaxMoves = 3

SPECIFICATION FairSpec
INVARIANT MainKeysAreServed
INVARIANT HandlersAreMapped
PROPERTY FirstIsLoaded
PROPERTY EveryoneGetsAFactory

\* Undefined behaviour ends a behaviour.
CHECK_DEADLOCK FALSE
