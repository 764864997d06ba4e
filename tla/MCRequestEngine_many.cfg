CONSTANTS
    w1 = w1
    w2 = w2
    r1 = r1
    r2 = r2
    d1 = d1
    Blank = Blank
    NoRequest = NoRequest
    FileSize = 3
    OffsetLimit = 8
    Threads = 3
    SocketRoom = 2
    Requests <- MCMany
    Devices <- MCTwo
    DeviceOf <- MCSplit
    Command <- MCCommand
    Offset <- MCOffset
    Size <- MCSize
    Keys <- MCKeys

SPECIFICATION Spec
INVARIANT StreamInSync
INVARIANT RepliesFramed
PROPERTY UsesExecutorSafely

\* A run ends when every request was answered.
CHECK_DEADLOCK FALSE
