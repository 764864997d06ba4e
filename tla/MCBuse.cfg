CONSTANTS
    r1 = r1
    w1 = w1
    w2 = w2
    f1 = f1
    Disc = Disc
    Blank = Blank
    NoRequest = NoRequest
    NoData = NoData
    SocketRoom = 2
    Reads <- MCReads
    Writes <- MCWrites
    Others <- MCOthers
    Offset <- MCOffset
    Size <- MCSize
    Blocks <- MCBlocks

SPECIFICATION FairSpec
INVARIANT SuccessIsClean
PROPERTY DisconnectEnds
PROPERTY ImplementsDevice

\* The program ends, or is stuck.
CHECK_DEADLOCK FALSE
