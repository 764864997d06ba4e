CONSTANTS
    k1 = k1
    k2 = k2
    t1 = t1
    t2 = t2
    NoDispatcher = NoDispatcher
    Off = Off
    Nano = Nano
    TicksPerMilli = 2
    MillisPerSecond = 2
    Kamikazes <- MCKamikazes
    Threads <- MCThreads
    Delays <- MCDelays

SPECIFICATION FairSpec
INVARIANT NoEntryStranded
INVARIANT EveryExpiryHasEntry
INVARIANT NeverEarly
INVARIANT NothingLeaks
PROPERTY EveryKamikazeDies
