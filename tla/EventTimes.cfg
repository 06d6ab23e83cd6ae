\* One client on a capture whose first record is not the earliest.
CONSTANTS
    c1 = c1  c2 = c2
    Clients <- TwoClients
    Captures <- BackwardCaptures
    HwThreads = 1
    DecodeGrain = 2
    FlushAt = 3
    TsModulus = 16
    ChunkMax = 2
SPECIFICATION FairSpec
INVARIANT TimesMonotonic
CHECK_DEADLOCK FALSE
