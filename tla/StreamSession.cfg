\* Two clients on one session, over captures in and out of order.
CONSTANTS
    c1 = c1  c2 = c2
    Clients <- TwoClients
    Captures <- ForwardCaptures
    HwThreads = 3
    DecodeGrain = 2
    FlushAt = 3
    TsModulus = 16
    ChunkMax = 2
SPECIFICATION FairSpec
INVARIANTS TypeOK DenseNumbers CaptureOrder WholePackets DoneIsComplete
           TellsTrue
PROPERTIES ImplementsFeed StreamsEnd
CHECK_DEADLOCK FALSE
