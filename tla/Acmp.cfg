\* Two talkers and a sink; every order of messages, timeouts and module ticks.
CONSTANTS
    talker1 = talker1  talker2 = talker2  listener = listener
    stream = stream  Unset = Unset
    Entities <- TwoTalkers
    Sinks <- OneSink
    SeqIds <- OneSeq
    StreamIds <- OneStream
    ValidTimes <- Validity
    Traffics <- SmallCaptures
    CommandTime = 1
    Resp2Time = 1
    ReprobeTime = 2
    RespTime = 2
    RetryTime = 0
    NoTkTime = 2
    MaxTime = 3
SPECIFICATION Spec
INVARIANTS TypeOK AvailabilityShared NoDiscoveryMissed SettledAsRegistered NoTimerOverrun DisconnectOpen
CHECK_DEADLOCK FALSE
