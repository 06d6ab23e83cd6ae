\* A sink unbound from one talker and probing another.
CONSTANTS
    talker1 = talker1  talker2 = talker2  listener = listener
    stream = stream  Unset = Unset
    Entities <- TwoTalkers
    Sinks <- OneSink
    SeqIds <- OneSeq
    StreamIds <- OneStream
    ValidTimes <- Validity
    Traffics <- RebindCapture
    CommandTime = 1
    Resp2Time = 1
    ReprobeTime = 2
    RespTime = 2
    RetryTime = 0
    NoTkTime = 2
    MaxTime = 3
SPECIFICATION Spec
PROPERTIES DepartsAsSeen
CHECK_DEADLOCK FALSE
