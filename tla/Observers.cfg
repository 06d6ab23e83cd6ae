\* Captures of each kind of control traffic; every order of messages and ticks.
CONSTANTS
    controller = controller  target = target  claimant = claimant
    range1 = range1  range2 = range2  entity = entity
    named = named  unnamed = unnamed  NoRange = NoRange
    Domains <- TwoDomains
    Ports <- TwoPorts
    GmIds <- TwoGms
    Qualities <- TwoQualities
    SeqIds <- TwoSeqs
    Intervals <- TwoIntervals
    SyncReceiptTimeoutN = 1
    AnnounceReceiptTimeoutN = 1
    GptpCapableTimeoutN = 3
    AllowedLostResponses = 2
    AnnounceSlack = 1
    MinExchange = 1
    PendingCap = 1
    MaxRequests = 3
    Controllers <- OneController
    Targets <- OneTarget
    AecpSeqIds <- TwoSeqs
    Names <- NameOrNone
    Unnamed = unnamed
    AemTimeout = 1
    MaxCommands = 3
    Claimants <- OneClaimant
    Ranges <- TwoRanges
    MaxClaims = 2
    Entities <- OneEntity
    Traffics <- Captures
SPECIFICATION Spec
INVARIANTS TypeOK ClockTruth BmcaTruth Accounted
CHECK_DEADLOCK FALSE
