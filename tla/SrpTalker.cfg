\* A stream whose talker attributes are withdrawn one at a time.
CONSTANTS
    src1 = src1  src2 = src2  vlan = vlan  stream = stream  domain = domain
    Sources <- TwoSources
    Vlans <- OneVlan
    Streams <- OneStream
    Domains <- OneDomain
    Traffics <- TalkerCapture
    LeaveTime = 1
    MaxTime = 3
SPECIFICATION Spec
INVARIANT TalkerTruth
CHECK_DEADLOCK FALSE
