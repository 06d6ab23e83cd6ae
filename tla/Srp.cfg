\* Two sources on one VLAN and one stream, every order of declarations.
CONSTANTS
    src1 = src1  src2 = src2  vlan = vlan  stream = stream  domain = domain
    Sources <- TwoSources
    Vlans <- OneVlan
    Streams <- OneStream
    Domains <- OneDomain
    Traffics <- SmallCaptures
    LeaveTime = 1
    MaxTime = 3
SPECIFICATION Spec
INVARIANTS TypeOK LvCounted LeaveEnds VlanMatches EstablishedKept RegisteredListens
CHECK_DEADLOCK FALSE
