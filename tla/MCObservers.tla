---------------------------- MODULE MCObservers -----------------------------
(* An instance of Observers.  Each capture brings one of the exchanges: two *)
(* clocks of equal or different quality that send Sync and Announce; two    *)
(* step Syncs; two domains; the delay mechanism, asked for by one port (the *)
(* exchanges of two do not touch); signaling; AECP and MAAP.                *)
EXTENDS Observers

CONSTANTS controller, target, claimant, range1, range2, entity, named, unnamed

Capture(messages, ports, doms, gms, qualities, steps, intervals, seqs, end) ==
    [messages |-> messages, ports |-> ports, domains |-> doms, gms |-> gms,
     qualities |-> qualities, steps |-> steps, intervals |-> intervals,
     seqs |-> seqs, end |-> end, askers |-> {1}]

TwoPorts == {1, 2}
TwoGms == {1, 2}
TwoDomains == {0, 1}
TwoQualities == {1, 2}
TwoIntervals == {1, 2}
TwoSeqs == {1, 2}
OneController == {controller}
OneTarget == {target}
OneClaimant == {claimant}
TwoRanges == {range1, range2}
OneEntity == {entity}
NameOrNone == {named, unnamed}

Captures ==
    {Capture({"SYNC", "ANNOUNCE", "OTHER"}, {1, 2}, {0}, {1, 2}, {1}, {0}, {1, 2}, {1}, 4),
     Capture({"SYNC", "ANNOUNCE"}, {1, 2}, {0}, {1, 2}, {1, 2}, {0, 255}, {1}, {1}, 2),
     Capture({"SYNC", "FOLLOW_UP"}, {1, 2}, {0}, {1}, {1}, {0}, {1}, {1, 2}, 2),
     Capture({"SYNC", "SIGNALING"}, {1, 2}, {0, 1}, {1}, {1}, {0}, {1}, {1}, 2),
     Capture({"ANNOUNCE", "ADP"}, {1}, {0, 1}, {1, 2}, {1}, {0}, {1}, {1}, 2),
     Capture({"PDELAY", "OTHER"}, {1, 2}, {0}, {1}, {1}, {0}, {1, 2}, {1, 2}, 4),
     Capture({"SIGNALING", "OTHER"}, {1}, {0}, {1}, {1}, {0}, {1, 2}, {1}, 6),
     Capture({"AECP", "OTHER"}, {1}, {0}, {1}, {1}, {0}, {1}, {1}, 3),
     Capture({"MAAP"}, {1}, {0}, {1}, {1}, {0}, {1}, {1}, 1)}
=============================================================================
