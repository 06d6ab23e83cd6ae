------------------------------- MODULE MCSrp --------------------------------
(* An instance of Srp: two sources, one VLAN, one stream, one SR domain.   *)
(* Each capture declares a few keys: two members of a VLAN beside a        *)
(* domain; a stream both of whose talker attributes are declared, one of   *)
(* them by two sources; one with two listeners; a VLAN beside a listener.  *)
(* The time allows a leave, its expiry, and the expiry of a second leave.  *)
EXTENDS Srp

CONSTANTS src1, src2, vlan, stream, domain

TwoSources == {src1, src2}
OneVlan == {vlan}
OneStream == {stream}
OneDomain == {domain}

Vid(src) == <<<<"VID", vlan>>, src>>
Of(kind, src) == <<<<kind, stream>>, src>>
Dom(src) == <<<<"DOMAIN", domain>>, src>>

SmallCaptures ==
    {{Vid(src1), Vid(src2), Dom(src1)},
     {Of("TALKER_ADVERTISE", src1), Of("TALKER_FAILED", src1),
      Of("TALKER_ADVERTISE", src2), Of("LISTENER", src2)},
     {Of("TALKER_ADVERTISE", src1), Of("LISTENER", src1), Of("LISTENER", src2)},
     {Vid(src1), Of("LISTENER", src1)}}

(* One talker that uses both of its attributes. *)
TalkerCapture == {{Of("TALKER_ADVERTISE", src1), Of("TALKER_FAILED", src1)}}
=============================================================================
