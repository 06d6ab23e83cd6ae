--------------------------------- MODULE Srp --------------------------------
(***************************************************************************)
(* MVRP and MSRP over the registrar layer they share, driven by the        *)
(* packets of one capture: any source may declare any value with any       *)
(* event, and a packet may carry any number of declarations.               *)
(***************************************************************************)
EXTENDS Mvrp, Msrp

vars == <<mrpVars, mvrpVars, msrpVars>>

Init == MrpInit /\ MvrpInit /\ MsrpInit

(* One declaration is handed to MvrpLogic ... *)
MvrpDecode ==
    /\ \/ VlanLeaveAll
       \/ \E v \in Vlans, src \in Sources, ev \in Events : DeclareVlan(v, src, ev)
    /\ UNCHANGED msrpVars

(* ... or to MsrpLogic. *)
MsrpDecode ==
    /\ \/ \E kind \in StreamKinds \cup {"DOMAIN"} : StreamLeaveAll(kind)
       \/ \E src \in Sources, ev \in Events :
            \/ \E s \in Streams, kind \in StreamKinds : DeclareTalker(kind, s, src, ev)
            \/ \E s \in Streams, fp \in FourPacked : DeclareListener(s, src, ev, fp)
            \/ \E d \in Domains : DeclareDomain(d, src, ev)
    /\ UNCHANGED mvrpVars

(* The time of the capture advances. *)
Clock == (Tick \/ \E t \in 0 .. MaxTime : Arrive(t)) /\ UNCHANGED <<mvrpVars, msrpVars>>

Next == MvrpDecode \/ MsrpDecode \/ Clock

Spec == Init /\ [][Next]_vars

TypeOK == MrpTypeOK /\ MvrpTypeOK /\ MsrpTypeOK
=============================================================================
