---------------------------- MODULE MrpRegistrar ----------------------------
(***************************************************************************)
(* The MRP registrar layer of SharedModel (backend/src/logic/              *)
(* mrp_registrar.cpp): one registrar for every declared attribute value    *)
(* and declaring source, fed by MvrpLogic and MsrpLogic, and the           *)
(* leavetimer that capture time drives.  Engine::analyze hands the         *)
(* declarations of a packet to the modules one by one and then advances    *)
(* the time.                                                               *)
(***************************************************************************)
EXTENDS Integers, FiniteSets

CONSTANTS Sources,    \* declaring MAC addresses
          Vlans, Streams, Domains,  \* the attribute values declared
          Traffics,   \* what captures may declare: sets of keys
          LeaveTime,  \* kMrpLeaveTimeS: 1.0 s
          MaxTime     \* bound on the capture time

VARIABLES traffic,          \* the keys that this capture declares
          registrar,        \* MrpAttr::registrar
          leaveTimerStart,  \* MrpAttr::leaveTimerStart
          mrpLvCount,
          now,              \* ts of the packet in hand
          decoding          \* its declarations are being handed out

mrpVars == <<traffic, registrar, leaveTimerStart, mrpLvCount, now, decoding>>

(* The attributes, by kind, and the keys of mrpAttrs: a value of a kind    *)
(* declared by a source.                                                   *)
StreamKinds == {"TALKER_ADVERTISE", "TALKER_FAILED", "LISTENER"}
Attrs == ({"VID"} \X Vlans) \cup (StreamKinds \X Streams)
            \cup ({"DOMAIN"} \X Domains)
Keys == Attrs \X Sources

ASSUME MrpAssumption ==
    /\ IsFiniteSet(Sources)
    /\ IsFiniteSet(Vlans) /\ IsFiniteSet(Streams) /\ IsFiniteSet(Domains)
    /\ Traffics \subseteq SUBSET Keys
    /\ LeaveTime \in Nat /\ MaxTime \in Nat

(* The AttributeEvents that a declared value carries; LeaveAll is handled  *)
(* apart.                                                                  *)
Joins == {"New", "JoinIn", "JoinMt"}
Events == Joins \cup {"In", "Mt", "Lv"}

In(state) == {k \in Keys : registrar[k] = state}

MrpInit ==
    /\ traffic \in Traffics
    /\ registrar = [k \in Keys |-> "MT"]
    /\ leaveTimerStart = [k \in Keys |-> -1]
    /\ mrpLvCount = 0
    /\ now = 0
    /\ decoding = FALSE
-----------------------------------------------------------------------------
(* mrpSetRegistrar moves a registrar out of LV: the count never goes below *)
(* zero.                                                                   *)
Uncount(n) == IF n <= mrpLvCount THEN mrpLvCount - n ELSE 0

(* Mutant: a registrar re-joined while it was leaving stays counted. *)
CountOnlyLeaves(from, to) ==
    IF from # "LV" /\ to = "LV" THEN mrpLvCount + 1 ELSE mrpLvCount

Count(from, to) ==
    IF from = to THEN mrpLvCount
    ELSE IF from = "LV" THEN Uncount(1)
    ELSE IF to = "LV" THEN mrpLvCount + 1
    ELSE mrpLvCount

(* mrpEvent: one observed declaration of attr by src. *)
MrpEvent(attr, src, ev) ==
    LET k == <<attr, src>>
        leaves == ev = "Lv" /\ registrar[k] = "IN"
        to == IF ev \in Joins THEN "IN" ELSE IF leaves THEN "LV" ELSE registrar[k]
    IN  /\ k \in traffic
        /\ registrar' = [registrar EXCEPT ![k] = to]
        /\ leaveTimerStart' = [leaveTimerStart EXCEPT
                                 ![k] = IF ev \in Joins THEN -1
                                        ELSE IF leaves THEN now ELSE @]
        /\ mrpLvCount' = Count(registrar[k], to)

(* Mutant: LeaveAll forgets mrpLvCount. *)
MrpLeaveAllUncounted(kind) ==
    LET hit == {k \in In("IN") : k[1][1] = kind}
    IN  /\ \E k \in traffic : k[1][1] = kind
        /\ registrar' = [k \in Keys |-> IF k \in hit THEN "LV" ELSE registrar[k]]
        /\ leaveTimerStart' = [k \in Keys |-> IF k \in hit THEN now ELSE leaveTimerStart[k]]
        /\ UNCHANGED mrpLvCount

(* mrpLeaveAll: every registered value of the kind starts to leave. *)
MrpLeaveAll(kind) ==
    LET hit == {k \in In("IN") : k[1][1] = kind}
    IN  /\ \E k \in traffic : k[1][1] = kind
        /\ registrar' = [k \in Keys |-> IF k \in hit THEN "LV" ELSE registrar[k]]
        /\ leaveTimerStart' = [k \in Keys |-> IF k \in hit THEN now ELSE leaveTimerStart[k]]
        /\ mrpLvCount' = mrpLvCount + Cardinality(hit)

(* mrpTick: unless nothing is leaving, what has left for longer than       *)
(* LeaveTime is deregistered.                                              *)
Expired == {k \in In("LV") : leaveTimerStart[k] >= 0 /\ now > leaveTimerStart[k] + LeaveTime}

MrpTick ==
    IF mrpLvCount = 0
      THEN UNCHANGED <<registrar, leaveTimerStart, mrpLvCount>>
      ELSE /\ registrar' = [k \in Keys |-> IF k \in Expired THEN "MT" ELSE registrar[k]]
           /\ leaveTimerStart' = [k \in Keys |-> IF k \in Expired THEN -1 ELSE leaveTimerStart[k]]
           /\ mrpLvCount' = Uncount(Cardinality(Expired))

(* The next packet of the ordered pass, at a time not before the last; its *)
(* declarations follow, and the tick ends it.                              *)
Arrive(t) ==
    /\ ~decoding /\ t \in now .. MaxTime
    /\ now' = t
    /\ decoding' = TRUE
    /\ UNCHANGED <<traffic, registrar, leaveTimerStart, mrpLvCount>>

Declared == decoding /\ UNCHANGED <<traffic, now, decoding>>

Tick ==
    /\ decoding
    /\ decoding' = FALSE
    /\ UNCHANGED <<traffic, now>>
    /\ MrpTick
-----------------------------------------------------------------------------
MrpTypeOK ==
    /\ traffic \subseteq Keys
    /\ registrar \in [Keys -> {"IN", "LV", "MT"}]
    /\ leaveTimerStart \in [Keys -> -1 .. MaxTime]
    /\ mrpLvCount \in Nat
    /\ now \in 0 .. MaxTime
    /\ decoding \in BOOLEAN

(* mrpTick returns at once when mrpLvCount is 0, so the counter has to     *)
(* keep up with the registrars that are leaving over any sequence of       *)
(* leaves, LeaveAlls, re-joins and expiries (avb_logic.h: "keep mrpLvCount *)
(* (the number of registrars currently in LV) in step").                   *)
LvCounted == mrpLvCount = Cardinality(In("LV"))

(* No registrar lingers: whatever was left more than LeaveTime ago and not *)
(* joined again since is deregistered by the end of the packet that shows  *)
(* it, and the timer that runs is that of the leave in progress.           *)
LeaveEnds ==
    \A k \in In("LV") :
        /\ leaveTimerStart[k] \in 0 .. now
        /\ ~decoding => now <= leaveTimerStart[k] + LeaveTime
=============================================================================
