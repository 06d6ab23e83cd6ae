------------------------------ MODULE SrpProofs -----------------------------
(***************************************************************************)
(* For any finite sets of sources, VLANs, streams and domains, any capture *)
(* and any leave time: the registrars that leave are counted exactly and   *)
(* none lingers, and the VLAN and the reservation views agree with the     *)
(* registrars and with the sets that other modules read.                   *)
(***************************************************************************)
EXTENDS Srp, FiniteSetTheorems, TLAPS

(* The registrar layer's part of the inductive invariant. *)
RegistrarInv == MrpTypeOK /\ LvCounted /\ LeaveEnds

(* The shared declaration is the reservation's. *)
DeclShared == msrpTalkerDecl = decl

MsrpParts == MsrpTypeOK /\ DeclShared /\ EstablishedKept /\ RegisteredListens

Inv == /\ RegistrarInv
       /\ MvrpTypeOK /\ VlanMatches
       /\ MsrpParts
-----------------------------------------------------------------------------
(***************************************************************************)
(* The registrar layer.                                                    *)
(***************************************************************************)

(* There are finitely many keys, and finitely many registrars in a state.  *)
LEMMA KeysFinite == IsFiniteSet(Keys)
<1>1. /\ IsFiniteSet({"VID"}) /\ IsFiniteSet({"DOMAIN"})
      /\ IsFiniteSet({"TALKER_ADVERTISE"}) /\ IsFiniteSet({"TALKER_FAILED"})
      /\ IsFiniteSet({"LISTENER"})
  BY FS_Singleton
<1>2. IsFiniteSet({"TALKER_ADVERTISE"} \cup {"TALKER_FAILED"})
  BY <1>1, FS_Union
<1>3. IsFiniteSet(({"TALKER_ADVERTISE"} \cup {"TALKER_FAILED"}) \cup {"LISTENER"})
  BY <1>1, <1>2, FS_Union
<1>4. StreamKinds = ({"TALKER_ADVERTISE"} \cup {"TALKER_FAILED"}) \cup {"LISTENER"}
  BY DEF StreamKinds
<1>5. IsFiniteSet(StreamKinds)
  BY <1>3, <1>4
<1>6. /\ IsFiniteSet({"VID"} \X Vlans) /\ IsFiniteSet(StreamKinds \X Streams)
      /\ IsFiniteSet({"DOMAIN"} \X Domains)
  BY <1>1, <1>5, MrpAssumption, FS_Product
<1>7. IsFiniteSet(({"VID"} \X Vlans) \cup (StreamKinds \X Streams))
  BY <1>6, FS_Union
<1>8. IsFiniteSet(Attrs)
  BY <1>6, <1>7, FS_Union DEF Attrs
<1>. QED
  BY <1>8, MrpAssumption, FS_Product DEF Keys

(* The registrations IN at a source are a finite set, so they can be counted. *)
LEMMA InFinite ==
    ASSUME NEW x
    PROVE  IsFiniteSet(In(x)) /\ Cardinality(In(x)) \in Nat
BY KeysFinite, FS_Subset, FS_CardinalityType DEF In

(* mrpEvent changes one registrar, and leaves it IN only if the source     *)
(* joined or said nothing of leaving.                                      *)
LEMMA EventKeeps ==
    ASSUME RegistrarInv, Declared,
           NEW attr \in Attrs, NEW src \in Sources, NEW ev \in Events,
           MrpEvent(attr, src, ev)
    PROVE  /\ RegistrarInv'
           /\ \A k \in Keys : k # <<attr, src>> => registrar'[k] = registrar[k]
           /\ registrar'[<<attr, src>>] = "IN" =>
                ev \in Joins \/ (ev \in {"In", "Mt"} /\ registrar[<<attr, src>>] = "IN")
<1>. DEFINE k == <<attr, src>>
            leaves == ev = "Lv" /\ registrar[k] = "IN"
            to == IF ev \in Joins THEN "IN" ELSE IF leaves THEN "LV" ELSE registrar[k]
            start == IF ev \in Joins THEN -1 ELSE IF leaves THEN now ELSE leaveTimerStart[k]
<1>1. /\ k \in Keys /\ MrpTypeOK /\ LvCounted /\ LeaveEnds
      /\ decoding /\ UNCHANGED <<traffic, now, decoding>>
      /\ registrar' = [registrar EXCEPT ![k] = to]
      /\ leaveTimerStart' = [leaveTimerStart EXCEPT ![k] = start]
      /\ mrpLvCount' = Count(registrar[k], to)
  BY DEF Keys, RegistrarInv, Declared, MrpEvent
<1>2. /\ registrar \in [Keys -> {"IN", "LV", "MT"}]
      /\ leaveTimerStart \in [Keys -> -1 .. MaxTime]
      /\ mrpLvCount \in Nat /\ now \in 0 .. MaxTime /\ MaxTime \in Nat
  BY <1>1, MrpAssumption DEF MrpTypeOK
<1>3. to \in {"IN", "LV", "MT"} /\ start \in -1 .. MaxTime
  BY <1>1, <1>2
<1>4. to = "LV" => \/ registrar[k] = "LV" /\ start = leaveTimerStart[k]
                   \/ registrar[k] = "IN" /\ start = now
  BY <1>1, <1>2
<1>5. to = "IN" => ev \in Joins \/ (ev \in {"In", "Mt"} /\ registrar[k] = "IN")
  BY <1>1 DEF Events
<1>. HIDE DEF to, start, leaves, k
<1>6. /\ registrar' \in [Keys -> {"IN", "LV", "MT"}]
      /\ leaveTimerStart' \in [Keys -> -1 .. MaxTime]
      /\ registrar'[k] = to /\ leaveTimerStart'[k] = start
      /\ \A j \in Keys : j # k => /\ registrar'[j] = registrar[j]
                                  /\ leaveTimerStart'[j] = leaveTimerStart[j]
  BY <1>1, <1>2, <1>3
<1>7. mrpLvCount' = Cardinality(In("LV")') /\ mrpLvCount' \in Nat
  <2>1. IsFiniteSet(In("LV")) /\ Cardinality(In("LV")) = mrpLvCount
    BY <1>1, InFinite DEF LvCounted
  <2>2. CASE to = registrar[k]
    <3>1. In("LV")' = In("LV")
      BY <2>2, <1>1, <1>6 DEF In
    <3>2. mrpLvCount' = mrpLvCount
      BY <2>2, <1>1 DEF Count
    <3>. QED
      BY <2>1, <3>1, <3>2, <1>2
  <2>3. CASE to # registrar[k] /\ registrar[k] = "LV"
    <3>1. In("LV")' = In("LV") \ {k} /\ k \in In("LV")
      BY <2>3, <1>1, <1>6 DEF In
    <3>2. Cardinality(In("LV")') = mrpLvCount - 1
      BY <2>1, <3>1, FS_RemoveElement
    <3>3. mrpLvCount # 0
      BY <2>1, <3>1, FS_EmptySet
    <3>4. mrpLvCount' = mrpLvCount - 1
      BY <2>3, <3>3, <1>1, <1>2 DEF Count, Uncount
    <3>. QED
      BY <3>2, <3>3, <3>4, <1>2
  <2>4. CASE to # registrar[k] /\ registrar[k] # "LV" /\ to = "LV"
    <3>1. In("LV")' = In("LV") \cup {k} /\ k \notin In("LV")
      BY <2>4, <1>1, <1>6 DEF In
    <3>2. Cardinality(In("LV")') = mrpLvCount + 1
      BY <2>1, <3>1, FS_AddElement
    <3>3. mrpLvCount' = mrpLvCount + 1
      BY <2>4, <1>1 DEF Count
    <3>. QED
      BY <3>2, <3>3, <1>2
  <2>5. CASE to # registrar[k] /\ registrar[k] # "LV" /\ to # "LV"
    <3>1. In("LV")' = In("LV")
      BY <2>5, <1>1, <1>6 DEF In
    <3>2. mrpLvCount' = mrpLvCount
      BY <2>5, <1>1 DEF Count
    <3>. QED
      BY <2>1, <3>1, <3>2, <1>2
  <2>. QED
    BY <2>2, <2>3, <2>4, <2>5
<1>8. LeaveEnds'
  <2>. SUFFICES ASSUME NEW j \in Keys, registrar'[j] = "LV"
                PROVE  leaveTimerStart'[j] \in 0 .. now
    BY <1>1 DEF LeaveEnds, In
  <2>1. registrar[j] = "LV" => leaveTimerStart[j] \in 0 .. now
    BY <1>1 DEF LeaveEnds, In
  <2>2. CASE j = k
    BY <2>1, <2>2, <1>2, <1>4, <1>6
  <2>3. CASE j # k
    BY <2>1, <2>3, <1>6
  <2>. QED
    BY <2>2, <2>3
<1>9. MrpTypeOK'
  BY <1>1, <1>6, <1>7 DEF MrpTypeOK
<1>10. LvCounted'
  BY <1>7 DEF LvCounted
<1>. QED
  BY <1>5, <1>6, <1>8, <1>9, <1>10 DEF RegistrarInv, k

(* mrpLeaveAll leaves no registrar of its kind IN, and brings none IN.     *)
LEMMA LeaveAllKeeps ==
    ASSUME RegistrarInv, Declared, NEW kind, MrpLeaveAll(kind)
    PROVE  /\ RegistrarInv'
           /\ \A k \in Keys : registrar'[k] = "IN" => registrar[k] = "IN" /\ k[1][1] # kind
<1>. DEFINE hit == {k \in In("IN") : k[1][1] = kind}
<1>1. /\ MrpTypeOK /\ LvCounted /\ LeaveEnds
      /\ decoding /\ UNCHANGED <<traffic, now, decoding>>
      /\ registrar' = [k \in Keys |-> IF k \in hit THEN "LV" ELSE registrar[k]]
      /\ leaveTimerStart' = [k \in Keys |-> IF k \in hit THEN now ELSE leaveTimerStart[k]]
      /\ mrpLvCount' = mrpLvCount + Cardinality(hit)
  BY DEF RegistrarInv, Declared, MrpLeaveAll
<1>2. /\ registrar \in [Keys -> {"IN", "LV", "MT"}]
      /\ leaveTimerStart \in [Keys -> -1 .. MaxTime]
      /\ mrpLvCount \in Nat /\ now \in 0 .. MaxTime /\ MaxTime \in Nat
  BY <1>1, MrpAssumption DEF MrpTypeOK
<1>3. \A k \in Keys : k \in hit <=> registrar[k] = "IN" /\ k[1][1] = kind
  BY DEF In
<1>4. IsFiniteSet(hit) /\ Cardinality(hit) \in Nat
  BY InFinite, FS_Subset, FS_CardinalityType
<1>5. hit \subseteq Keys
  BY DEF In
<1>. HIDE DEF hit
<1>6. In("LV")' = In("LV") \cup hit /\ In("LV") \cap hit = {}
  BY <1>1, <1>3, <1>5 DEF In
<1>7. LvCounted'
  <2>1. /\ IsFiniteSet(In("LV")) /\ Cardinality(In("LV")) = mrpLvCount
    BY <1>1, InFinite DEF LvCounted
  <2>2. Cardinality({}) = 0
    BY FS_EmptySet
  <2>3. Cardinality(In("LV") \cup hit)
          = Cardinality(In("LV")) + Cardinality(hit) - Cardinality(In("LV") \cap hit)
    BY <2>1, <1>4, FS_Union
  <2>4. Cardinality(In("LV") \cap hit) = 0
    BY <2>2, <1>6
  <2>5. Cardinality(In("LV") \cup hit) = mrpLvCount + Cardinality(hit)
    BY <2>1, <2>3, <2>4, <1>2, <1>4
  <2>. QED
    BY <2>5, <1>1, <1>6 DEF LvCounted
<1>8. MrpTypeOK'
  <2>1. /\ registrar' \in [Keys -> {"IN", "LV", "MT"}]
        /\ leaveTimerStart' \in [Keys -> -1 .. MaxTime]
    BY <1>1, <1>2
  <2>. QED
    BY <2>1, <1>1, <1>2, <1>4 DEF MrpTypeOK
<1>9. LeaveEnds'
  <2>. SUFFICES ASSUME NEW j \in Keys, registrar'[j] = "LV"
                PROVE  leaveTimerStart'[j] \in 0 .. now
    BY <1>1 DEF LeaveEnds, In
  <2>1. registrar[j] = "LV" => leaveTimerStart[j] \in 0 .. now
    BY <1>1 DEF LeaveEnds, In
  <2>. QED
    BY <2>1, <1>1, <1>2
<1>. QED
  BY <1>1, <1>3, <1>7, <1>8, <1>9 DEF RegistrarInv

(* mrpTick: with nothing counted there is nothing to expire; else what has *)
(* expired goes, and no registrar comes IN.                                *)
LEMMA TickKeeps ==
    ASSUME RegistrarInv, Tick
    PROVE  /\ RegistrarInv'
           /\ \A k \in Keys : registrar'[k] = "IN" => registrar[k] = "IN"
<1>1. /\ MrpTypeOK /\ LvCounted /\ LeaveEnds
      /\ ~decoding' /\ UNCHANGED <<traffic, now>>
      /\ decoding' \in BOOLEAN
  BY DEF RegistrarInv, Tick
<1>2. /\ registrar \in [Keys -> {"IN", "LV", "MT"}]
      /\ leaveTimerStart \in [Keys -> -1 .. MaxTime]
      /\ mrpLvCount \in Nat /\ now \in 0 .. MaxTime /\ MaxTime \in Nat /\ LeaveTime \in Nat
  BY <1>1, MrpAssumption DEF MrpTypeOK
<1>3. IsFiniteSet(In("LV")) /\ Cardinality(In("LV")) = mrpLvCount
  BY <1>1, InFinite DEF LvCounted
<1>4. CASE mrpLvCount = 0
  <2>1. UNCHANGED <<registrar, leaveTimerStart, mrpLvCount>>
    BY <1>4 DEF Tick, MrpTick
  <2>2. In("LV") = {} /\ In("LV")' = In("LV")
    BY <1>3, <1>4, <2>1, FS_EmptySet DEF In
  <2>. QED
    BY <1>1, <2>1, <2>2 DEF RegistrarInv, MrpTypeOK, LvCounted, LeaveEnds
<1>5. CASE mrpLvCount # 0
  <2>1. /\ registrar' = [k \in Keys |-> IF k \in Expired THEN "MT" ELSE registrar[k]]
        /\ leaveTimerStart' = [k \in Keys |-> IF k \in Expired THEN -1 ELSE leaveTimerStart[k]]
        /\ mrpLvCount' = Uncount(Cardinality(Expired))
    BY <1>5 DEF Tick, MrpTick
  <2>2. Expired \subseteq In("LV") /\ In("LV") \subseteq Keys
    BY DEF Expired, In
  <2>3. In("LV")' = In("LV") \ Expired
    BY <2>1, <2>2 DEF In
  <2>4. /\ IsFiniteSet(Expired) /\ Cardinality(Expired) \in Nat
        /\ Cardinality(Expired) <= mrpLvCount
    BY <1>3, <2>2, FS_Subset, FS_CardinalityType
  <2>5. In("LV") \cap Expired = Expired
    BY <2>2
  <2>6. Cardinality(In("LV") \ Expired) = mrpLvCount - Cardinality(Expired)
    BY <1>3, <2>5, FS_Difference
  <2>7. LvCounted' /\ mrpLvCount' \in Nat
    <3>1. mrpLvCount' = mrpLvCount - Cardinality(Expired)
      BY <2>1, <2>4 DEF Uncount
    <3>. QED
      BY <3>1, <1>2, <2>3, <2>4, <2>6 DEF LvCounted
  <2>8. MrpTypeOK'
    <3>1. /\ registrar' \in [Keys -> {"IN", "LV", "MT"}]
          /\ leaveTimerStart' \in [Keys -> -1 .. MaxTime]
      BY <2>1, <1>2
    <3>. QED
      BY <3>1, <1>1, <1>2, <2>7 DEF MrpTypeOK
  <2>9. LeaveEnds'
    <3>. SUFFICES ASSUME NEW j \in Keys, registrar'[j] = "LV"
                  PROVE  /\ leaveTimerStart'[j] \in 0 .. now
                         /\ now <= leaveTimerStart'[j] + LeaveTime
      BY <1>1 DEF LeaveEnds, In
    <3>1. j \notin Expired /\ registrar[j] = "LV" /\ leaveTimerStart'[j] = leaveTimerStart[j]
      BY <2>1
    <3>2. leaveTimerStart[j] \in 0 .. now
      BY <3>1, <1>1 DEF LeaveEnds, In
    <3>3. ~(now > leaveTimerStart[j] + LeaveTime)
      BY <3>1, <3>2, <1>2 DEF Expired, In
    <3>. QED
      BY <3>1, <3>2, <3>3, <1>2
  <2>. QED
    BY <2>1, <2>7, <2>8, <2>9 DEF RegistrarInv
<1>. QED
  BY <1>4, <1>5
-----------------------------------------------------------------------------
(***************************************************************************)
(* The VLAN view.                                                          *)
(***************************************************************************)

(* The attribute of a VLAN is one of the keys of the registrar. *)
LEMMA VidKeys ==
    ASSUME NEW v \in Vlans, NEW src \in Sources
    PROVE  <<"VID", v>> \in Attrs /\ <<<<"VID", v>>, src>> \in Keys
BY DEF Attrs, Keys

(* VlanMatches needs only that no VID registrar comes IN. *)
LEMMA VlanStable ==
    ASSUME VlanMatches, UNCHANGED mvrpVars,
           \A v \in Vlans, src \in Sources :
             registrar'[<<<<"VID", v>>, src>>] = "IN" => registrar[<<<<"VID", v>>, src>>] = "IN"
    PROVE  VlanMatches'
BY DEF VlanMatches, mvrpVars

(* An MVRP LeaveAll (mvrp_logic.cpp) keeps the invariant. *)
LEMMA VlanLeaveAllStep ==
    ASSUME RegistrarInv, MvrpTypeOK, VlanMatches, VlanLeaveAll
    PROVE  RegistrarInv' /\ MvrpTypeOK' /\ VlanMatches'
<1>1. /\ Declared /\ MrpLeaveAll("VID") /\ UNCHANGED members
      /\ vlanState' = [v \in Vlans |-> IF vlanState[v] = "REGISTERED" THEN "LEAVING"
                                       ELSE vlanState[v]]
  BY DEF VlanLeaveAll
<1>2. /\ RegistrarInv'
      /\ \A k \in Keys : registrar'[k] = "IN" => k[1][1] # "VID"
  BY <1>1, LeaveAllKeeps
<1>3. MvrpTypeOK'
  BY <1>1 DEF MvrpTypeOK
<1>4. \A v \in Vlans, src \in Sources : registrar'[<<<<"VID", v>>, src>>] # "IN"
  BY <1>2, VidKeys
<1>5. \A v \in Vlans : vlanState'[v] \in {"UNKNOWN", "WITHDRAWN"}
                         <=> vlanState[v] \in {"UNKNOWN", "WITHDRAWN"}
  BY <1>1
<1>. QED
  BY <1>1, <1>2, <1>3, <1>4, <1>5 DEF VlanMatches

(* An MVRP declaration (mvrp_logic.cpp onDecode) keeps the invariant. *)
LEMMA DeclareVlanStep ==
    ASSUME RegistrarInv, MvrpTypeOK, VlanMatches,
           NEW v \in Vlans, NEW src \in Sources, NEW ev \in Events, DeclareVlan(v, src, ev)
    PROVE  RegistrarInv' /\ MvrpTypeOK' /\ VlanMatches'
<1>. DEFINE attr == <<"VID", v>>
            k == <<attr, src>>
<1>1. Declared /\ MrpEvent(attr, src, ev) /\ attr \in Attrs /\ k \in Keys
  BY VidKeys DEF DeclareVlan
<1>2. /\ RegistrarInv'
      /\ \A j \in Keys : j # k => registrar'[j] = registrar[j]
      /\ registrar'[k] = "IN" =>
           ev \in Joins \/ (ev \in {"In", "Mt"} /\ registrar[k] = "IN")
  BY <1>1, EventKeeps
<1>3. /\ members \in [Vlans -> SUBSET Sources]
      /\ vlanState \in [Vlans -> {"UNKNOWN", "REGISTERED", "LEAVING", "WITHDRAWN"}]
  BY DEF MvrpTypeOK
<1>4. ASSUME NEW u \in Vlans, NEW z \in Sources, u # v \/ z # src
      PROVE  registrar'[<<<<"VID", u>>, z>>] = registrar[<<<<"VID", u>>, z>>]
  BY <1>2, <1>4, VidKeys
<1>5. CASE ev \in {"In", "Mt"} /\ UNCHANGED mvrpVars
  <2>1. registrar'[k] = "IN" => registrar[k] = "IN"
    BY <1>2, <1>5 DEF Joins
  <2>2. VlanMatches'
    BY <2>1, <1>4, <1>5, VlanStable
  <2>3. MvrpTypeOK'
    BY <1>5 DEF MvrpTypeOK, mvrpVars
  <2>. QED
    BY <2>2, <2>3, <1>2
<1>6. CASE JoinVlan(v, src, ev)
  <2>1. /\ members' = [members EXCEPT ![v] = @ \cup {src}]
        /\ vlanState' = [vlanState EXCEPT ![v] = "REGISTERED"]
    BY <1>6 DEF JoinVlan
  <2>2. MvrpTypeOK'
    BY <2>1, <1>3 DEF MvrpTypeOK
  <2>3. VlanMatches'
    <3>. SUFFICES ASSUME NEW u \in Vlans
                  PROVE  /\ \A z \in Sources : registrar'[<<<<"VID", u>>, z>>] = "IN" =>
                              z \in members'[u] /\ vlanState'[u] = "REGISTERED"
                         /\ vlanState'[u] \in {"UNKNOWN", "WITHDRAWN"} <=> members'[u] = {}
      BY DEF VlanMatches
    <3>1. CASE u # v
      BY <3>1, <2>1, <1>3, <1>4 DEF VlanMatches
    <3>2. CASE u = v
      <4>1. members'[v] = members[v] \cup {src} /\ vlanState'[v] = "REGISTERED"
        BY <2>1, <1>3
      <4>. QED
        BY <3>2, <4>1, <1>4 DEF VlanMatches
    <3>. QED
      BY <3>1, <3>2
  <2>. QED
    BY <2>2, <2>3, <1>2
<1>7. CASE LeaveVlan(v, src, ev)
  <2>1. /\ members' = [members EXCEPT ![v] = @ \ {src}]
        /\ vlanState' = [vlanState EXCEPT ![v] = IF members[v] \ {src} = {} THEN "WITHDRAWN"
                                                 ELSE @]
        /\ ev = "Lv"
    BY <1>7 DEF LeaveVlan
  <2>2. MvrpTypeOK'
    BY <2>1, <1>3 DEF MvrpTypeOK
  <2>3. registrar'[k] # "IN"
    BY <2>1, <1>2 DEF Joins
  <2>4. VlanMatches'
    <3>. SUFFICES ASSUME NEW u \in Vlans
                  PROVE  /\ \A z \in Sources : registrar'[<<<<"VID", u>>, z>>] = "IN" =>
                              z \in members'[u] /\ vlanState'[u] = "REGISTERED"
                         /\ vlanState'[u] \in {"UNKNOWN", "WITHDRAWN"} <=> members'[u] = {}
      BY DEF VlanMatches
    <3>1. CASE u # v
      BY <3>1, <2>1, <1>3, <1>4 DEF VlanMatches
    <3>2. CASE u = v
      <4>1. /\ members'[v] = members[v] \ {src}
            /\ vlanState'[v] = IF members[v] \ {src} = {} THEN "WITHDRAWN" ELSE vlanState[v]
        BY <2>1, <1>3
      <4>2. /\ \A z \in Sources : registrar[<<<<"VID", v>>, z>>] = "IN" =>
                 z \in members[v] /\ vlanState[v] = "REGISTERED"
            /\ vlanState[v] \in {"UNKNOWN", "WITHDRAWN"} <=> members[v] = {}
        BY DEF VlanMatches
      <4>. QED
        BY <3>2, <4>1, <4>2, <2>3, <1>4
    <3>. QED
      BY <3>1, <3>2
  <2>. QED
    BY <2>2, <2>4, <1>2
<1>. QED
  BY <1>5, <1>6, <1>7 DEF DeclareVlan
-----------------------------------------------------------------------------
(***************************************************************************)
(* The reservation view.                                                   *)
(***************************************************************************)

(* The attribute of a talker or a listener is one of the keys of the registrar. *)
LEMMA ListenerKeys ==
    ASSUME NEW s \in Streams, NEW src \in Sources, NEW kind \in StreamKinds
    PROVE  <<kind, s>> \in Attrs /\ <<<<kind, s>>, src>> \in Keys
BY DEF Attrs, Keys

Someone(ls) == \E src \in Sources : ls[src] \in {"Ready", "ReadyFailed"}

(* A withdrawal leaves no declaration behind; then what recompute makes of *)
(* one stream is ESTABLISHED just when it is advertised and someone is     *)
(* ready, and the shared set follows.                                      *)
LEMMA RecomputeKeeps ==
    ASSUME MsrpTypeOK, EstablishedKept, DeclShared,
           NEW s \in Streams, NEW w \in BOOLEAN, Recompute(s, w),
           w => decl'[s] = "None", decl'[s] \in {"None", "Advertise", "Failed"},
           msrpTalkerDecl' = decl',
           \A r \in Streams : r # s => decl'[r] = decl[r] /\ listeners'[r] = listeners[r]
    PROVE  /\ talkerSeen' \in [Streams -> BOOLEAN]
           /\ state' \in [Streams -> {"NEW", "PENDING", "ESTABLISHED", "LISTENER_FAILED",
                                      "TALKER_FAILED", "WITHDRAWN"}]
           /\ establishedStreams' \subseteq Streams
           /\ EstablishedKept'
<1>. DEFINE seen == talkerSeen[s] \/ decl'[s] # "None"
            to == Outcome(decl'[s], seen, listeners'[s], w)
<1>1. /\ talkerSeen' = [talkerSeen EXCEPT ![s] = seen]
      /\ state' = [state EXCEPT ![s] = to]
      /\ establishedStreams' = IF to = state[s] THEN establishedStreams
                               ELSE IF to = "ESTABLISHED" THEN establishedStreams \cup {s}
                               ELSE establishedStreams \ {s}
  BY DEF Recompute
<1>2. /\ talkerSeen \in [Streams -> BOOLEAN] /\ establishedStreams \subseteq Streams
      /\ state \in [Streams -> {"NEW", "PENDING", "ESTABLISHED", "LISTENER_FAILED",
                                "TALKER_FAILED", "WITHDRAWN"}]
  BY DEF MsrpTypeOK
<1>3. seen \in BOOLEAN
  BY <1>2
<1>4. to \in {"PENDING", "ESTABLISHED", "LISTENER_FAILED", "TALKER_FAILED", "WITHDRAWN"}
  BY DEF Outcome
<1>5. to = "ESTABLISHED" <=> decl'[s] = "Advertise" /\ Someone(listeners'[s])
  BY DEF Outcome, Someone
<1>. HIDE DEF to, seen
<1>6. /\ talkerSeen' \in [Streams -> BOOLEAN]
      /\ state' \in [Streams -> {"NEW", "PENDING", "ESTABLISHED", "LISTENER_FAILED",
                                 "TALKER_FAILED", "WITHDRAWN"}]
      /\ establishedStreams' \subseteq Streams
  BY <1>1, <1>2, <1>3, <1>4
<1>7. \A r \in Streams :
        /\ r \in establishedStreams <=> state[r] = "ESTABLISHED"
        /\ r \in establishedStreams <=> decl[r] = "Advertise" /\ Someone(listeners[r])
  BY DEF EstablishedKept, DeclShared, Someone
<1>8. ASSUME NEW r \in Streams
      PROVE  /\ r \in establishedStreams' <=> state'[r] = "ESTABLISHED"
             /\ r \in establishedStreams' <=> decl'[r] = "Advertise" /\ Someone(listeners'[r])
  <2>1. CASE r = s
    <3>1. state'[s] = to
      BY <1>1, <1>2
    <3>2. s \in establishedStreams' <=> to = "ESTABLISHED"
      BY <1>1, <1>7
    <3>. QED
      BY <2>1, <3>1, <3>2, <1>5
  <2>2. CASE r # s
    <3>1. state'[r] = state[r] /\ (r \in establishedStreams' <=> r \in establishedStreams)
      BY <2>2, <1>1, <1>2
    <3>. QED
      BY <2>2, <3>1, <1>7
  <2>. QED
    BY <2>1, <2>2
<1>9. EstablishedKept'
  BY <1>8 DEF EstablishedKept, Someone
<1>. QED
  BY <1>6, <1>9

(* The reservations are not disturbed by a step of the registrars that     *)
(* brings no Listener IN.                                                  *)
LEMMA ReservationsStable ==
    ASSUME MsrpParts, UNCHANGED msrpVars,
           \A s \in Streams, src \in Sources :
             registrar'[<<<<"LISTENER", s>>, src>>] = "IN" =>
               registrar[<<<<"LISTENER", s>>, src>>] = "IN"
    PROVE  MsrpParts'
BY DEF MsrpParts, MsrpTypeOK, DeclShared, EstablishedKept, RegisteredListens, msrpVars

(* An MSRP LeaveAll (msrp_logic.cpp) keeps the invariant. *)
LEMMA StreamLeaveAllStep ==
    ASSUME RegistrarInv, MsrpParts, NEW kind, StreamLeaveAll(kind)
    PROVE  RegistrarInv' /\ MsrpParts'
<1>1. Declared /\ MrpLeaveAll(kind) /\ UNCHANGED msrpVars
  BY DEF StreamLeaveAll
<1>2. RegistrarInv' /\ \A k \in Keys : registrar'[k] = "IN" => registrar[k] = "IN"
  BY <1>1, LeaveAllKeeps
<1>3. "LISTENER" \in StreamKinds
  BY DEF StreamKinds
<1>4. MsrpParts'
  BY <1>1, <1>2, <1>3, ListenerKeys, ReservationsStable
<1>. QED
  BY <1>2, <1>4

(* A talker declaration, advertised or failed (msrp_logic.cpp onDecode), keeps the invariant. *)
LEMMA DeclareTalkerStep ==
    ASSUME RegistrarInv, MsrpParts, NEW kind \in StreamKinds, NEW s \in Streams,
           NEW src \in Sources, NEW ev \in Events, DeclareTalker(kind, s, src, ev)
    PROVE  RegistrarInv' /\ MsrpParts'
<1>. DEFINE d == IF ev = "Lv" THEN "None"
                 ELSE IF kind = "TALKER_ADVERTISE" THEN "Advertise" ELSE "Failed"
<1>1. /\ Declared /\ MrpEvent(<<kind, s>>, src, ev)
      /\ kind \in {"TALKER_ADVERTISE", "TALKER_FAILED"}
      /\ decl' = [decl EXCEPT ![s] = d]
      /\ msrpTalkerDecl' = [msrpTalkerDecl EXCEPT ![s] = decl'[s]]
      /\ UNCHANGED <<listeners, domains>>
      /\ Recompute(s, ev = "Lv")
  BY DEF DeclareTalker
<1>2. <<kind, s>> \in Attrs
  BY ListenerKeys
<1>3. /\ RegistrarInv'
      /\ \A k \in Keys : k # <<<<kind, s>>, src>> => registrar'[k] = registrar[k]
  BY <1>1, <1>2, EventKeeps
<1>4. /\ MsrpTypeOK /\ DeclShared /\ EstablishedKept /\ RegisteredListens
      /\ decl \in [Streams -> {"None", "Advertise", "Failed"}]
      /\ msrpTalkerDecl \in [Streams -> {"None", "Advertise", "Failed"}]
  BY DEF MsrpParts, MsrpTypeOK
<1>5. d \in {"None", "Advertise", "Failed"} /\ (ev = "Lv" => d = "None")
  OBVIOUS
<1>. HIDE DEF d
<1>6. /\ decl'[s] = d /\ decl' \in [Streams -> {"None", "Advertise", "Failed"}]
      /\ \A r \in Streams : r # s => decl'[r] = decl[r] /\ listeners'[r] = listeners[r]
  BY <1>1, <1>4, <1>5
<1>7. msrpTalkerDecl' = decl'
  BY <1>1, <1>4, <1>6 DEF DeclShared
<1>8. /\ talkerSeen' \in [Streams -> BOOLEAN]
      /\ state' \in [Streams -> {"NEW", "PENDING", "ESTABLISHED", "LISTENER_FAILED",
                                 "TALKER_FAILED", "WITHDRAWN"}]
      /\ establishedStreams' \subseteq Streams
      /\ EstablishedKept'
  <2>1. (ev = "Lv") \in BOOLEAN /\ (ev = "Lv" => decl'[s] = "None")
        /\ decl'[s] \in {"None", "Advertise", "Failed"}
    BY <1>5, <1>6
  <2>. QED
    BY <2>1, <1>1, <1>4, <1>6, <1>7, RecomputeKeeps
<1>9. MsrpTypeOK'
  BY <1>1, <1>4, <1>6, <1>7, <1>8 DEF MsrpTypeOK
<1>10. RegisteredListens'
  <2>1. "LISTENER" \in StreamKinds
    BY DEF StreamKinds
  <2>2. \A r \in Streams, z \in Sources :
          registrar'[<<<<"LISTENER", r>>, z>>] = registrar[<<<<"LISTENER", r>>, z>>]
    BY <2>1, <1>1, <1>3, ListenerKeys
  <2>. QED
    BY <2>2, <1>1, <1>4 DEF RegisteredListens
<1>. QED
  BY <1>3, <1>7, <1>8, <1>9, <1>10 DEF MsrpParts, DeclShared

(* A listener declaration and the recompute it ends in (msrp_logic.cpp) keep the invariant. *)
LEMMA DeclareListenerStep ==
    ASSUME RegistrarInv, MsrpParts, NEW s \in Streams, NEW src \in Sources,
           NEW ev \in Events, NEW fp \in FourPacked, DeclareListener(s, src, ev, fp)
    PROVE  RegistrarInv' /\ MsrpParts'
<1>. DEFINE l == ListenerState(ev, fp)
            e == RegistrarEvent(ev, fp)
            k == <<<<"LISTENER", s>>, src>>
<1>1. /\ Declared /\ MrpEvent(<<"LISTENER", s>>, src, e)
      /\ listeners' = [listeners EXCEPT ![s][src] = l]
      /\ UNCHANGED <<decl, domains, msrpTalkerDecl>>
      /\ Recompute(s, FALSE)
  BY DEF DeclareListener
<1>2. "LISTENER" \in StreamKinds /\ <<"LISTENER", s>> \in Attrs /\ k \in Keys
  BY ListenerKeys DEF StreamKinds
<1>3. e \in Events
  BY DEF RegistrarEvent, Events
<1>4. /\ RegistrarInv'
      /\ \A j \in Keys : j # k => registrar'[j] = registrar[j]
      /\ registrar'[k] = "IN" =>
           e \in Joins \/ (e \in {"In", "Mt"} /\ registrar[k] = "IN")
  BY <1>1, <1>2, <1>3, EventKeeps
<1>5. e # "Lv" => l # "none"
  BY DEF RegistrarEvent, ListenerState, FourPacked
<1>6. l \in (FourPacked \ {"Ignore"}) \cup {"none"}
  BY DEF ListenerState
<1>7. /\ MsrpTypeOK /\ DeclShared /\ EstablishedKept /\ RegisteredListens
      /\ decl \in [Streams -> {"None", "Advertise", "Failed"}]
      /\ listeners \in [Streams -> [Sources -> (FourPacked \ {"Ignore"}) \cup {"none"}]]
  BY DEF MsrpParts, MsrpTypeOK
<1>. HIDE DEF l, e, k
<1>8. /\ listeners' \in [Streams -> [Sources -> (FourPacked \ {"Ignore"}) \cup {"none"}]]
      /\ listeners'[s][src] = l
      /\ \A r \in Streams, z \in Sources :
           r # s \/ z # src => listeners'[r][z] = listeners[r][z]
      /\ \A r \in Streams : r # s => listeners'[r] = listeners[r]
  BY <1>1, <1>6, <1>7
<1>9. /\ talkerSeen' \in [Streams -> BOOLEAN]
      /\ state' \in [Streams -> {"NEW", "PENDING", "ESTABLISHED", "LISTENER_FAILED",
                                 "TALKER_FAILED", "WITHDRAWN"}]
      /\ establishedStreams' \subseteq Streams
      /\ EstablishedKept'
  <2>1. /\ decl'[s] \in {"None", "Advertise", "Failed"} /\ msrpTalkerDecl' = decl'
        /\ \A r \in Streams : decl'[r] = decl[r]
    BY <1>1, <1>7 DEF DeclShared
  <2>. QED
    BY <2>1, <1>1, <1>7, <1>8, RecomputeKeeps
<1>10. MsrpTypeOK' /\ DeclShared'
  BY <1>1, <1>7, <1>8, <1>9 DEF MsrpTypeOK, DeclShared
<1>11. RegisteredListens'
  <2>. SUFFICES ASSUME NEW r \in Streams, NEW z \in Sources,
                       registrar'[<<<<"LISTENER", r>>, z>>] = "IN"
                PROVE  listeners'[r][z] # "none"
    BY DEF RegisteredListens
  <2>1. CASE r = s /\ z = src
    <3>1. e # "Lv"
      BY <2>1, <1>4 DEF k, Joins
    <3>. QED
      BY <2>1, <3>1, <1>5, <1>8
  <2>2. CASE r # s \/ z # src
    <3>1. registrar[<<<<"LISTENER", r>>, z>>] = "IN"
      BY <2>2, <1>2, <1>4, ListenerKeys DEF k
    <3>. QED
      BY <2>2, <3>1, <1>7, <1>8 DEF RegisteredListens
  <2>. QED
    BY <2>1, <2>2
<1>. QED
  BY <1>4, <1>9, <1>10, <1>11 DEF MsrpParts

(* A domain declaration (msrp_logic.cpp onDecode) keeps the invariant. *)
LEMMA DeclareDomainStep ==
    ASSUME RegistrarInv, MsrpParts, NEW d \in Domains, NEW src \in Sources,
           NEW ev \in Events, DeclareDomain(d, src, ev)
    PROVE  RegistrarInv' /\ MsrpParts'
<1>1. /\ Declared /\ MrpEvent(<<"DOMAIN", d>>, src, ev)
      /\ domains' = IF ev = "Lv" THEN domains ELSE domains \cup {<<d, src>>}
      /\ UNCHANGED <<decl, talkerSeen, listeners, state, msrpTalkerDecl, establishedStreams>>
  BY DEF DeclareDomain
<1>2. <<"DOMAIN", d>> \in Attrs
  BY DEF Attrs
<1>3. /\ RegistrarInv'
      /\ \A k \in Keys : k # <<<<"DOMAIN", d>>, src>> => registrar'[k] = registrar[k]
  BY <1>1, <1>2, EventKeeps
<1>4. \A s \in Streams, z \in Sources :
        registrar'[<<<<"LISTENER", s>>, z>>] = registrar[<<<<"LISTENER", s>>, z>>]
  <2>1. "LISTENER" \in StreamKinds
    BY DEF StreamKinds
  <2>. QED
    BY <2>1, <1>3, ListenerKeys
<1>5. MsrpTypeOK'
  <2>1. domains' \subseteq Domains \X Sources
    BY <1>1 DEF MsrpParts, MsrpTypeOK
  <2>. QED
    BY <2>1, <1>1 DEF MsrpParts, MsrpTypeOK
<1>6. DeclShared' /\ EstablishedKept' /\ RegisteredListens'
  BY <1>1, <1>4 DEF MsrpParts, DeclShared, EstablishedKept, RegisteredListens
<1>. QED
  BY <1>3, <1>5, <1>6 DEF MsrpParts
-----------------------------------------------------------------------------
(***************************************************************************)
(* The composition.                                                        *)
(***************************************************************************)

(* The invariant holds before the first packet. *)
LEMMA Starts == Init => Inv
<1>. SUFFICES ASSUME Init PROVE Inv
  OBVIOUS
<1>1. /\ traffic \in Traffics /\ registrar = [k \in Keys |-> "MT"]
      /\ leaveTimerStart = [k \in Keys |-> -1]
      /\ mrpLvCount = 0 /\ now = 0 /\ decoding = FALSE
  BY DEF Init, MrpInit
<1>2. In("LV") = {}
  BY <1>1 DEF In
<1>3. LvCounted
  BY <1>1, <1>2, FS_EmptySet DEF LvCounted
<1>4. MrpTypeOK
  <2>1. traffic \subseteq Keys /\ MaxTime \in Nat
    BY <1>1, MrpAssumption
  <2>2. -1 \in -1 .. MaxTime /\ 0 \in 0 .. MaxTime
    BY <2>1
  <2>3. /\ registrar \in [Keys -> {"IN", "LV", "MT"}]
        /\ leaveTimerStart \in [Keys -> -1 .. MaxTime]
    BY <2>2, <1>1
  <2>. QED
    BY <2>1, <2>2, <2>3, <1>1 DEF MrpTypeOK
<1>5. LeaveEnds
  BY <1>2 DEF LeaveEnds
<1>6. MvrpTypeOK /\ VlanMatches
  BY <1>1, VidKeys DEF Init, MvrpInit, MvrpTypeOK, VlanMatches
<1>7. MsrpTypeOK /\ DeclShared
  BY DEF Init, MsrpInit, MsrpTypeOK, DeclShared
<1>8. EstablishedKept
  BY DEF Init, MsrpInit, EstablishedKept
<1>9. RegisteredListens
  <2>1. "LISTENER" \in StreamKinds
    BY DEF StreamKinds
  <2>. QED
    BY <2>1, <1>1, ListenerKeys DEF RegisteredListens
<1>. QED
  BY <1>3, <1>4, <1>5, <1>6, <1>7, <1>8, <1>9 DEF Inv, RegistrarInv, MsrpParts

(* Every packet and every time tick keeps the invariant. *)
LEMMA Steps == Inv /\ [Next]_vars => Inv'
<1>. SUFFICES ASSUME Inv, [Next]_vars PROVE Inv'
  OBVIOUS
<1>1. RegistrarInv /\ MvrpTypeOK /\ VlanMatches /\ MsrpParts
  BY DEF Inv
<1>2. "LISTENER" \in StreamKinds
  BY DEF StreamKinds
<1>3. CASE MvrpDecode
  <2>1. RegistrarInv' /\ MvrpTypeOK' /\ VlanMatches'
    BY <1>1, <1>3, VlanLeaveAllStep, DeclareVlanStep DEF MvrpDecode
  <2>2. \A s \in Streams, z \in Sources :
          registrar'[<<<<"LISTENER", s>>, z>>] = "IN" =>
            registrar[<<<<"LISTENER", s>>, z>>] = "IN"
    <3>1. CASE VlanLeaveAll
      <4>1. \A k \in Keys : registrar'[k] = "IN" => registrar[k] = "IN"
        BY <1>1, <3>1, LeaveAllKeeps DEF VlanLeaveAll
      <4>. QED
        BY <4>1, <1>2, ListenerKeys
    <3>2. ASSUME NEW v \in Vlans, NEW src \in Sources, NEW ev \in Events,
                 DeclareVlan(v, src, ev)
          PROVE  \A s \in Streams, z \in Sources :
                   registrar'[<<<<"LISTENER", s>>, z>>] = registrar[<<<<"LISTENER", s>>, z>>]
      <4>1. \A k \in Keys : k # <<<<"VID", v>>, src>> => registrar'[k] = registrar[k]
        BY <1>1, <3>2, VidKeys, EventKeeps DEF DeclareVlan
      <4>. QED
        BY <4>1, <1>2, ListenerKeys
    <3>. QED
      BY <1>3, <3>1, <3>2 DEF MvrpDecode
  <2>3. MsrpParts'
    BY <1>1, <1>3, <2>2, ReservationsStable DEF MvrpDecode
  <2>. QED
    BY <2>1, <2>3 DEF Inv
<1>4. CASE MsrpDecode
  <2>1. RegistrarInv' /\ MsrpParts'
    BY <1>1, <1>4, StreamLeaveAllStep, DeclareTalkerStep, DeclareListenerStep,
       DeclareDomainStep DEF MsrpDecode
  <2>2. \A v \in Vlans, z \in Sources :
          registrar'[<<<<"VID", v>>, z>>] = "IN" => registrar[<<<<"VID", v>>, z>>] = "IN"
    <3>1. ASSUME NEW kind, StreamLeaveAll(kind)
          PROVE  \A k \in Keys : registrar'[k] = "IN" => registrar[k] = "IN"
      BY <1>1, <3>1, LeaveAllKeeps DEF StreamLeaveAll
    <3>2. ASSUME NEW kind \in StreamKinds \cup {"DOMAIN"}, NEW x, NEW src \in Sources,
                 NEW ev \in Events, <<kind, x>> \in Attrs, Declared,
                 MrpEvent(<<kind, x>>, src, ev)
          PROVE  \A v \in Vlans, z \in Sources :
                   registrar'[<<<<"VID", v>>, z>>] = registrar[<<<<"VID", v>>, z>>]
      <4>1. \A k \in Keys : k # <<<<kind, x>>, src>> => registrar'[k] = registrar[k]
        BY <1>1, <3>2, EventKeeps
      <4>2. kind # "VID"
        BY <3>2 DEF StreamKinds
      <4>. QED
        BY <4>1, <4>2, VidKeys
    <3>3. ASSUME NEW s \in Streams, NEW kind \in StreamKinds, NEW src \in Sources,
                 NEW ev \in Events, DeclareTalker(kind, s, src, ev)
          PROVE  \A v \in Vlans, z \in Sources :
                   registrar'[<<<<"VID", v>>, z>>] = registrar[<<<<"VID", v>>, z>>]
      BY <3>2, <3>3, ListenerKeys DEF DeclareTalker
    <3>4. ASSUME NEW s \in Streams, NEW src \in Sources, NEW ev \in Events,
                 NEW fp \in FourPacked, DeclareListener(s, src, ev, fp)
          PROVE  \A v \in Vlans, z \in Sources :
                   registrar'[<<<<"VID", v>>, z>>] = registrar[<<<<"VID", v>>, z>>]
      <4>1. RegistrarEvent(ev, fp) \in Events
        BY DEF RegistrarEvent, Events
      <4>2. Declared /\ MrpEvent(<<"LISTENER", s>>, src, RegistrarEvent(ev, fp))
        BY <3>4 DEF DeclareListener
      <4>3. <<"LISTENER", s>> \in Attrs
        BY <1>2, ListenerKeys
      <4>. QED
        BY <3>2, <4>1, <4>2, <4>3, <1>2
    <3>5. ASSUME NEW d \in Domains, NEW src \in Sources, NEW ev \in Events,
                 DeclareDomain(d, src, ev)
          PROVE  \A v \in Vlans, z \in Sources :
                   registrar'[<<<<"VID", v>>, z>>] = registrar[<<<<"VID", v>>, z>>]
      <4>1. <<"DOMAIN", d>> \in Attrs
        BY DEF Attrs
      <4>. QED
        BY <3>2, <3>5, <4>1 DEF DeclareDomain
    <3>6. CASE \E kind \in StreamKinds \cup {"DOMAIN"} : StreamLeaveAll(kind)
      BY <3>6, <3>1, VidKeys
    <3>. QED
      BY <1>4, <3>3, <3>4, <3>5, <3>6 DEF MsrpDecode
  <2>3. UNCHANGED mvrpVars
    BY <1>4 DEF MsrpDecode
  <2>4. VlanMatches' /\ MvrpTypeOK'
    BY <1>1, <2>2, <2>3, VlanStable DEF MvrpTypeOK, mvrpVars
  <2>. QED
    BY <2>1, <2>4 DEF Inv
<1>5. CASE Clock
  <2>1. UNCHANGED mvrpVars /\ UNCHANGED msrpVars
    BY <1>5 DEF Clock
  <2>2. RegistrarInv' /\ \A k \in Keys : registrar'[k] = "IN" => registrar[k] = "IN"
    <3>1. CASE Tick
      BY <1>1, <3>1, TickKeeps
    <3>2. ASSUME NEW t \in 0 .. MaxTime, Arrive(t)
          PROVE  RegistrarInv' /\ registrar' = registrar
      <4>1. /\ t \in now .. MaxTime /\ now' = t /\ decoding' = TRUE
            /\ UNCHANGED <<traffic, registrar, leaveTimerStart, mrpLvCount>>
        BY <3>2 DEF Arrive
      <4>2. MrpTypeOK /\ LvCounted /\ LeaveEnds /\ now \in 0 .. MaxTime /\ MaxTime \in Nat
        BY <1>1, MrpAssumption DEF RegistrarInv, MrpTypeOK
      <4>3. In("LV")' = In("LV")
        BY <4>1 DEF In
      <4>4. LeaveEnds'
        <5>1. \A k \in In("LV") : leaveTimerStart[k] \in 0 .. now'
          BY <4>1, <4>2 DEF LeaveEnds
        <5>. QED
          BY <5>1, <4>1, <4>3 DEF LeaveEnds
      <4>5. MrpTypeOK' /\ LvCounted'
        BY <4>1, <4>2, <4>3 DEF MrpTypeOK, LvCounted
      <4>. QED
        BY <4>1, <4>4, <4>5 DEF RegistrarInv
    <3>. QED
      BY <1>5, <3>1, <3>2 DEF Clock
  <2>3. VlanMatches' /\ MvrpTypeOK'
    BY <1>1, <2>1, <2>2, VidKeys, VlanStable DEF MvrpTypeOK, mvrpVars
  <2>4. MsrpParts'
    BY <1>1, <1>2, <2>1, <2>2, ListenerKeys, ReservationsStable
  <2>. QED
    BY <2>2, <2>3, <2>4 DEF Inv
<1>6. CASE UNCHANGED vars
  <2>1. UNCHANGED <<traffic, registrar, leaveTimerStart, mrpLvCount, now, decoding>>
        /\ UNCHANGED mvrpVars /\ UNCHANGED msrpVars
    BY <1>6 DEF vars, mrpVars
  <2>2. RegistrarInv'
    BY <1>1, <2>1 DEF RegistrarInv, MrpTypeOK, LvCounted, LeaveEnds, In
  <2>3. VlanMatches' /\ MvrpTypeOK'
    BY <1>1, <2>1, VlanStable DEF MvrpTypeOK, mvrpVars
  <2>4. MsrpParts'
    BY <1>1, <2>1, ReservationsStable
  <2>. QED
    BY <2>2, <2>3, <2>4 DEF Inv
<1>. QED
  BY <1>3, <1>4, <1>5, <1>6 DEF Next

(* The invariant holds in every reachable state. *)
LEMMA Invariance == Spec => []Inv
BY Starts, Steps, PTL DEF Spec
-----------------------------------------------------------------------------
(***************************************************************************)
(* The theorems.                                                           *)
(***************************************************************************)

(* The state of the registrars and of both views is well typed.            *)
THEOREM TypeCorrect == Spec => []TypeOK
<1>1. Inv => TypeOK
  BY DEF Inv, RegistrarInv, MsrpParts, TypeOK
<1>. QED
  BY <1>1, Invariance, PTL

(* mrpLvCount is the number of registrars that are leaving, over any       *)
(* sequence of leaves, LeaveAlls, re-joins and expiries: mrpTick's early   *)
(* return is sound.                                                        *)
THEOREM LeavesCounted == Spec => []LvCounted
<1>1. Inv => LvCounted
  BY DEF Inv, RegistrarInv
<1>. QED
  BY <1>1, Invariance, PTL

(* No registrar stays in LV beyond the leave time.                         *)
THEOREM LeavesEnd == Spec => []LeaveEnds
<1>1. Inv => LeaveEnds
  BY DEF Inv, RegistrarInv
<1>. QED
  BY <1>1, Invariance, PTL

(* For any members: a registered one belongs to a REGISTERED VLAN.         *)
THEOREM VlansMatch == Spec => []VlanMatches
<1>1. Inv => VlanMatches
  BY DEF Inv
<1>. QED
  BY <1>1, Invariance, PTL

(* establishedStreams, the reservations' state, and what the reservations  *)
(* consist of agree, whatever sources declare what.                        *)
THEOREM EstablishedAgree == Spec => []EstablishedKept
<1>1. Inv => EstablishedKept
  BY DEF Inv, MsrpParts
<1>. QED
  BY <1>1, Invariance, PTL

(* A registered Listener is among the reservation's listeners, the ones    *)
(* that declare Ignore included.                                           *)
THEOREM ListenersAgree == Spec => []RegisteredListens
<1>1. Inv => RegisteredListens
  BY DEF Inv, MsrpParts
<1>. QED
  BY <1>1, Invariance, PTL
=============================================================================
