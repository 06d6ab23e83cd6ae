-------------------------------- MODULE Mvrp --------------------------------
(***************************************************************************)
(* The VLAN registration view (backend/src/logic/mvrp_logic.cpp).          *)
(***************************************************************************)
EXTENDS MrpRegistrar

VARIABLES members,   \* Vlan::members
          vlanState  \* Vlan::state, "UNKNOWN" until a declaration sets it

mvrpVars == <<members, vlanState>>

MvrpInit ==
    /\ members = [v \in Vlans |-> {}]
    /\ vlanState = [v \in Vlans |-> "UNKNOWN"]

(* onDecode of a LeaveAll. *)
VlanLeaveAll ==
    /\ Declared
    /\ vlanState' = [v \in Vlans |-> IF vlanState[v] = "REGISTERED" THEN "LEAVING"
                                     ELSE vlanState[v]]
    /\ MrpLeaveAll("VID")
    /\ UNCHANGED members

(* Mutant: a member that re-declares is not news to a VLAN that is         *)
(* leaving.                                                                *)
JoinVlanNewMember(v, src, ev) ==
    /\ ev \in Joins
    /\ members' = [members EXCEPT ![v] = @ \cup {src}]
    /\ vlanState' = [vlanState EXCEPT ![v] = IF src \in members[v] THEN @ ELSE "REGISTERED"]

(* New, JoinIn or JoinMt. *)
JoinVlan(v, src, ev) ==
    /\ ev \in Joins
    /\ members' = [members EXCEPT ![v] = @ \cup {src}]
    /\ vlanState' = [vlanState EXCEPT ![v] = "REGISTERED"]

(* Lv: the VLAN is withdrawn with its last member. *)
LeaveVlan(v, src, ev) ==
    /\ ev = "Lv"
    /\ members' = [members EXCEPT ![v] = @ \ {src}]
    /\ vlanState' = [vlanState EXCEPT ![v] = IF members[v] \ {src} = {} THEN "WITHDRAWN" ELSE @]

(* onDecode of any other declaration. *)
DeclareVlan(v, src, ev) ==
    /\ Declared
    /\ MrpEvent(<<"VID", v>>, src, ev)
    /\ \/ JoinVlan(v, src, ev)
       \/ LeaveVlan(v, src, ev)
       \/ ev \in {"In", "Mt"} /\ UNCHANGED mvrpVars

MvrpTypeOK ==
    /\ members \in [Vlans -> SUBSET Sources]
    /\ vlanState \in [Vlans -> {"UNKNOWN", "REGISTERED", "LEAVING", "WITHDRAWN"}]

(* The VLAN view and the registrar layer, which are kept apart and reset   *)
(* by different events, agree: a source whose registration is in force is  *)
(* a member of a REGISTERED VLAN, one that is leaving after a LeaveAll is  *)
(* still a member or has sent its Lv, and a withdrawn VLAN has no members. *)
VlanMatches ==
    \A v \in Vlans :
        /\ \A src \in Sources :
             registrar[<<<<"VID", v>>, src>>] = "IN" =>
                 src \in members[v] /\ vlanState[v] = "REGISTERED"
        /\ vlanState[v] \in {"UNKNOWN", "WITHDRAWN"} <=> members[v] = {}
=============================================================================
