-------------------------------- MODULE Adp ---------------------------------
(***************************************************************************)
(* ADP entity life cycle (backend/src/logic/adp_logic.cpp) and the passing *)
(* of capture time: Engine::analyze hands a packet to the module it is     *)
(* for and then ticks every module with the packet's time, in the order of *)
(* an unordered map.  A packet is in hand while ticks are due.             *)
(***************************************************************************)
EXTENDS Naturals

CONSTANTS Entities,    \* entity ids
          ValidTimes,  \* values of valid_time
          MaxTime      \* bound on the capture time

VARIABLES now,           \* ts of the packet in hand
          due,           \* modules not yet ticked with it
          entity,        \* mEntities
          adpAvailable   \* SharedModel::adpAvailable

adpVars == <<entity, adpAvailable>>

ASSUME AdpAssumption == ValidTimes \subseteq Nat /\ MaxTime \in Nat

EntityStates == {"UNKNOWN", "AVAILABLE", "DEPARTING", "TIMED_OUT"}

(* Modules whose tick reads or writes what this specification models. *)
Modules == {"atdecc_adp", "atdecc_acmp"}

AdpInit ==
    /\ now = 0
    /\ due = {}
    /\ entity = [e \in Entities |-> [state |-> "UNKNOWN", validTime |-> 0,
                                     lastSeen |-> 0]]
    /\ adpAvailable = {}
-----------------------------------------------------------------------------
(* A packet arrives with the time ts; packets come in the order of time.   *)
Arrives(ts) ==
    /\ due = {}
    /\ ts \in now .. MaxTime
    /\ now' = ts
    /\ due' = Modules

Ticked(module) ==
    /\ module \in due
    /\ due' = due \ {module}
    /\ UNCHANGED now

(* transition() keeps the shared set in step. *)
Shared(e, to) == IF to = "AVAILABLE" THEN adpAvailable \cup {e}
                                     ELSE adpAvailable \ {e}

(* ENTITY_AVAILABLE.  Re-reporting an entity whose available_index went    *)
(* back, or whose grandmaster does not match, writes the state it has.     *)
Available(e, validTime, ts) ==
    /\ Arrives(ts)
    /\ entity' = [entity EXCEPT ![e] = [state |-> "AVAILABLE",
                                        validTime |-> validTime, lastSeen |-> ts]]
    /\ adpAvailable' = IF entity[e].state = "AVAILABLE" THEN adpAvailable
                       ELSE Shared(e, "AVAILABLE")

(* Mutant: the end of the validity is noted, not the time. *)
DepartingLater(e, ts) ==
    /\ Arrives(ts)
    /\ entity' = [entity EXCEPT ![e].state = "DEPARTING",
                               ![e].lastSeen = ts + entity[e].validTime]
    /\ adpAvailable' = IF entity[e].state = "DEPARTING" THEN adpAvailable
                       ELSE Shared(e, "DEPARTING")

(* ENTITY_DEPARTING. *)
Departing(e, ts) ==
    /\ Arrives(ts)
    /\ entity' = [entity EXCEPT ![e].state = "DEPARTING", ![e].lastSeen = ts]
    /\ adpAvailable' = IF entity[e].state = "DEPARTING" THEN adpAvailable
                       ELSE Shared(e, "DEPARTING")

(* onTimeTick: an entity not announced again within valid_time. *)
Expired(e) == /\ entity[e].state = "AVAILABLE"
              /\ entity[e].validTime > 0
              /\ now > entity[e].lastSeen + entity[e].validTime

(* Mutant: the expired entities stay in the shared set. *)
KeepShared ==
    /\ Ticked("atdecc_adp")
    /\ entity' = [e \in Entities |->
                    IF Expired(e) THEN [entity[e] EXCEPT !.state = "TIMED_OUT"]
                    ELSE entity[e]]
    /\ UNCHANGED adpAvailable

AdpTick ==
    /\ Ticked("atdecc_adp")
    /\ entity' = [e \in Entities |->
                    IF Expired(e) THEN [entity[e] EXCEPT !.state = "TIMED_OUT"]
                    ELSE entity[e]]
    /\ adpAvailable' = {e \in adpAvailable : ~Expired(e)}
-----------------------------------------------------------------------------
AdpTypeOK ==
    /\ now \in 0 .. MaxTime
    /\ due \subseteq Modules
    /\ entity \in [Entities -> [state : EntityStates, validTime : ValidTimes \cup {0},
                                lastSeen : 0 .. MaxTime]]
    /\ adpAvailable \subseteq Entities

(* What the modules share about availability is what ADP holds: the sinks  *)
(* of AcmpLogic rely on it between the ticks, too.                         *)
AvailabilityShared == \A e \in Entities :
                        e \in adpAvailable <=> entity[e].state = "AVAILABLE"
=============================================================================
