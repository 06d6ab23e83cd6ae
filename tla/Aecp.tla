-------------------------------- MODULE Aecp --------------------------------
(***************************************************************************)
(* AECP commands and their responses (backend/src/logic/aecp_logic.cpp):   *)
(* the correlation by controller, target and sequence id, what is counted  *)
(* of a pair, and the entity names learnt on the way.  The list of the     *)
(* last ten responses is display, but for the round-trip time put in it.   *)
(***************************************************************************)
EXTENDS PacketTime, FiniteSets

CONSTANTS Controllers, Targets,
          AecpSeqIds,
          Names,        \* entity names; Unnamed is the empty one
          Unnamed,
          AemTimeout,   \* kAemTimeoutS: 250 ms
          MaxCommands   \* bound on the commands of a pair, and on its responses

VARIABLES aemInflight,  \* mInflight
          pair,         \* mPairs
          entityNames,  \* SharedModel::entityNames
          fate          \* history: what became of the commands of a pair

aecpVars == <<aemInflight, pair, entityNames, fate>>

ASSUME AecpAssumption == AemTimeout \in Nat /\ MaxCommands \in Nat /\ Unnamed \in Names

Pairs == Controllers \X Targets

AecpInit ==
    /\ aemInflight = {}
    /\ pair = [k \in Pairs |-> [commands |-> 0, responses |-> 0, timeouts |-> 0,
                                unsolicited |-> 0, rtt |-> Never]]
    /\ entityNames = [e \in Targets |-> Unnamed]
    /\ fate = [k \in Pairs |-> [answered |-> 0, replaced |-> 0]]

InFlight(k, seq) == {f \in aemInflight : f.key = <<k, seq>>}

(* A command takes the place of one of the same sequence id. *)
AemCommand(k, seq, ts) ==
    /\ pair[k].commands < MaxCommands
    /\ pair' = [pair EXCEPT ![k].commands = @ + 1]
    /\ aemInflight' = (aemInflight \ InFlight(k, seq))
                         \cup {[key |-> <<k, seq>>, sentTs |-> ts]}
    /\ fate' = [fate EXCEPT ![k].replaced = @ + Cardinality(InFlight(k, seq))]
    /\ UNCHANGED entityNames

(* learnName(): a successful response that carries the name of entity e,   *)
(* which is the target or the one a descriptor tells.                      *)
Learn(e, name) ==
    entityNames' = IF name = Unnamed THEN entityNames
                   ELSE [entityNames EXCEPT ![e] = name]

(* Mutant: the answered command stays in flight. *)
AnsweredStays(k, seq, e, name, ts) ==
    /\ pair[k].responses < MaxCommands
    /\ pair' = [pair EXCEPT
                  ![k].responses = @ + 1,
                  ![k].rtt = IF InFlight(k, seq) = {} THEN Never
                             ELSE ts - (CHOOSE f \in InFlight(k, seq) : TRUE).sentTs]
    /\ fate' = [fate EXCEPT ![k].answered = @ + Cardinality(InFlight(k, seq))]
    /\ Learn(e, name)
    /\ UNCHANGED aemInflight

(* A solicited response: of a command in flight, or of none that was seen. *)
AemResponse(k, seq, e, name, ts) ==
    /\ pair[k].responses < MaxCommands
    /\ pair' = [pair EXCEPT
                  ![k].responses = @ + 1,
                  ![k].rtt = IF InFlight(k, seq) = {} THEN Never
                             ELSE ts - (CHOOSE f \in InFlight(k, seq) : TRUE).sentTs]
    /\ aemInflight' = aemInflight \ InFlight(k, seq)
    /\ fate' = [fate EXCEPT ![k].answered = @ + Cardinality(InFlight(k, seq))]
    /\ Learn(e, name)

Unsolicited(k, e, name) ==
    /\ pair[k].unsolicited < MaxCommands
    /\ pair' = [pair EXCEPT ![k].unsolicited = @ + 1]
    /\ Learn(e, name)
    /\ UNCHANGED <<aemInflight, fate>>

Unanswered(k) == {f \in aemInflight : f.key[1] = k /\ now > f.sentTs + AemTimeout}

(* onTimeTick: what is not answered in time is counted and forgotten. *)
AecpTick ==
    /\ pair' = [k \in Pairs |-> [pair[k] EXCEPT
                                   !.timeouts = @ + Cardinality(Unanswered(k))]]
    /\ aemInflight' = {f \in aemInflight : now =< f.sentTs + AemTimeout}
    /\ UNCHANGED <<entityNames, fate>>
-----------------------------------------------------------------------------
AecpTypeOK ==
    /\ aemInflight \subseteq [key : Pairs \X AecpSeqIds, sentTs : Nat]
    /\ pair \in [Pairs -> [commands : 0 .. MaxCommands, responses : 0 .. MaxCommands,
                           timeouts : Nat, unsolicited : 0 .. MaxCommands,
                           rtt : Nat \cup {Never}]]
    /\ entityNames \in [Targets -> Names]
    /\ fate \in [Pairs -> [answered : Nat, replaced : Nat]]
=============================================================================
