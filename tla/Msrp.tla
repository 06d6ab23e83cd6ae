-------------------------------- MODULE Msrp --------------------------------
(***************************************************************************)
(* The stream reservation view (backend/src/logic/msrp_logic.cpp) and what *)
(* it shares with the other modules: the talker declarations the Milan     *)
(* sinks follow, and the established streams gPTP counts.  The descriptive *)
(* fields of a reservation and its history are left out.                   *)
(***************************************************************************)
EXTENDS MrpRegistrar

VARIABLES decl,        \* Res::decl
          talkerSeen,  \* Res::talkerSeen
          listeners,   \* Res::listeners: the four-packed state, or "none"
          state,       \* Res::state, "NEW" until first computed
          domains,     \* mDomains, each with its declarer
          msrpTalkerDecl, establishedStreams  \* SharedModel

msrpVars == <<decl, talkerSeen, listeners, state, domains, msrpTalkerDecl,
              establishedStreams>>

FourPacked == {"Ignore", "AskingFailed", "Ready", "ReadyFailed"}

MsrpInit ==
    /\ decl = [s \in Streams |-> "None"]
    /\ talkerSeen = [s \in Streams |-> FALSE]
    /\ listeners = [s \in Streams |-> [src \in Sources |-> "none"]]
    /\ state = [s \in Streams |-> "NEW"]
    /\ domains = {}
    /\ msrpTalkerDecl = [s \in Streams |-> "None"]
    /\ establishedStreams = {}
-----------------------------------------------------------------------------
(* onDecode of a LeaveAll: it concerns the registrars of the attribute     *)
(* type, not the reservations.                                             *)
StreamLeaveAll(kind) ==
    /\ Declared
    /\ MrpLeaveAll(kind)
    /\ UNCHANGED msrpVars

(* What recompute makes of a reservation's declaration and listeners.      *)
Outcome(d, seen, ls, withdrew) ==
    LET someone(fps) == \E src \in Sources : ls[src] \in fps
    IN  IF withdrew \/ (seen /\ d = "None") THEN "WITHDRAWN"
        ELSE IF d = "Failed" THEN "TALKER_FAILED"
        ELSE IF d = "Advertise"
          THEN IF someone({"Ready", "ReadyFailed"}) THEN "ESTABLISHED"
               ELSE IF someone({"AskingFailed", "ReadyFailed"}) THEN "LISTENER_FAILED"
               ELSE "PENDING"
        ELSE "PENDING"

(* Mutant: establishedStreams only grows. *)
RecomputeKeeping(s, withdrew) ==
    LET seen == talkerSeen[s] \/ decl'[s] # "None"
        to == Outcome(decl'[s], seen, listeners'[s], withdrew)
    IN  /\ talkerSeen' = [talkerSeen EXCEPT ![s] = seen]
        /\ state' = [state EXCEPT ![s] = to]
        /\ establishedStreams' = IF to = "ESTABLISHED" THEN establishedStreams \cup {s}
                                 ELSE establishedStreams

(* recompute: the shared set follows the state when that changes. *)
Recompute(s, withdrew) ==
    LET seen == talkerSeen[s] \/ decl'[s] # "None"
        to == Outcome(decl'[s], seen, listeners'[s], withdrew)
    IN  /\ talkerSeen' = [talkerSeen EXCEPT ![s] = seen]
        /\ state' = [state EXCEPT ![s] = to]
        /\ establishedStreams' =
             IF to = state[s] THEN establishedStreams
             ELSE IF to = "ESTABLISHED" THEN establishedStreams \cup {s}
             ELSE establishedStreams \ {s}

(* onDecode of a TalkerAdvertise or TalkerFailed: the stream has one       *)
(* declaration, whichever attribute and source spoke last.                 *)
DeclareTalker(kind, s, src, ev) ==
    /\ Declared
    /\ kind \in {"TALKER_ADVERTISE", "TALKER_FAILED"}
    /\ MrpEvent(<<kind, s>>, src, ev)
    /\ decl' = [decl EXCEPT ![s] = IF ev = "Lv" THEN "None"
                                   ELSE IF kind = "TALKER_ADVERTISE" THEN "Advertise"
                                   ELSE "Failed"]
    /\ msrpTalkerDecl' = [msrpTalkerDecl EXCEPT ![s] = decl'[s]]
    /\ UNCHANGED <<listeners, domains>>
    /\ Recompute(s, ev = "Lv")

(* Mutant: the registrar sees the Ignore's own event. *)
RegistrarSeesEvent(ev, fp) == ev

(* A Listener that declares Ignore leaves, as far as its registrar goes. *)
RegistrarEvent(ev, fp) == IF fp = "Ignore" THEN "Lv" ELSE ev

(* Mutant: Ignore is kept as if it were a listener state. *)
ListenerKept(ev, fp) == IF ev = "Lv" THEN "none" ELSE fp

(* What the reservation keeps of a listener. *)
ListenerState(ev, fp) == IF ev = "Lv" \/ fp = "Ignore" THEN "none" ELSE fp

(* onDecode of a Listener. *)
DeclareListener(s, src, ev, fp) ==
    /\ Declared
    /\ MrpEvent(<<"LISTENER", s>>, src, RegistrarEvent(ev, fp))
    /\ listeners' = [listeners EXCEPT ![s][src] = ListenerState(ev, fp)]
    /\ UNCHANGED <<decl, domains, msrpTalkerDecl>>
    /\ Recompute(s, FALSE)

(* onDecode of a Domain: the table only grows. *)
DeclareDomain(d, src, ev) ==
    /\ Declared
    /\ MrpEvent(<<"DOMAIN", d>>, src, ev)
    /\ domains' = IF ev = "Lv" THEN domains ELSE domains \cup {<<d, src>>}
    /\ UNCHANGED <<decl, talkerSeen, listeners, state, msrpTalkerDecl, establishedStreams>>
-----------------------------------------------------------------------------
MsrpTypeOK ==
    /\ decl \in [Streams -> {"None", "Advertise", "Failed"}]
    /\ talkerSeen \in [Streams -> BOOLEAN]
    /\ listeners \in [Streams -> [Sources -> (FourPacked \ {"Ignore"}) \cup {"none"}]]
    /\ state \in [Streams -> {"NEW", "PENDING", "ESTABLISHED", "LISTENER_FAILED",
                              "TALKER_FAILED", "WITHDRAWN"}]
    /\ domains \subseteq Domains \X Sources
    /\ msrpTalkerDecl \in [Streams -> {"None", "Advertise", "Failed"}]
    /\ establishedStreams \subseteq Streams

(* What gPTP counts and the API shows as ESTABLISHED are at all times the  *)
(* streams that are advertised and have a listener that is ready, over any *)
(* order of talker, listener and withdrawal declarations of several        *)
(* sources (avb_logic.h: "StreamIDs of currently ESTABLISHED reservations").*)
EstablishedKept ==
    \A s \in Streams :
        /\ s \in establishedStreams <=> state[s] = "ESTABLISHED"
        /\ s \in establishedStreams <=>
             /\ msrpTalkerDecl[s] = "Advertise"
             /\ \E src \in Sources : listeners[s][src] \in {"Ready", "ReadyFailed"}

(* The two views of a listener agree ("so the registrar view agrees with   *)
(* the reservation view", msrp_logic.cpp:65-66): a source whose Listener   *)
(* attribute is registered is among the listeners of the reservation.      *)
RegisteredListens ==
    \A s \in Streams, src \in Sources :
        registrar[<<<<"LISTENER", s>>, src>>] = "IN" => listeners[s][src] # "none"

(* avb_logic.h:76-78: msrpTalkerDecl is the "Active MSRP talker            *)
(* declaration per StreamID": a stream with a registered talker attribute  *)
(* has one.                                                                *)
TalkerTruth ==
    \A s \in Streams, src \in Sources, kind \in {"TALKER_ADVERTISE", "TALKER_FAILED"} :
        registrar[<<<<kind, s>>, src>>] = "IN" => msrpTalkerDecl[s] # "None"
=============================================================================
