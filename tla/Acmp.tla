-------------------------------- MODULE Acmp --------------------------------
(***************************************************************************)
(* ACMP connections and Milan listener sinks (backend/src/logic/           *)
(* acmp_logic.cpp), beside the ADP life cycle whose shared set of          *)
(* available entities they read, and the talker declarations that          *)
(* MsrpLogic shares with them.  The descriptive fields of connections and  *)
(* sinks, the histories and the counters kept per talker are left out.     *)
(***************************************************************************)
EXTENDS Adp

CONSTANTS Sinks,      \* listener entity and unique id
          SeqIds, StreamIds,
          Unset,      \* a field that is zero
          Traffics,   \* what captures hold: the messages and the talkers
                      \* that occur in them
          CommandTime,  \* acmpTimeoutS: 200 ms
          Resp2Time,    \* kMilanNoRespS + 50 ms
          ReprobeTime,  \* kMilanNoRespS + 300 ms
          RespTime,     \* kMilanNoRespS + 1 s
          RetryTime,    \* kMilanRetryS + 1 s
          NoTkTime      \* kMilanNoTkS: 10 s

VARIABLES traffic,
          msrpTalkerDecl, \* streams with an entry in SharedModel::msrpTalkerDecl
          inflight,       \* mInflight: commands not answered
          conn,           \* state of mConns
          sink            \* mSinks

acmpVars == <<inflight, conn, sink>>
vars == <<now, due, adpVars, traffic, msrpTalkerDecl, acmpVars>>

ASSUME AcmpAssumption ==
    /\ CommandTime \in Nat /\ Resp2Time \in Nat /\ ReprobeTime \in Nat
    /\ RespTime \in Nat /\ RetryTime \in Nat /\ NoTkTime \in Nat
    /\ \A c \in Traffics : c.talkers \subseteq Entities
    /\ Unset \notin Entities \cup StreamIds

Connects == {"CONNECT_TX", "CONNECT_RX"}
Disconnects == {"DISCONNECT_TX", "DISCONNECT_RX"}
Commands == Connects \cup Disconnects \cup {"GET_STATE"}

ConnStates == {"DISCONNECTED", "CONNECTING", "CONNECTED", "DISCONNECTING",
               "FAILED"}

(* ABSENT: mSinks has no entry. *)
SinkStates == {"ABSENT", "UNBOUND", "PRB_W_AVAIL", "PRB_W_DELAY", "PRB_W_RESP",
               "PRB_W_RESP2", "PRB_W_RETRY", "SETTLED_NO_RSV", "SETTLED_RSV_OK"}
Idle == {"ABSENT", "UNBOUND"}
Settled == {"SETTLED_NO_RSV", "SETTLED_RSV_OK"}

(* A connection, by talker and sink. *)
ConnKeys == Entities \X Sinks

NewSink == [state |-> "ABSENT", boundTalker |-> Unset, talkerAvail |-> FALSE,
            streamId |-> Unset, lastProbeTs |-> 0, retryStartTs |-> 0,
            settledNoRsvTs |-> 0, retryWarned |-> FALSE]

Init ==
    /\ AdpInit
    /\ traffic \in Traffics
    /\ msrpTalkerDecl = {}
    /\ inflight = {}
    /\ conn = [k \in ConnKeys |-> "DISCONNECTED"]
    /\ sink = [l \in Sinks |-> NewSink]
-----------------------------------------------------------------------------
(* The correlation of commands and responses, by message, sequence id and  *)
(* connection.                                                             *)
Command(cmd, seq, k, ts) ==
    inflight' = {f \in inflight : f.id # <<cmd, seq, k>>}
                    \cup {[id |-> <<cmd, seq, k>>, sentTs |-> ts]}

Response(cmd, seq, k) ==
    inflight' = {f \in inflight : f.id # <<cmd, seq, k>>}

(* A connection in one of the states from enters the state to. *)
Goes(k, from, to) ==
    conn' = IF conn[k] \in from THEN [conn EXCEPT ![k] = to] ELSE conn

Connecting(k) == Goes(k, ConnStates \ {"CONNECTING", "CONNECTED"}, "CONNECTING")

(* The sink of a connection becomes s. *)
SinkIs(k, s) == sink' = [sink EXCEPT ![k[2]] = s]

UnlessAbsent(s, to) == IF s.state = "ABSENT" THEN s ELSE to
-----------------------------------------------------------------------------
(***************************************************************************)
(* What the messages do to a sink: the cases of milanOnMessage.            *)
(***************************************************************************)
(* Mutant: whether the new talker is known is left as it was. *)
BoundUnlooked(s, talker) ==
    [s EXCEPT !.boundTalker = talker,
              !.state = IF talker \in adpAvailable THEN "PRB_W_DELAY"
                        ELSE "PRB_W_AVAIL"]

(* BIND_RX_COMMAND *)
Bound(s, talker) ==
    [s EXCEPT !.boundTalker = talker,
              !.talkerAvail = talker \in adpAvailable,
              !.state = IF talker \in adpAvailable THEN "PRB_W_DELAY"
                        ELSE "PRB_W_AVAIL"]

(* UNBIND_RX_COMMAND, and a binding rejected. *)
Unbound(s) == [s EXCEPT !.state = "UNBOUND"]

(* PROBE_TX_COMMAND: a second one soon after the first, one that ends the  *)
(* wait for a retry, or another; without a binding, the saved one is       *)
(* assumed.                                                                *)
Again(s, ts) == s.state = "PRB_W_RESP" /\ ts - s.lastProbeTs < ReprobeTime

Probed(s, talker, ts) ==
    [s EXCEPT !.state = IF Again(s, ts) THEN "PRB_W_RESP2" ELSE "PRB_W_RESP",
              !.retryWarned = IF s.state = "PRB_W_RETRY" THEN FALSE ELSE @,
              !.boundTalker = IF s.state \in Idle THEN talker ELSE @,
              !.lastProbeTs = ts]

(* PROBE_TX_RESPONSE, SUCCESS. *)
Answered(s, stream, ts) ==
    [s EXCEPT !.state = IF stream \in msrpTalkerDecl THEN "SETTLED_RSV_OK"
                        ELSE "SETTLED_NO_RSV",
              !.streamId = stream,
              !.settledNoRsvTs = ts]
-----------------------------------------------------------------------------
(***************************************************************************)
(* onDecode: the ACMP messages, by their IEEE 1722.1 names.                *)
(***************************************************************************)
ConnectTxCommand(k, seq, ts) ==
    /\ Arrives(ts)
    /\ Command("CONNECT_TX", seq, k, ts)
    /\ SinkIs(k, Probed(sink[k[2]], k[1], ts))
    /\ Connecting(k)

ConnectTxSuccess(k, seq, stream, ts) ==
    /\ Arrives(ts)
    /\ Response("CONNECT_TX", seq, k)
    /\ SinkIs(k, UnlessAbsent(sink[k[2]], Answered(sink[k[2]], stream, ts)))
    /\ Connecting(k)

ConnectTxFailure(k, seq, ts) ==
    /\ Arrives(ts)
    /\ Response("CONNECT_TX", seq, k)
    /\ Goes(k, ConnStates, "FAILED")
    /\ UNCHANGED sink

ConnectRxCommand(k, seq, ts) ==
    /\ Arrives(ts)
    /\ Command("CONNECT_RX", seq, k, ts)
    /\ SinkIs(k, Bound(sink[k[2]], k[1]))
    /\ Connecting(k)

ConnectRxSuccess(k, seq, ts) ==
    /\ Arrives(ts)
    /\ Response("CONNECT_RX", seq, k)
    /\ Goes(k, ConnStates, "CONNECTED")
    /\ UNCHANGED sink

ConnectRxFailure(k, seq, ts) ==
    /\ Arrives(ts)
    /\ Response("CONNECT_RX", seq, k)
    /\ SinkIs(k, UnlessAbsent(sink[k[2]], Unbound(sink[k[2]])))
    /\ Goes(k, ConnStates, "FAILED")

DisconnectCommand(cmd, k, seq, ts) ==
    /\ Arrives(ts)
    /\ Command(cmd, seq, k, ts)
    /\ IF cmd = "DISCONNECT_RX" THEN SinkIs(k, Unbound(sink[k[2]]))
                                ELSE UNCHANGED sink
    /\ Goes(k, ConnStates \ {"DISCONNECTED"}, "DISCONNECTING")

(* Mutant: the command is answered, the connection stays as it is. *)
DisconnectIgnored(cmd, ok, k, seq, ts) ==
    /\ Arrives(ts)
    /\ Response(cmd, seq, k)
    /\ IF ok THEN Goes(k, ConnStates, "DISCONNECTED") ELSE UNCHANGED conn
    /\ UNCHANGED sink

DisconnectResponse(cmd, ok, k, seq, ts) ==
    /\ Arrives(ts)
    /\ Response(cmd, seq, k)
    /\ IF ok THEN Goes(k, ConnStates, "DISCONNECTED")
             ELSE Goes(k, {"DISCONNECTING"}, "CONNECTED")
    /\ UNCHANGED sink

(* GET_RX_STATE and the other queries are correlated and no more. *)
StateQuery(answer, k, seq, ts) ==
    /\ Arrives(ts)
    /\ IF answer THEN Response("GET_STATE", seq, k)
                 ELSE Command("GET_STATE", seq, k, ts)
    /\ UNCHANGED <<conn, sink>>
-----------------------------------------------------------------------------
(***************************************************************************)
(* onTimeTick.                                                             *)
(***************************************************************************)
(* The bound talker is gone: the rest of the tick is skipped. *)
Departed(s) == /\ s.talkerAvail
               /\ s.boundTalker \notin adpAvailable
               /\ s.state # "PRB_W_AVAIL"

Discovered(s) ==
    IF ~s.talkerAvail /\ s.boundTalker \in adpAvailable
    THEN [s EXCEPT !.talkerAvail = TRUE,
                   !.state = IF @ = "PRB_W_AVAIL" THEN "PRB_W_DELAY" ELSE @]
    ELSE s

Reserved(s) ==
    LET registered == s.streamId \in msrpTalkerDecl IN
    IF s.state = "SETTLED_NO_RSV" /\ registered
    THEN [s EXCEPT !.state = "SETTLED_RSV_OK"]
    ELSE IF s.state = "SETTLED_RSV_OK" /\ ~registered /\ s.streamId # Unset
    THEN [s EXCEPT !.state = "SETTLED_NO_RSV", !.settledNoRsvTs = now]
    ELSE s

Late(s, state, since, time) == s.state = state /\ now > since + time

(* Mutant: only the first of two unanswered probes is timed. *)
TimedOnce(s) ==
    IF Late(s, "PRB_W_RESP", s.lastProbeTs, RespTime)
    THEN [s EXCEPT !.state = "PRB_W_RETRY", !.retryStartTs = now]
    ELSE s

Timed(s) ==
    IF \/ Late(s, "PRB_W_RESP2", s.lastProbeTs, Resp2Time)
       \/ Late(s, "PRB_W_RESP", s.lastProbeTs, RespTime)
    THEN [s EXCEPT !.state = "PRB_W_RETRY", !.retryStartTs = now]
    ELSE IF Late(s, "PRB_W_RETRY", s.retryStartTs, RetryTime)
    THEN [s EXCEPT !.retryWarned = TRUE]
    ELSE IF Late(s, "SETTLED_NO_RSV", s.settledNoRsvTs, NoTkTime)
    THEN [s EXCEPT !.state = "PRB_W_DELAY"]
    ELSE s

(* Mutant: the registration is not looked at. *)
SinkTickUnreserved(s) ==
    IF s.state \in Idle THEN s
    ELSE IF Departed(s)
    THEN [s EXCEPT !.talkerAvail = FALSE, !.state = "PRB_W_AVAIL"]
    ELSE Timed(Discovered(s))

SinkTick(s) ==
    IF s.state \in Idle THEN s
    ELSE IF Departed(s)
    THEN [s EXCEPT !.talkerAvail = FALSE, !.state = "PRB_W_AVAIL"]
    ELSE Timed(Reserved(Discovered(s)))

Unanswered == {f \in inflight : now > f.sentTs + CommandTime}
UnansweredOf(k, cmds) == \E f \in Unanswered : f.id[1] \in cmds /\ f.id[3] = k

AcmpTick ==
    /\ Ticked("atdecc_acmp")
    /\ sink' = [l \in Sinks |-> SinkTick(sink[l])]
    /\ conn' = [k \in ConnKeys |->
                  IF conn[k] = "CONNECTING" /\ UnansweredOf(k, Connects)
                  THEN "FAILED"
                  ELSE IF conn[k] = "DISCONNECTING" /\ UnansweredOf(k, Disconnects)
                  THEN "DISCONNECTED"
                  ELSE conn[k]]
    /\ inflight' = inflight \ Unanswered
-----------------------------------------------------------------------------
AcmpDecode ==
    /\ \E k \in traffic.talkers \X Sinks, seq \in SeqIds, ts \in now .. MaxTime :
         \/ /\ "CONNECT_TX" \in traffic.messages
            /\ \/ ConnectTxCommand(k, seq, ts)
               \/ ConnectTxFailure(k, seq, ts)
               \/ \E stream \in StreamIds : ConnectTxSuccess(k, seq, stream, ts)
         \/ /\ "CONNECT_RX" \in traffic.messages
            /\ \/ ConnectRxCommand(k, seq, ts)
               \/ ConnectRxSuccess(k, seq, ts)
               \/ ConnectRxFailure(k, seq, ts)
         \/ \E cmd \in Disconnects \cap traffic.messages :
              \/ DisconnectCommand(cmd, k, seq, ts)
              \/ \E ok \in BOOLEAN : DisconnectResponse(cmd, ok, k, seq, ts)
         \/ /\ "GET_STATE" \in traffic.messages
            /\ \E answer \in BOOLEAN : StateQuery(answer, k, seq, ts)
    /\ UNCHANGED <<adpVars, traffic, msrpTalkerDecl>>

AdpDecode ==
    /\ "ADP" \in traffic.messages
    /\ \E e \in traffic.talkers, ts \in now .. MaxTime :
         \/ \E validTime \in ValidTimes : Available(e, validTime, ts)
         \/ Departing(e, ts)
    /\ UNCHANGED <<traffic, msrpTalkerDecl, acmpVars>>

(* A packet that MsrpLogic takes changes the declared talkers (Msrp);      *)
(* every other packet only advances the time.                              *)
OtherDecode ==
    /\ \E ts \in now .. MaxTime : Arrives(ts)
    /\ IF "MSRP" \in traffic.messages THEN msrpTalkerDecl' \in SUBSET StreamIds
                             ELSE UNCHANGED msrpTalkerDecl
    /\ UNCHANGED <<adpVars, traffic, acmpVars>>

Tick == \/ AdpTick /\ UNCHANGED <<traffic, msrpTalkerDecl, acmpVars>>
        \/ AcmpTick /\ UNCHANGED <<adpVars, traffic, msrpTalkerDecl>>

Next == AcmpDecode \/ AdpDecode \/ OtherDecode \/ Tick

Spec == Init /\ [][Next]_vars
-----------------------------------------------------------------------------
Times == 0 .. MaxTime

SinkRecord == [state : SinkStates, boundTalker : Entities \cup {Unset},
               talkerAvail : BOOLEAN, streamId : StreamIds \cup {Unset},
               lastProbeTs : Times, retryStartTs : Times,
               settledNoRsvTs : Times, retryWarned : BOOLEAN]

TypeOK ==
    /\ AdpTypeOK
    /\ traffic \in Traffics
    /\ msrpTalkerDecl \subseteq StreamIds
    /\ inflight \subseteq [id : Commands \X SeqIds \X ConnKeys, sentTs : Times]
    /\ conn \in [ConnKeys -> ConnStates]
    /\ sink \in [Sinks -> SinkRecord]

(* A sink that waits for its talker to appear waits for one that has not:  *)
(* whichever way it came to wait, and whatever the order of the modules'   *)
(* ticks, EVT_TK_DISCOVERED is not missed.  This needs the sink's own copy *)
(* talkerAvail to be false in every such state.                            *)
NoDiscoveryMissed ==
    due = {} => \A l \in Sinks : sink[l].state = "PRB_W_AVAIL" =>
                                   sink[l].boundTalker \notin adpAvailable

(* When a packet is done a settled sink says RSV_OK exactly when the       *)
(* talker attribute of its stream is registered, although MSRP and the     *)
(* sink learn of the stream in either order.                               *)
SettledAsRegistered ==
    due = {} => \A l \in Sinks :
      sink[l].state \in Settled =>
        (sink[l].state = "SETTLED_RSV_OK" <=> sink[l].streamId \in msrpTalkerDecl)

(* When a packet is done no timer has run out unnoticed: no sink still     *)
(* waits for a response or a registration past its time, no command is     *)
(* still open past the 200 ms, and no entity is available past its         *)
(* validity.                                                               *)
NoTimerOverrun ==
    due = {} =>
      /\ \A l \in Sinks :
           /\ ~Late(sink[l], "PRB_W_RESP2", sink[l].lastProbeTs, Resp2Time)
           /\ ~Late(sink[l], "PRB_W_RESP", sink[l].lastProbeTs, RespTime)
           /\ ~Late(sink[l], "SETTLED_NO_RSV", sink[l].settledNoRsvTs, NoTkTime)
      /\ Unanswered = {}
      /\ \A e \in Entities : ~Expired(e)

(* A connection that is being torn down has a disconnect command open,     *)
(* whatever other commands, answers and timeouts came meanwhile: so an     *)
(* answer or the command's timeout ends every DISCONNECTING.               *)
DisconnectOpen ==
    \A k \in ConnKeys :
      conn[k] = "DISCONNECTING" =>
        \E f \in inflight : f.id[1] \in Disconnects /\ f.id[3] = k

(* The tick reports EVT_TK_DEPARTED, "no longer AVAILABLE (ADP)", only of  *)
(* a talker that ADP has seen departing or timing out.                     *)
DepartsAsSeen ==
    [][\A l \in Sinks :
         AcmpTick /\ sink[l].state \notin Idle /\ Departed(sink[l]) =>
           entity[sink[l].boundTalker].state \in {"DEPARTING", "TIMED_OUT"}]_vars
=============================================================================
