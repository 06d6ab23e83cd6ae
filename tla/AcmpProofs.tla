----------------------------- MODULE AcmpProofs -----------------------------
(***************************************************************************)
(* For any talkers, sinks, streams, sequence ids, capture and timer        *)
(* values: no discovery of a talker is missed, settled sinks agree with    *)
(* the registered talker attributes, no timer is overrun, and a            *)
(* disconnection is never left without an open command.  All of it with    *)
(* the modules ticked in either order.                                     *)
(***************************************************************************)
EXTENDS Acmp, TLAPS

(* A sink waits only for a talker it does not believe available, and is    *)
(* settled only on a stream; both hold in the middle of a packet, too.     *)
SinkInv(s) == /\ s \in SinkRecord
              /\ s.state = "PRB_W_AVAIL" => ~s.talkerAvail
              /\ s.state \in Settled => s.streamId \in StreamIds

(* What the tick of AcmpLogic leaves behind. *)
SinkDone(s) ==
    /\ s.state = "PRB_W_AVAIL" => s.boundTalker \notin adpAvailable
    /\ s.state \in Settled =>
         (s.state = "SETTLED_RSV_OK" <=> s.streamId \in msrpTalkerDecl)
    /\ ~Late(s, "PRB_W_RESP2", s.lastProbeTs, Resp2Time)
    /\ ~Late(s, "PRB_W_RESP", s.lastProbeTs, RespTime)
    /\ ~Late(s, "SETTLED_NO_RSV", s.settledNoRsvTs, NoTkTime)

(* Each module's part is done once it has been ticked. *)
AcmpDone == "atdecc_acmp" \notin due =>
              (\A l \in Sinks : SinkDone(sink[l])) /\ Unanswered = {}
AdpDone == "atdecc_adp" \notin due => \A e \in Entities : ~Expired(e)

SinksInv == sink \in [Sinks -> SinkRecord] /\ \A l \in Sinks : SinkInv(sink[l])

TablesOK ==
    /\ inflight \subseteq [id : Commands \X SeqIds \X ConnKeys, sentTs : Times]
    /\ conn \in [ConnKeys -> ConnStates]

SurroundOK == /\ traffic \in Traffics
              /\ msrpTalkerDecl \subseteq StreamIds

Inv == /\ AdpTypeOK /\ SurroundOK /\ AvailabilityShared
       /\ SinksInv /\ TablesOK /\ DisconnectOpen
       /\ AcmpDone /\ AdpDone
-----------------------------------------------------------------------------
(***************************************************************************)
(* What the messages and the tick do to one sink.                          *)
(***************************************************************************)

(* A BIND keeps the invariant of a sink: it looks the new talker up.       *)
LEMMA BoundKeeps ==
    ASSUME NEW s, SinkInv(s), NEW talker \in Entities
    PROVE  SinkInv(Bound(s, talker))
<1>. DEFINE seen == talker \in adpAvailable
            to == IF seen THEN "PRB_W_DELAY" ELSE "PRB_W_AVAIL"
<1>1. Bound(s, talker) = [s EXCEPT !.boundTalker = talker, !.talkerAvail = seen,
                                   !.state = to]
  BY DEF Bound
<1>2. seen \in BOOLEAN /\ to \in SinkStates \ Settled /\ (to = "PRB_W_AVAIL" => ~seen)
  BY DEF SinkStates, Settled
<1>. HIDE DEF seen, to
<1>. QED
  BY <1>1, <1>2 DEF SinkInv, SinkRecord

(* An UNBIND and a rejected binding keep it.                               *)
LEMMA UnboundKeeps ==
    ASSUME NEW s, SinkInv(s)
    PROVE  SinkInv(Unbound(s))
BY DEF SinkInv, SinkRecord, SinkStates, Settled, Unbound

(* A PROBE keeps it.                                                       *)
LEMMA ProbedKeeps ==
    ASSUME NEW s, SinkInv(s), NEW talker \in Entities, NEW ts \in Times
    PROVE  SinkInv(Probed(s, talker, ts))
<1>1. Again(s, ts) \in BOOLEAN
  BY DEF Again
<1>. QED
  BY <1>1 DEF SinkInv, SinkRecord, SinkStates, Settled, Probed

(* A successful answer keeps it: the sink has the stream of the answer.    *)
LEMMA AnsweredKeeps ==
    ASSUME NEW s, SinkInv(s), NEW stream \in StreamIds, NEW ts \in Times
    PROVE  SinkInv(Answered(s, stream, ts))
BY DEF SinkInv, SinkRecord, SinkStates, Settled, Answered

(* Of the parts of the tick: the talker that appeared is noticed.          *)
LEMMA DiscoveredKeeps ==
    ASSUME NEW s, SinkInv(s)
    PROVE  /\ SinkInv(Discovered(s))
           /\ Discovered(s).state = "PRB_W_AVAIL" =>
                Discovered(s).boundTalker \notin adpAvailable
BY DEF SinkInv, SinkRecord, SinkStates, Settled, Discovered

(* The registration is followed.                                           *)
LEMMA ReservedKeeps ==
    ASSUME AdpTypeOK, NEW s, SinkInv(s)
    PROVE  /\ SinkInv(Reserved(s))
           /\ Reserved(s).boundTalker = s.boundTalker
           /\ Reserved(s).state = "PRB_W_AVAIL" => s.state = "PRB_W_AVAIL"
           /\ Reserved(s).state \in Settled =>
                (Reserved(s).state = "SETTLED_RSV_OK"
                   <=> Reserved(s).streamId \in msrpTalkerDecl)
<1>1. now \in Times
  BY DEF AdpTypeOK, Times
<1>2. Unset \notin StreamIds
  BY AcmpAssumption
<1>. QED
  BY <1>1, <1>2 DEF SinkInv, SinkRecord, SinkStates, Settled, Reserved

(* The timers are looked at last, so what they leave behind is done.       *)
LEMMA TimedKeeps ==
    ASSUME AdpTypeOK, NEW s, SinkInv(s),
           s.state = "PRB_W_AVAIL" => s.boundTalker \notin adpAvailable,
           s.state \in Settled =>
             (s.state = "SETTLED_RSV_OK" <=> s.streamId \in msrpTalkerDecl)
    PROVE  SinkInv(Timed(s)) /\ SinkDone(Timed(s))
<1>1. now \in Times
  BY DEF AdpTypeOK, Times
<1>2. CASE \/ Late(s, "PRB_W_RESP2", s.lastProbeTs, Resp2Time)
           \/ Late(s, "PRB_W_RESP", s.lastProbeTs, RespTime)
  <2>1. Timed(s) = [s EXCEPT !.state = "PRB_W_RETRY", !.retryStartTs = now]
    BY <1>2 DEF Timed
  <2>2. SinkInv(Timed(s)) /\ Timed(s).state = "PRB_W_RETRY"
    BY <1>1, <2>1 DEF SinkInv, SinkRecord, SinkStates, Settled
  <2>. QED
    BY <2>2 DEF SinkDone, Settled, Late
<1>3. CASE /\ ~Late(s, "PRB_W_RESP2", s.lastProbeTs, Resp2Time)
           /\ ~Late(s, "PRB_W_RESP", s.lastProbeTs, RespTime)
  <2>1. CASE Late(s, "PRB_W_RETRY", s.retryStartTs, RetryTime)
    <3>1. Timed(s) = [s EXCEPT !.retryWarned = TRUE]
      BY <1>3, <2>1 DEF Timed
    <3>2. s.state = "PRB_W_RETRY"
      BY <2>1 DEF Late
    <3>3. SinkInv(Timed(s)) /\ Timed(s).state = "PRB_W_RETRY"
      BY <3>1, <3>2 DEF SinkInv, SinkRecord, SinkStates, Settled
    <3>. QED
      BY <3>3 DEF SinkDone, Settled, Late
  <2>2. CASE /\ ~Late(s, "PRB_W_RETRY", s.retryStartTs, RetryTime)
             /\ Late(s, "SETTLED_NO_RSV", s.settledNoRsvTs, NoTkTime)
    <3>1. Timed(s) = [s EXCEPT !.state = "PRB_W_DELAY"]
      BY <1>3, <2>2 DEF Timed
    <3>2. SinkInv(Timed(s)) /\ Timed(s).state = "PRB_W_DELAY"
      BY <3>1 DEF SinkInv, SinkRecord, SinkStates, Settled
    <3>. QED
      BY <3>2 DEF SinkDone, Settled, Late
  <2>3. CASE /\ ~Late(s, "PRB_W_RETRY", s.retryStartTs, RetryTime)
             /\ ~Late(s, "SETTLED_NO_RSV", s.settledNoRsvTs, NoTkTime)
    <3>1. Timed(s) = s
      BY <1>3, <2>3 DEF Timed
    <3>. QED
      BY <1>3, <2>3, <3>1 DEF SinkDone
  <2>. QED
    BY <2>1, <2>2, <2>3
<1>. QED
  BY <1>2, <1>3

(* The tick keeps the invariant of a sink and leaves nothing undone.       *)
LEMMA SinkTickKeeps ==
    ASSUME AdpTypeOK, NEW s, SinkInv(s)
    PROVE  SinkInv(SinkTick(s)) /\ SinkDone(SinkTick(s))
<1>1. CASE s.state \in Idle
  BY <1>1 DEF SinkTick, SinkDone, Idle, Settled, Late
<1>2. CASE s.state \notin Idle /\ Departed(s)
  <2>. DEFINE t == [s EXCEPT !.talkerAvail = FALSE, !.state = "PRB_W_AVAIL"]
  <2>1. SinkTick(s) = t
    BY <1>2 DEF SinkTick
  <2>2. SinkInv(t)
    BY DEF SinkInv, SinkRecord, SinkStates, Settled
  <2>3. t.state = "PRB_W_AVAIL" /\ t.boundTalker = s.boundTalker
    BY DEF SinkInv, SinkRecord
  <2>4. SinkDone(t)
    BY <1>2, <2>3 DEF SinkDone, Departed, Settled, Late
  <2>. QED
    BY <2>1, <2>2, <2>4
<1>3. CASE s.state \notin Idle /\ ~Departed(s)
  <2>1. SinkTick(s) = Timed(Reserved(Discovered(s)))
    BY <1>3 DEF SinkTick
  <2>2. /\ SinkInv(Discovered(s))
        /\ Discovered(s).state = "PRB_W_AVAIL" =>
             Discovered(s).boundTalker \notin adpAvailable
    BY DiscoveredKeeps
  <2>3. /\ SinkInv(Reserved(Discovered(s)))
        /\ Reserved(Discovered(s)).boundTalker = Discovered(s).boundTalker
        /\ Reserved(Discovered(s)).state = "PRB_W_AVAIL" =>
             Discovered(s).state = "PRB_W_AVAIL"
        /\ Reserved(Discovered(s)).state \in Settled =>
             (Reserved(Discovered(s)).state = "SETTLED_RSV_OK"
                <=> Reserved(Discovered(s)).streamId \in msrpTalkerDecl)
    BY <2>2, ReservedKeeps
  <2>. QED
    BY <2>1, <2>2, <2>3, TimedKeeps
<1>. QED
  BY <1>1, <1>2, <1>3
-----------------------------------------------------------------------------
(***************************************************************************)
(* What the messages and the tick do to the connections.                   *)
(***************************************************************************)

(* A command is noted, and its connection may change to anything.          *)
LEMMA CommandTables ==
    ASSUME TablesOK, NEW cmd \in Commands, NEW seq \in SeqIds, NEW k \in ConnKeys,
           NEW ts \in Times, Command(cmd, seq, k, ts)
    PROVE  inflight' \subseteq [id : Commands \X SeqIds \X ConnKeys, sentTs : Times]
BY DEF TablesOK, Command

(* An answer is taken out, and nothing else.                               *)
LEMMA ResponseTables ==
    ASSUME TablesOK, NEW cmd, NEW seq, NEW k, Response(cmd, seq, k)
    PROVE  /\ inflight' \subseteq inflight
           /\ \A f \in inflight : f.id # <<cmd, seq, k>> => f \in inflight'
BY DEF TablesOK, Response

(* An open command stays open while another one is noted.                  *)
LEMMA CommandKeepsOpen ==
    ASSUME TablesOK, DisconnectOpen, NEW cmd, NEW seq, NEW k, NEW ts,
           Command(cmd, seq, k, ts), NEW j \in ConnKeys, conn[j] = "DISCONNECTING"
    PROVE  \E f \in inflight' : f.id[1] \in Disconnects /\ f.id[3] = j
<1>1. PICK f \in inflight : f.id[1] \in Disconnects /\ f.id[3] = j
  BY DEF DisconnectOpen
<1>2. CASE f.id # <<cmd, seq, k>>
  BY <1>1, <1>2 DEF Command
<1>3. CASE f.id = <<cmd, seq, k>>
  <2>. DEFINE g == [id |-> <<cmd, seq, k>>, sentTs |-> ts]
  <2>1. g \in inflight' /\ g.id = f.id
    BY <1>3 DEF Command
  <2>. QED
    BY <1>1, <2>1
<1>. QED
  BY <1>2, <1>3

(* An answer to a command that is not a disconnect of j leaves those of j. *)
LEMMA ResponseKeepsOpen ==
    ASSUME TablesOK, DisconnectOpen, NEW cmd, NEW seq, NEW k,
           Response(cmd, seq, k), NEW j \in ConnKeys, conn[j] = "DISCONNECTING",
           cmd \notin Disconnects \/ j # k
    PROVE  \E f \in inflight' : f.id[1] \in Disconnects /\ f.id[3] = j
<1>1. PICK f \in inflight : f.id[1] \in Disconnects /\ f.id[3] = j
  BY DEF DisconnectOpen
<1>2. f.id # <<cmd, seq, k>>
  BY <1>1
<1>. QED
  BY <1>1, <1>2, ResponseTables

(* What Goes does to each connection.                                      *)
LEMMA GoesTo ==
    ASSUME TablesOK, NEW k \in ConnKeys, NEW from, NEW to \in ConnStates,
           Goes(k, from, to)
    PROVE  /\ conn' \in [ConnKeys -> ConnStates]
           /\ \A j \in ConnKeys : j # k => conn'[j] = conn[j]
           /\ conn'[k] = IF conn[k] \in from THEN to ELSE conn[k]
BY DEF TablesOK, Goes

(* A command and its effect: only a disconnect command leads to            *)
(* DISCONNECTING.                                                          *)
LEMMA CommandStep ==
    ASSUME TablesOK, DisconnectOpen, NEW cmd \in Commands, NEW seq \in SeqIds,
           NEW k \in ConnKeys, NEW ts \in Times, Command(cmd, seq, k, ts),
           NEW from, NEW to \in ConnStates, Goes(k, from, to),
           to = "DISCONNECTING" => cmd \in Disconnects
    PROVE  TablesOK' /\ DisconnectOpen'
<1>1. TablesOK'
  BY CommandTables, GoesTo DEF TablesOK
<1>2. ASSUME NEW j \in ConnKeys, conn'[j] = "DISCONNECTING"
      PROVE  \E f \in inflight' : f.id[1] \in Disconnects /\ f.id[3] = j
  <2>1. CASE conn[j] = "DISCONNECTING"
    BY <2>1, CommandKeepsOpen
  <2>2. CASE conn[j] # "DISCONNECTING"
    <3>1. j = k /\ cmd \in Disconnects
      BY <1>2, <2>2, GoesTo
    <3>. DEFINE g == [id |-> <<cmd, seq, k>>, sentTs |-> ts]
    <3>2. g \in inflight' /\ g.id[1] = cmd /\ g.id[3] = k
      BY DEF Command
    <3>. QED
      BY <3>1, <3>2
  <2>. QED
    BY <2>1, <2>2
<1>. QED
  BY <1>1, <1>2 DEF DisconnectOpen

(* An answer and its effect: an answer to a disconnect command ends        *)
(* DISCONNECTING.                                                          *)
LEMMA ResponseStep ==
    ASSUME TablesOK, DisconnectOpen, NEW cmd, NEW seq, NEW k \in ConnKeys,
           Response(cmd, seq, k),
           NEW from, NEW to \in ConnStates, Goes(k, from, to),
           to # "DISCONNECTING",
           cmd \in Disconnects => "DISCONNECTING" \in from
    PROVE  TablesOK' /\ DisconnectOpen'
<1>1. TablesOK'
  BY ResponseTables, GoesTo DEF TablesOK
<1>2. ASSUME NEW j \in ConnKeys, conn'[j] = "DISCONNECTING"
      PROVE  \E f \in inflight' : f.id[1] \in Disconnects /\ f.id[3] = j
  <2>1. conn[j] = "DISCONNECTING"
    BY <1>2, GoesTo
  <2>2. cmd \notin Disconnects \/ j # k
    BY <1>2, <2>1, GoesTo
  <2>. QED
    BY <2>1, <2>2, ResponseKeepsOpen
<1>. QED
  BY <1>1, <1>2 DEF DisconnectOpen

(* Queries come and go beside the connections.                             *)
LEMMA QueryStep ==
    ASSUME TablesOK, DisconnectOpen, NEW answer \in BOOLEAN, NEW seq \in SeqIds,
           NEW k \in ConnKeys, NEW ts \in Times, StateQuery(answer, k, seq, ts)
    PROVE  TablesOK' /\ DisconnectOpen'
<1>1. conn' = conn
  BY DEF StateQuery
<1>2. "GET_STATE" \in Commands /\ "GET_STATE" \notin Disconnects
  BY DEF Commands, Disconnects
<1>3. CASE Command("GET_STATE", seq, k, ts)
  <2>1. TablesOK'
    BY <1>1, <1>2, <1>3, CommandTables DEF TablesOK
  <2>2. \A j \in ConnKeys : conn'[j] = "DISCONNECTING" =>
          \E f \in inflight' : f.id[1] \in Disconnects /\ f.id[3] = j
    BY <1>1, <1>3, CommandKeepsOpen
  <2>. QED
    BY <2>1, <2>2 DEF DisconnectOpen
<1>4. CASE Response("GET_STATE", seq, k)
  <2>1. TablesOK'
    BY <1>1, <1>4, ResponseTables DEF TablesOK
  <2>2. \A j \in ConnKeys : conn'[j] = "DISCONNECTING" =>
          \E f \in inflight' : f.id[1] \in Disconnects /\ f.id[3] = j
    BY <1>1, <1>2, <1>4, ResponseKeepsOpen
  <2>. QED
    BY <2>1, <2>2 DEF DisconnectOpen
<1>. QED
  BY <1>3, <1>4 DEF StateQuery

(* A sink that is replaced by one that satisfies the invariant.            *)
LEMMA SinkStep ==
    ASSUME SinksInv, NEW k \in ConnKeys, NEW s, SinkIs(k, s), SinkInv(s)
    PROVE  SinksInv'
<1>1. k[2] \in Sinks /\ s \in SinkRecord
  BY DEF ConnKeys, SinkInv
<1>2. sink' = [sink EXCEPT ![k[2]] = s]
  BY DEF SinkIs
<1>3. sink' \in [Sinks -> SinkRecord]
  BY <1>1, <1>2 DEF SinksInv
<1>4. \A l \in Sinks : SinkInv(sink'[l])
  BY <1>1, <1>2 DEF SinksInv
<1>. QED
  BY <1>3, <1>4 DEF SinksInv, SinkInv

(* Every ACMP message keeps the tables and the sinks.                      *)
LEMMA MessageStep ==
    ASSUME SinksInv, TablesOK, DisconnectOpen,
           NEW k \in ConnKeys, NEW seq \in SeqIds, NEW ts \in Times,
           \/ ConnectTxCommand(k, seq, ts)
           \/ ConnectTxFailure(k, seq, ts)
           \/ \E stream \in StreamIds : ConnectTxSuccess(k, seq, stream, ts)
           \/ ConnectRxCommand(k, seq, ts)
           \/ ConnectRxSuccess(k, seq, ts)
           \/ ConnectRxFailure(k, seq, ts)
           \/ \E cmd \in Disconnects :
                \/ DisconnectCommand(cmd, k, seq, ts)
                \/ \E ok \in BOOLEAN : DisconnectResponse(cmd, ok, k, seq, ts)
           \/ \E answer \in BOOLEAN : StateQuery(answer, k, seq, ts)
    PROVE  SinksInv' /\ TablesOK' /\ DisconnectOpen'
<1>. DEFINE s == sink[k[2]]
            Safe == SinksInv' /\ TablesOK' /\ DisconnectOpen'
<1>1. k[1] \in Entities /\ SinkInv(s)
  BY DEF ConnKeys, SinksInv
<1>2. /\ Disconnects \subseteq Commands
      /\ {"CONNECT_TX", "CONNECT_RX"} \subseteq Commands \ Disconnects
      /\ ConnStates \ {"DISCONNECTED"} \subseteq ConnStates
      /\ {"CONNECTING", "CONNECTED", "FAILED", "DISCONNECTED", "DISCONNECTING"}
            \subseteq ConnStates
  BY DEF Commands, Connects, Disconnects, ConnStates
<1>3. sink' = sink => SinksInv'
  BY DEF SinksInv, SinkInv
<1>4. CASE ConnectTxCommand(k, seq, ts)
  <2>1. SinksInv'
    BY <1>1, <1>4, ProbedKeeps, SinkStep DEF ConnectTxCommand
  <2>2. TablesOK' /\ DisconnectOpen'
    BY <1>2, <1>4, CommandStep DEF ConnectTxCommand, Connecting
  <2>. QED
    BY <2>1, <2>2
<1>5. CASE ConnectTxFailure(k, seq, ts)
  BY <1>2, <1>3, <1>5, ResponseStep DEF ConnectTxFailure
<1>6. ASSUME NEW stream \in StreamIds, ConnectTxSuccess(k, seq, stream, ts)
      PROVE  Safe
  <2>1. SinkInv(UnlessAbsent(s, Answered(s, stream, ts)))
    BY <1>1, AnsweredKeeps DEF UnlessAbsent
  <2>2. SinksInv'
    BY <1>6, <2>1, SinkStep DEF ConnectTxSuccess
  <2>3. TablesOK' /\ DisconnectOpen'
    BY <1>2, <1>6, ResponseStep DEF ConnectTxSuccess, Connecting
  <2>. QED
    BY <2>2, <2>3
<1>7. CASE ConnectRxCommand(k, seq, ts)
  <2>1. SinksInv'
    BY <1>1, <1>7, BoundKeeps, SinkStep DEF ConnectRxCommand
  <2>2. TablesOK' /\ DisconnectOpen'
    BY <1>2, <1>7, CommandStep DEF ConnectRxCommand, Connecting
  <2>. QED
    BY <2>1, <2>2
<1>8. CASE ConnectRxSuccess(k, seq, ts)
  BY <1>2, <1>3, <1>8, ResponseStep DEF ConnectRxSuccess
<1>9. CASE ConnectRxFailure(k, seq, ts)
  <2>1. SinkInv(UnlessAbsent(s, Unbound(s)))
    BY <1>1, UnboundKeeps DEF UnlessAbsent
  <2>2. SinksInv'
    BY <1>9, <2>1, SinkStep DEF ConnectRxFailure
  <2>3. TablesOK' /\ DisconnectOpen'
    BY <1>2, <1>9, ResponseStep DEF ConnectRxFailure
  <2>. QED
    BY <2>2, <2>3
<1>10. ASSUME NEW cmd \in Disconnects, DisconnectCommand(cmd, k, seq, ts)
       PROVE  Safe
  <2>1. SinksInv'
    BY <1>1, <1>3, <1>10, UnboundKeeps, SinkStep DEF DisconnectCommand
  <2>2. TablesOK' /\ DisconnectOpen'
    BY <1>2, <1>10, CommandStep DEF DisconnectCommand
  <2>. QED
    BY <2>1, <2>2
<1>11. ASSUME NEW cmd \in Disconnects, NEW ok \in BOOLEAN,
              DisconnectResponse(cmd, ok, k, seq, ts)
       PROVE  Safe
  <2>1. SinksInv'
    BY <1>3, <1>11 DEF DisconnectResponse
  <2>2. CASE Goes(k, ConnStates, "DISCONNECTED")
    BY <1>2, <1>11, <2>1, <2>2, ResponseStep DEF DisconnectResponse
  <2>3. CASE Goes(k, {"DISCONNECTING"}, "CONNECTED")
    BY <1>2, <1>11, <2>1, <2>3, ResponseStep DEF DisconnectResponse
  <2>. QED
    BY <1>11, <2>2, <2>3 DEF DisconnectResponse
<1>12. ASSUME NEW answer \in BOOLEAN, StateQuery(answer, k, seq, ts)
       PROVE  Safe
  BY <1>3, <1>12, QueryStep DEF StateQuery
<1>. QED
  BY <1>4, <1>5, <1>6, <1>7, <1>8, <1>9, <1>10, <1>11, <1>12

(* The tick of AcmpLogic keeps the tables, ends what was not answered, and *)
(* leaves every sink done.                                                 *)
LEMMA AcmpTickStep ==
    ASSUME AdpTypeOK, SurroundOK, SinksInv, TablesOK, DisconnectOpen, AcmpTick,
           UNCHANGED <<adpVars, traffic, msrpTalkerDecl>>
    PROVE  SinksInv' /\ TablesOK' /\ DisconnectOpen' /\ AcmpDone'
<1>1. /\ now' = now /\ adpAvailable' = adpAvailable
      /\ msrpTalkerDecl' = msrpTalkerDecl
  BY DEF AcmpTick, Ticked, adpVars
<1>2. \A l \in Sinks : /\ sink'[l] = SinkTick(sink[l])
                       /\ SinkInv(SinkTick(sink[l])) /\ SinkDone(SinkTick(sink[l]))
  BY SinkTickKeeps DEF AcmpTick, SinksInv
<1>3. SinksInv'
  <2>1. sink' \in [Sinks -> SinkRecord]
    BY <1>2 DEF AcmpTick, SinkInv
  <2>. QED
    BY <1>2, <2>1 DEF SinksInv, SinkInv
<1>4. \A l \in Sinks : SinkDone(sink[l])'
  BY <1>1, <1>2 DEF SinkDone, Late
<1>5. /\ inflight' = inflight \ Unanswered
      /\ \A k \in ConnKeys :
           conn'[k] = IF conn[k] = "CONNECTING" /\ UnansweredOf(k, Connects)
                      THEN "FAILED"
                      ELSE IF conn[k] = "DISCONNECTING" /\ UnansweredOf(k, Disconnects)
                      THEN "DISCONNECTED" ELSE conn[k]
  BY DEF AcmpTick
<1>6. Unanswered' = {}
  BY <1>1, <1>5 DEF Unanswered
<1>7. TablesOK'
  BY <1>5 DEF TablesOK, ConnStates, AcmpTick
<1>8. DisconnectOpen'
  <2>1. ASSUME NEW k \in ConnKeys, conn'[k] = "DISCONNECTING"
        PROVE  \E f \in inflight' : f.id[1] \in Disconnects /\ f.id[3] = k
    <3>1. conn[k] = "DISCONNECTING" /\ ~UnansweredOf(k, Disconnects)
      BY <1>5, <2>1
    <3>2. PICK f \in inflight : f.id[1] \in Disconnects /\ f.id[3] = k
      BY <3>1 DEF DisconnectOpen
    <3>3. f \notin Unanswered
      BY <3>1, <3>2 DEF UnansweredOf
    <3>. QED
      BY <1>5, <3>2, <3>3
  <2>. QED
    BY <2>1 DEF DisconnectOpen
<1>9. AcmpDone'
  BY <1>4, <1>6 DEF AcmpDone
<1>. QED
  BY <1>3, <1>7, <1>8, <1>9
-----------------------------------------------------------------------------
(***************************************************************************)
(* The entities.                                                           *)
(***************************************************************************)

(* The announcement and the departure of an entity keep the shared set     *)
(* exact.                                                                  *)
LEMMA AdpMessageStep ==
    ASSUME AdpTypeOK, AvailabilityShared, NEW e \in Entities, NEW ts \in now .. MaxTime,
           \/ \E validTime \in ValidTimes : Available(e, validTime, ts)
           \/ Departing(e, ts)
    PROVE  AdpTypeOK' /\ AvailabilityShared'
<1>1. ts \in 0 .. MaxTime
  BY DEF AdpTypeOK
<1>2. now' = ts /\ due' = Modules
  BY DEF Available, Departing, Arrives
<1>3. ASSUME NEW validTime \in ValidTimes, Available(e, validTime, ts)
      PROVE  AdpTypeOK' /\ AvailabilityShared'
  <2>1. AdpTypeOK'
    BY <1>1, <1>2, <1>3 DEF AdpTypeOK, Available, Shared, EntityStates
  <2>2. AvailabilityShared'
    BY <1>3 DEF AdpTypeOK, AvailabilityShared, Available, Shared
  <2>. QED
    BY <2>1, <2>2
<1>4. CASE Departing(e, ts)
  <2>1. AdpTypeOK'
    BY <1>1, <1>2, <1>4 DEF AdpTypeOK, Departing, Shared, EntityStates
  <2>2. AvailabilityShared'
    BY <1>4 DEF AdpTypeOK, AvailabilityShared, Departing, Shared, EntityStates
  <2>. QED
    BY <2>1, <2>2
<1>. QED
  BY <1>3, <1>4

(* The tick of AdpLogic takes exactly the expired entities out of the      *)
(* shared set, and no other becomes available: the sinks that were done    *)
(* remain so.                                                              *)
LEMMA AdpTickStep ==
    ASSUME AdpTypeOK, AvailabilityShared, AdpTick
    PROVE  /\ AdpTypeOK' /\ AvailabilityShared' /\ AdpDone'
           /\ adpAvailable' \subseteq adpAvailable
<1>1. now' = now /\ due' = due \ {"atdecc_adp"}
  BY DEF AdpTick, Ticked
<1>2. \A e \in Entities :
        entity'[e] = IF Expired(e) THEN [entity[e] EXCEPT !.state = "TIMED_OUT"]
                     ELSE entity[e]
  BY DEF AdpTick
<1>3. AdpTypeOK'
  BY <1>1 DEF AdpTypeOK, AdpTick, EntityStates
<1>4. AvailabilityShared'
  BY <1>2 DEF AdpTypeOK, AvailabilityShared, AdpTick, Expired
<1>5. \A e \in Entities : ~Expired(e)'
  <2>. SUFFICES ASSUME NEW e \in Entities PROVE ~Expired(e)'
    OBVIOUS
  <2>1. CASE Expired(e)
    BY <1>2, <2>1 DEF AdpTypeOK, Expired
  <2>2. CASE ~Expired(e)
    BY <1>1, <1>2, <2>2 DEF Expired
  <2>. QED
    BY <2>1, <2>2
<1>. QED
  BY <1>3, <1>4, <1>5 DEF AdpDone, AdpTick
-----------------------------------------------------------------------------
(***************************************************************************)
(* The composition.                                                        *)
(***************************************************************************)

(* The invariant holds before the first packet.                            *)
LEMMA Starts == Init => Inv
<1>. SUFFICES ASSUME Init PROVE Inv
  OBVIOUS
<1>1. 0 \in Times
  BY AdpAssumption DEF Times
<1>2. AdpTypeOK /\ AvailabilityShared
  BY <1>1, AdpAssumption
     DEF Init, AdpInit, AdpTypeOK, AvailabilityShared, EntityStates, Times
<1>3. SinkInv(NewSink)
  BY <1>1 DEF SinkInv, SinkRecord, SinkStates, Settled, NewSink
<1>4. SinksInv
  BY <1>3 DEF Init, SinksInv, SinkInv
<1>5. SurroundOK /\ TablesOK /\ DisconnectOpen
  BY DEF Init, SurroundOK, TablesOK, DisconnectOpen, ConnStates
<1>6. \A l \in Sinks : SinkDone(sink[l])
  BY DEF Init, SinkDone, NewSink, Settled, Late
<1>7. AcmpDone /\ AdpDone
  BY <1>6 DEF Init, AdpInit, AcmpDone, AdpDone, Unanswered, Expired
<1>. QED
  BY <1>2, <1>4, <1>5, <1>7 DEF Inv

(* Nothing is asked of the modules while a packet has just arrived.        *)
LEMMA ArrivalDone ==
    ASSUME NEW ts, Arrives(ts)
    PROVE  AcmpDone' /\ AdpDone'
BY DEF Arrives, Modules, AcmpDone, AdpDone

(* Every packet and every tick keeps the invariant.                        *)
LEMMA Steps == Inv /\ [Next]_vars => Inv'
<1>. SUFFICES ASSUME Inv, [Next]_vars PROVE Inv'
  OBVIOUS
<1>1. /\ AdpTypeOK /\ SurroundOK /\ AvailabilityShared
      /\ SinksInv /\ TablesOK /\ DisconnectOpen /\ AcmpDone /\ AdpDone
  BY DEF Inv
<1>2. \A ts \in now .. MaxTime : ts \in Times
  BY <1>1 DEF AdpTypeOK, Times
<1>3. CASE AcmpDecode
  <2>1. PICK k \in traffic.talkers \X Sinks, seq \in SeqIds, ts \in now .. MaxTime :
           \/ ConnectTxCommand(k, seq, ts)
           \/ ConnectTxFailure(k, seq, ts)
           \/ \E stream \in StreamIds : ConnectTxSuccess(k, seq, stream, ts)
           \/ ConnectRxCommand(k, seq, ts)
           \/ ConnectRxSuccess(k, seq, ts)
           \/ ConnectRxFailure(k, seq, ts)
           \/ \E cmd \in Disconnects :
                \/ DisconnectCommand(cmd, k, seq, ts)
                \/ \E ok \in BOOLEAN : DisconnectResponse(cmd, ok, k, seq, ts)
           \/ \E answer \in BOOLEAN : StateQuery(answer, k, seq, ts)
    BY <1>3, ZenonT(60) DEF AcmpDecode
  <2>2. k \in ConnKeys /\ ts \in Times
    BY <1>1, <1>2, AcmpAssumption DEF SurroundOK, ConnKeys
  <2>3. SinksInv' /\ TablesOK' /\ DisconnectOpen'
    BY <1>1, <2>1, <2>2, MessageStep
  <2>4. Arrives(ts)
    BY <2>1 DEF ConnectTxCommand, ConnectTxFailure, ConnectTxSuccess,
       ConnectRxCommand, ConnectRxSuccess, ConnectRxFailure, DisconnectCommand,
       DisconnectResponse, StateQuery
  <2>5. UNCHANGED <<entity, adpAvailable, traffic, msrpTalkerDecl>>
    BY <1>3 DEF AcmpDecode, adpVars
  <2>6. AdpTypeOK' /\ AvailabilityShared'
    BY <1>1, <1>2, <2>4, <2>5 DEF AdpTypeOK, AvailabilityShared, Arrives, Times
  <2>7. SurroundOK'
    BY <1>1, <2>5 DEF SurroundOK
  <2>. QED
    BY <2>3, <2>4, <2>6, <2>7, ArrivalDone DEF Inv
<1>4. CASE AdpDecode
  <2>1. PICK e \in traffic.talkers, ts \in now .. MaxTime :
           \/ \E validTime \in ValidTimes : Available(e, validTime, ts)
           \/ Departing(e, ts)
    BY <1>4 DEF AdpDecode
  <2>2. e \in Entities
    BY <1>1, AcmpAssumption DEF SurroundOK
  <2>3. AdpTypeOK' /\ AvailabilityShared'
    BY <1>1, <2>1, <2>2, AdpMessageStep
  <2>4. Arrives(ts)
    BY <2>1 DEF Available, Departing
  <2>5. UNCHANGED <<traffic, msrpTalkerDecl, inflight, conn, sink>>
    BY <1>4 DEF AdpDecode, acmpVars
  <2>6. SurroundOK' /\ SinksInv' /\ TablesOK' /\ DisconnectOpen'
    BY <1>1, <2>5 DEF SurroundOK, SinksInv, SinkInv, TablesOK, DisconnectOpen
  <2>. QED
    BY <2>3, <2>4, <2>6, ArrivalDone DEF Inv
<1>5. CASE OtherDecode
  <2>1. PICK ts \in now .. MaxTime : Arrives(ts)
    BY <1>5 DEF OtherDecode
  <2>2. UNCHANGED <<entity, adpAvailable, traffic, inflight, conn, sink>>
    BY <1>5 DEF OtherDecode, adpVars, acmpVars
  <2>3. AdpTypeOK' /\ AvailabilityShared'
    BY <1>1, <1>2, <2>1, <2>2 DEF AdpTypeOK, AvailabilityShared, Arrives, Times
  <2>4. SurroundOK' /\ SinksInv' /\ TablesOK' /\ DisconnectOpen'
    BY <1>1, <1>5, <2>2
       DEF OtherDecode, SurroundOK, SinksInv, SinkInv, TablesOK, DisconnectOpen
  <2>. QED
    BY <2>1, <2>3, <2>4, ArrivalDone DEF Inv
<1>6. CASE AdpTick /\ UNCHANGED <<traffic, msrpTalkerDecl, acmpVars>>
  <2>1. /\ AdpTypeOK' /\ AvailabilityShared' /\ AdpDone'
        /\ adpAvailable' \subseteq adpAvailable
    BY <1>1, <1>6, AdpTickStep
  <2>2. UNCHANGED <<traffic, msrpTalkerDecl, inflight, conn, sink>>
    BY <1>6 DEF acmpVars
  <2>3. SurroundOK' /\ SinksInv' /\ TablesOK' /\ DisconnectOpen'
    BY <1>1, <2>2 DEF SurroundOK, SinksInv, SinkInv, TablesOK, DisconnectOpen
  <2>4. now' = now /\ due' = due \ {"atdecc_adp"}
    BY <1>6 DEF AdpTick, Ticked
  <2>5. AcmpDone'
    BY <1>1, <2>1, <2>2, <2>4 DEF AcmpDone, SinkDone, Unanswered, Late
  <2>. QED
    BY <2>1, <2>3, <2>5 DEF Inv
<1>7. CASE AcmpTick /\ UNCHANGED <<adpVars, traffic, msrpTalkerDecl>>
  <2>1. SinksInv' /\ TablesOK' /\ DisconnectOpen' /\ AcmpDone'
    BY <1>1, <1>7, AcmpTickStep
  <2>2. /\ UNCHANGED <<entity, adpAvailable, traffic, msrpTalkerDecl, now>>
        /\ due' = due \ {"atdecc_acmp"}
    BY <1>7 DEF AcmpTick, Ticked, adpVars
  <2>3. AdpTypeOK' /\ AvailabilityShared' /\ SurroundOK'
    BY <1>1, <2>2 DEF AdpTypeOK, AvailabilityShared, SurroundOK
  <2>4. AdpDone'
    BY <1>1, <2>2 DEF AdpDone, Expired
  <2>. QED
    BY <2>1, <2>3, <2>4 DEF Inv
<1>8. CASE UNCHANGED vars
  BY <1>1, <1>8 DEF Inv, vars, adpVars, acmpVars, AdpTypeOK, SurroundOK,
     AvailabilityShared, SinksInv, SinkInv, TablesOK, DisconnectOpen, AcmpDone,
     AdpDone, SinkDone, Late, Unanswered, Expired
<1>. QED
  BY <1>3, <1>4, <1>5, <1>6, <1>7, <1>8 DEF Next, Tick

(* The inductive invariant. *)
LEMMA Invariance == Spec => []Inv
BY Starts, Steps, PTL DEF Spec

(* The state stays well typed, for any talkers, sinks and timers.          *)
THEOREM TypeCorrect == Spec => []TypeOK
<1>1. Inv => TypeOK
  BY DEF Inv, SurroundOK, SinksInv, TablesOK, TypeOK
<1>. QED
  BY <1>1, Invariance, PTL

(* What the modules share about availability is what ADP holds.            *)
THEOREM SharedExactly == Spec => []AvailabilityShared
<1>1. Inv => AvailabilityShared
  BY DEF Inv
<1>. QED
  BY <1>1, Invariance, PTL

(* No sink waits, at the end of a packet, for a talker that is available,  *)
(* in whatever order the modules are ticked.                               *)
THEOREM DiscoveriesNoticed == Spec => []NoDiscoveryMissed
<1>1. Inv => NoDiscoveryMissed
  BY DEF Inv, AcmpDone, SinkDone, NoDiscoveryMissed
<1>. QED
  BY <1>1, Invariance, PTL

(* Settled sinks agree with the registered talker attributes.              *)
THEOREM ReservationsFollowed == Spec => []SettledAsRegistered
<1>1. Inv => SettledAsRegistered
  BY DEF Inv, AcmpDone, SinkDone, SettledAsRegistered
<1>. QED
  BY <1>1, Invariance, PTL

(* No timer of a sink, no command and no validity is overrun.              *)
THEOREM TimersNoticed == Spec => []NoTimerOverrun
<1>1. Inv => NoTimerOverrun
  BY DEF Inv, AcmpDone, AdpDone, SinkDone, NoTimerOverrun
<1>. QED
  BY <1>1, Invariance, PTL

(* No connection is left DISCONNECTING without an open command.            *)
THEOREM DisconnectsEnd == Spec => []DisconnectOpen
<1>1. Inv => DisconnectOpen
  BY DEF Inv
<1>. QED
  BY <1>1, Invariance, PTL
=============================================================================
