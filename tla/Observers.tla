----------------------------- MODULE Observers ------------------------------
(***************************************************************************)
(* The analyzers that watch the control traffic of a network: gPTP, AECP   *)
(* and MAAP, and the check that ADP makes of the grandmaster an entity     *)
(* advertises (backend/src/logic/adp_logic.cpp) against the one gPTP has   *)
(* seen.  A capture holds some of the messages.                            *)
(***************************************************************************)
EXTENDS Gptp, Aecp, Maap

CONSTANTS Entities,
          Traffics   \* the captures: messages, ports (and which of them ask
                     \* for the delay), domains, the values that occur in
                     \* them, and their end

VARIABLES traffic,
          advert     \* of mEntities: the grandmaster and domain advertised

vars == <<clockVars, gptpVars, aecpVars, claim, traffic, advert>>

ASSUME ObserversAssumption ==
    \A c \in Traffics :
        /\ c.ports \subseteq Ports /\ c.askers \subseteq c.ports
        /\ c.domains \subseteq Domains
        /\ c.gms \subseteq GmIds /\ c.qualities \subseteq Qualities
        /\ c.intervals \subseteq Intervals /\ c.end \in Nat
        /\ c.seqs \subseteq SeqIds /\ c.steps \subseteq Nat

NotAdvertised == [gmId |-> 0, gptpDomain |-> 0, gmMismatch |-> FALSE]

Init ==
    /\ ClockInit /\ GptpInit /\ AecpInit /\ MaapInit
    /\ traffic \in Traffics
    /\ advert = [e \in Entities |-> NotAdvertised]
-----------------------------------------------------------------------------
(* What ADP reads of a domain: the grandmaster seen in it, 0 for none. *)
Observed(dom) == gptpDomains[dom].gm

(* checkGmAgainstObserved *)
Checked(a) ==
    IF a.gmId = 0 \/ Observed(a.gptpDomain) = 0 THEN a
    ELSE [a EXCEPT !.gmMismatch = a.gmId # Observed(a.gptpDomain)]

(* gmInSync(): what /state says of an entity. *)
GmInSync(a) ==
    IF a.gmId = 0 \/ Observed(a.gptpDomain) = 0 THEN "UNKNOWN"
    ELSE IF a.gmId = Observed(a.gptpDomain) THEN "MATCH" ELSE "MISMATCH"

(* ENTITY_AVAILABLE, as far as the clock goes. *)
Advertises(e, gm, dom) ==
    advert' = [advert EXCEPT ![e] = Checked([@ EXCEPT !.gmId = gm, !.gptpDomain = dom])]
-----------------------------------------------------------------------------
(* The next packet of the capture, if it holds such messages. *)
Packet(message, ts) ==
    /\ message \in traffic.messages
    /\ ts =< traffic.end
    /\ Arrives(ts)
    /\ UNCHANGED traffic

GptpOnly == UNCHANGED <<aecpVars, claim, advert>>
AecpOnly == UNCHANGED <<gptpVars, claim, advert>>
MaapOnly == UNCHANGED <<gptpVars, aecpVars, advert>>

Sync(ts) ==
    /\ Packet("SYNC", ts)
    /\ \E p \in traffic.ports, dom \in traffic.domains, seq \in traffic.seqs,
          interval \in traffic.intervals, twoStep \in BOOLEAN :
          /\ twoStep => "FOLLOW_UP" \in traffic.messages
          /\ OnSync(p, dom, seq, interval, twoStep, ts)
    /\ GptpOnly

FollowUp(ts) ==
    /\ Packet("FOLLOW_UP", ts)
    /\ \E p \in traffic.ports, dom \in traffic.domains, seq \in traffic.seqs :
          OnFollowUp(p, dom, seq)
    /\ GptpOnly

Announce(ts) ==
    /\ Packet("ANNOUNCE", ts)
    /\ \E p \in traffic.ports, dom \in traffic.domains, quality \in traffic.qualities,
          gm \in traffic.gms, steps \in traffic.steps, interval \in traffic.intervals :
          OnAnnounce(p, dom, quality, gm, steps, interval, ts)
    /\ GptpOnly

Signaling(ts) ==
    /\ Packet("SIGNALING", ts)
    /\ \E p \in traffic.ports, dom \in traffic.domains, cmlds, capable \in BOOLEAN,
          interval \in traffic.intervals :
          OnSignaling(p, dom, cmlds, capable, interval, ts)
    /\ GptpOnly

PdelayReq(ts) ==
    /\ Packet("PDELAY", ts)
    /\ \E p \in traffic.askers, dom \in traffic.domains, cmlds \in BOOLEAN,
          seq \in traffic.seqs, interval \in traffic.intervals :
          OnPdelayReq(p, dom, cmlds, seq, interval, ts)
    /\ GptpOnly

PdelayResp(ts) ==
    /\ Packet("PDELAY", ts)
    /\ \E p, q \in traffic.ports, dom \in traffic.domains, cmlds \in BOOLEAN,
          seq \in traffic.seqs :
          OnPdelayResp(p, dom, cmlds, q, seq)
    /\ GptpOnly

PdelayRespFollowUp(ts) ==
    /\ Packet("PDELAY", ts)
    /\ \E p, q \in traffic.ports, dom \in traffic.domains, cmlds \in BOOLEAN,
          seq \in traffic.seqs :
          OnPdelayRespFu(p, dom, cmlds, q, seq)
    /\ GptpOnly

Adp(ts) ==
    /\ Packet("ADP", ts)
    /\ \E e \in Entities, gm \in traffic.gms \cup {0}, dom \in traffic.domains :
          Advertises(e, gm, dom)
    /\ UNCHANGED <<gptpVars, aecpVars, claim>>

AemCommands(ts) ==
    /\ Packet("AECP", ts)
    /\ \E k \in Pairs, seq \in AecpSeqIds : AemCommand(k, seq, ts)
    /\ AecpOnly

AemResponses(ts) ==
    /\ Packet("AECP", ts)
    /\ \E k \in Pairs, seq \in AecpSeqIds, e \in Targets, name \in Names :
          \/ AemResponse(k, seq, e, name, ts)
          \/ Unsolicited(k, e, name)
    /\ AecpOnly

Maap(ts) ==
    /\ Packet("MAAP", ts)
    /\ \E c \in Claimants, range \in Ranges :
          \/ MaapProbe(c, range)
          \/ MaapAnnounce(c, range)
          \/ MaapDefend(c, range)
          \/ MaapReserved(c, range)
    /\ MaapOnly

(* A packet for none of these analyzers. *)
Other(ts) == Packet("OTHER", ts) /\ UNCHANGED <<gptpVars, aecpVars, claim, advert>>

Tick == /\ Ticks
        /\ GptpTick
        /\ AecpTick
        /\ UNCHANGED <<claim, traffic, advert>>

Next == \/ Tick
        \/ \E ts \in now .. traffic.end :
              \/ Sync(ts) \/ FollowUp(ts) \/ Announce(ts) \/ Signaling(ts)
              \/ PdelayReq(ts) \/ PdelayResp(ts) \/ PdelayRespFollowUp(ts)
              \/ Adp(ts) \/ AemCommands(ts) \/ AemResponses(ts) \/ Maap(ts)
              \/ Other(ts)

Spec == Init /\ [][Next]_vars
-----------------------------------------------------------------------------
(* The state holds what its types say. *)
TypeOK ==
    /\ GptpTypeOK /\ AecpTypeOK /\ MaapTypeOK
    /\ traffic \in Traffics
    /\ advert \in [Entities -> [gmId : GmIds \cup {0}, gptpDomain : Domains,
                                gmMismatch : BOOLEAN]]

(* Between packets, what ADP and MSRP read of a domain is what the wire    *)
(* says: Sync is healthy as long as the last one is not older than three   *)
(* of its intervals, the grandmaster is present as long as the last        *)
(* Announce is not, and the identity shared is the one known of the domain *)
(* (publish(), called from each transition, and the receipt timeouts).     *)
ClockTruth ==
    ~due => \A dom \in Domains :
      LET d == domain[dom]
          truth == gptpDomains[dom]
      IN  /\ truth.sync = "UNKNOWN" <=> d.lastSync = Never
          /\ truth.sync = "HEALTHY" <=>
                /\ d.lastSync # Never
                /\ now =< d.lastSync + SyncReceiptTimeoutN * d.syncInterval
          /\ truth.gm = d.gmId
          /\ d.gmState = "GM_PRESENT" <=>
                /\ d.lastAnnounce # Never
                /\ now =< d.lastAnnounce + AnnounceReceiptTimeoutN * d.announceInterval

(* The announcements of a domain that are still valid, each by its own     *)
(* interval.                                                               *)
Valid(dom) == {v \in UNION {announced[<<dom, p>>] : p \in Ports} :
                 now =< v.lastTs + AnnounceReceiptTimeoutN * v.interval + AnnounceSlack}

(* Between packets, the comparison of the clocks (/state "bmca") rests on  *)
(* the valid announcements and no other: the expected grandmaster is the   *)
(* best of them, the driving one is what the Sync sender itself announced  *)
(* last (never one of an earlier sender), and an inversion is told only if *)
(* a valid announcement outranks the one of the sender in quality.         *)
BmcaTruth ==
    ~due => \A dom \in Domains :
      LET d == domain[dom]
          ofSender == {v \in Valid(dom) : v.src = d.syncSender}
      IN  /\ d.expected = Best(Valid(dom))
          /\ d.syncSenderGm # 0 =>
                \E v \in announced[<<dom, d.syncSender>>] : v.gm = d.syncSenderGm
          /\ \A v \in ofSender : d.syncSenderGm = v.gm
          /\ BmcaState(d) = "PRIORITY_INVERSION" =>
                \E v \in Valid(dom), w \in ofSender : v.quality < w.quality
          /\ BmcaState(d) = "TIEBREAK" =>
                \E v \in Valid(dom), w \in ofSender : v.quality = w.quality /\ v.gm < w.gm

(* Every Pdelay_Req of a port is complete, lost, or in the open exchange,  *)
(* whatever answers are lost, late, repeated or of another sequence id;    *)
(* the state shown for the requester is the one of that exchange, and a    *)
(* port is not capable only while enough requests in a row were lost.      *)
PdelayAccounted ==
    \A p \in Ports :
      LET s == port[p]
      IN  /\ s.initiated = s.complete + s.lost + Cardinality(Open(p))
          /\ \A e \in Open(p) :
                /\ s.mdReqState = IF e.haveResp THEN "WAITING_FOR_PDELAY_RESP_FOLLOW_UP"
                                  ELSE "WAITING_FOR_PDELAY_RESP"
                /\ due \/ ~Overdue(e)
          /\ Open(p) = {} => s.mdReqState \in {"NOT_ENABLED", "RESET",
                                               "WAITING_FOR_PDELAY_INTERVAL_TIMER"}
          /\ s.mdReqState = "RESET" => s.consecutiveLost > 0
          /\ s.asCapable = "NOT_AS_CAPABLE" <=> s.consecutiveLost >= AllowedLostResponses
          /\ s.asCapable = "AS_CAPABLE" => s.complete > 0

(* Every AECP command of a pair was answered, timed out or replaced by one *)
(* of the same sequence id, exactly one of them, or is in flight; and none *)
(* is in flight past its 250 ms once the packet that showed it is over.    *)
CommandsAccounted ==
    \A k \in Pairs :
      LET mine == {f \in aemInflight : f.key[1] = k}
      IN  /\ pair[k].commands = pair[k].timeouts + fate[k].answered + fate[k].replaced
                                   + Cardinality(mine)
          /\ fate[k].answered =< pair[k].responses
          /\ \A f \in mine : due \/ now =< f.sentTs + AemTimeout

(* What the counters of the analyzers leave unexplained: nothing. *)
Accounted == PdelayAccounted /\ CommandsAccounted
=============================================================================
