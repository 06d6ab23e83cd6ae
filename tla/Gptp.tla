-------------------------------- MODULE Gptp --------------------------------
(***************************************************************************)
(* The gPTP observer (backend/src/logic/gptp_logic.cpp): grandmaster and   *)
(* Sync of every domain, the comparison of the announced priority vectors, *)
(* and role, announcements, capability and pdelay exchanges of every port. *)
(* A port is its portKey: two port identities whose clock identities agree *)
(* but for the top 16 bits are one port, as they are in the code.  What is *)
(* only displayed (attributes of the grandmaster, rate offset, turnaround, *)
(* path trace, histories) is left out.                                     *)
(***************************************************************************)
EXTENDS PacketTime, FiniteSetsExt

CONSTANTS Domains,     \* domain numbers; 0 is the one a port starts with
          Ports,       \* port keys, ordered
          GmIds,       \* grandmaster identities, ordered; 0 is none
          Qualities,   \* the part of a priority vector before the identity
          SeqIds,
          Intervals,   \* message intervals
          SyncReceiptTimeoutN, AnnounceReceiptTimeoutN, GptpCapableTimeoutN,
          AllowedLostResponses,
          AnnounceSlack,  \* 0.5 s
          MinExchange,    \* 1 s
          PendingCap,     \* 64
          MaxRequests     \* bound on the Pdelay_Req of a port

VARIABLES domain,       \* mDomains
          port,         \* mPorts
          exchanges,    \* mExchanges
          gptpDomains,  \* SharedModel::gptpDomains
          announced     \* history: what each port announced last in a domain

gptpVars == <<domain, port, exchanges, gptpDomains, announced>>

ASSUME GptpAssumption ==
    /\ 0 \in Domains
    /\ Ports \subseteq Nat \ {0} /\ GmIds \subseteq Nat \ {0}
    /\ Qualities \subseteq Nat /\ SeqIds \subseteq Nat
    /\ Intervals \subseteq Nat \ {0}
    /\ SyncReceiptTimeoutN \in Nat /\ AnnounceReceiptTimeoutN \in Nat
    /\ GptpCapableTimeoutN \in Nat /\ AllowedLostResponses \in Nat \ {0}
    /\ AnnounceSlack \in Nat /\ MinExchange \in Nat \ {0}
    /\ PendingCap \in Nat \ {0} /\ MaxRequests \in Nat

Unqualified == 255   \* a stepsRemoved that disqualifies an announcement

(* The message priority vector of an announcer, and when it was refreshed. *)
Vectors == [src : Ports, quality : Qualities, gm : GmIds, lastTs : Nat,
            interval : Intervals]

NewDomain ==
    [gmState |-> "NO_GM", syncState |-> "UNKNOWN", gmId |-> 0,
     lastAnnounce |-> Never, announceInterval |-> 1,
     lastSync |-> Never, syncInterval |-> 1,
     syncSender |-> 0, pendingSyncs |-> {}, announcers |-> {},
     expected |-> {}, syncVec |-> {}, syncSenderGm |-> 0]

(* mPorts has an entry for a port that was seen.                           *)
NewPort ==
    [seen |-> FALSE, domain |-> 0, role |-> "UNKNOWN",
     lastSyncSentTs |-> Never, mdSyncSendState |-> "NOT_ENABLED", pendingFuSeq |-> 0,
     announceState |-> "NONE", lastAnnounceTs |-> Never, announceInterval |-> 1,
     gptpCapable |-> "UNKNOWN", lastCapableTs |-> Never, capableInterval |-> 1,
     asCapable |-> "UNKNOWN", mdReqState |-> "NOT_ENABLED",
     mdRespState |-> "NOT_ENABLED", reqInterval |-> 1,
     initiated |-> 0, complete |-> 0, lost |-> 0, consecutiveLost |-> 0]

GptpInit ==
    /\ domain = [d \in Domains |-> NewDomain]
    /\ port = [p \in Ports |-> NewPort]
    /\ exchanges = {}
    /\ gptpDomains = [d \in Domains |-> [gm |-> 0, sync |-> "UNKNOWN"]]
    /\ announced = [k \in Domains \X Ports |-> {}]
-----------------------------------------------------------------------------
(* publish(): what the other modules know of a domain. *)
Published(truth, d) ==
    [gm |-> IF d.gmId = 0 THEN truth.gm ELSE d.gmId,
     sync |-> IF d.syncState = "UNKNOWN" THEN truth.sync ELSE d.syncState]

Publish(dom) == gptpDomains' = [gptpDomains EXCEPT ![dom] = Published(@, domain'[dom])]

(* The order of vectors: quality, grandmaster identity, sending port. *)
Better(v, w) ==
    \/ v.quality < w.quality
    \/ v.quality = w.quality /\ v.gm < w.gm
    \/ v.quality = w.quality /\ v.gm = w.gm /\ v.src < w.src

Best(vectors) == {v \in vectors : \A w \in vectors \ {v} : Better(v, w)}

(* Mutant: every announcer is aged by the domain's interval. *)
AgedByDomain(d, ts) ==
    {v \in d.announcers : ts =< v.lastTs + AnnounceReceiptTimeoutN * d.announceInterval
                                         + AnnounceSlack}

(* An announcer ages out by its own interval. *)
Unaged(d, ts) ==
    {v \in d.announcers : ts =< v.lastTs + AnnounceReceiptTimeoutN * v.interval
                                         + AnnounceSlack}

(* Mutant: the vector of the Sync sender outlives its announcement. *)
EvalKeepsVec(d, ts) ==
    LET live == Unaged(d, ts)
        fresh == {v \in live : v.src = d.syncSender}
    IN  [d EXCEPT !.announcers = live,
                  !.expected = Best(live),
                  !.syncVec = IF fresh = {} THEN @ ELSE fresh]

(* The best announced vector, and the one of the Sync sender. *)
EvalBmca(d, ts) ==
    LET live == Unaged(d, ts)
    IN  [d EXCEPT !.announcers = live,
                  !.expected = Best(live),
                  !.syncVec = {v \in live : v.src = d.syncSender}]

(* bmcaState(): what /state says about the domain. *)
BmcaState(d) ==
    IF d.expected = {} \/ d.syncSenderGm = 0 THEN "UNKNOWN"
    ELSE IF \E v \in d.expected : v.gm = d.syncSenderGm THEN "CONVERGED"
    ELSE IF d.syncVec = {} THEN "UNKNOWN"
    ELSE IF \E v \in d.expected, w \in d.syncVec : v.quality = w.quality
         THEN "TIEBREAK" ELSE "PRIORITY_INVERSION"
-----------------------------------------------------------------------------
(* A message of port p: getPort(), and its domain unless it is of the      *)
(* common link delay service.                                              *)
Heard(p, dom, cmlds) ==
    [port EXCEPT ![p].seen = TRUE, ![p].domain = IF cmlds THEN @ ELSE dom]

(* becomeMaster(): the sender, and the ports of its domain that only ask   *)
(* for the delay.                                                          *)
BecomeMaster(ports, p, dom) ==
    [q \in Ports |->
       IF q = p THEN [ports[q] EXCEPT !.role = "MASTER"]
       ELSE IF /\ ports[q].seen /\ ports[q].domain = dom
               /\ ports[q].role = "UNKNOWN"
               /\ ports[q].lastSyncSentTs = Never
               /\ ports[q].lastAnnounceTs = Never
            THEN [ports[q] EXCEPT !.role = "SLAVE"]
       ELSE ports[q]]

(* Masters of the domain that went silent are demoted. *)
Demote(ports, p, dom, ts, interval) ==
    [q \in Ports |->
       IF /\ q # p /\ ports[q].domain = dom /\ ports[q].role = "MASTER"
          /\ ports[q].lastSyncSentTs # Never
          /\ ts > ports[q].lastSyncSentTs + SyncReceiptTimeoutN * interval
       THEN [ports[q] EXCEPT !.role = "SLAVE"]
       ELSE ports[q]]

(* A two-step Sync waits for its Follow_Up; over the cap, the entry with   *)
(* the smallest sequence id is dropped.                                    *)
Pending(seqs, seq) ==
    LET more == seqs \cup {seq}
    IN  IF Cardinality(more) > PendingCap THEN more \ {Min(more)} ELSE more

(* Mutant: without an announcement of the new sender, the grandmaster of   *)
(* the sender before stays.                                                *)
KeepDriving(d, p) ==
    IF \E v \in d.announcers : v.src = p
    THEN (CHOOSE v \in d.announcers : v.src = p).gm ELSE d.syncSenderGm

(* The grandmaster that port p announces, if it does. *)
DrivingOf(d, p) ==
    IF \E v \in d.announcers : v.src = p
    THEN (CHOOSE v \in d.announcers : v.src = p).gm ELSE 0

SyncedDomain(d, p, seq, interval, twoStep, ts) ==
    LET pending == IF d.syncSender = p THEN d.pendingSyncs ELSE {}
    IN  [d EXCEPT !.lastSync = ts, !.syncInterval = interval,
                  !.syncSender = p,
                  !.pendingSyncs = IF twoStep THEN Pending(pending, seq) ELSE pending,
                  !.syncState = "HEALTHY",
                  !.syncSenderGm = DrivingOf(d, p)]

SyncSent(s, seq, twoStep, ts) ==
    [s EXCEPT !.lastSyncSentTs = ts,
              !.pendingFuSeq = IF twoStep THEN seq ELSE @,
              !.mdSyncSendState = IF twoStep \/ @ = "FOLLOW_UP_PENDING"
                                  THEN "FOLLOW_UP_PENDING" ELSE "IDLE"]

OnSync(p, dom, seq, interval, twoStep, ts) ==
    /\ domain' = [domain EXCEPT
                    ![dom] = EvalBmca(SyncedDomain(@, p, seq, interval, twoStep, ts), ts)]
    /\ port' = LET sent == [Heard(p, dom, FALSE) EXCEPT ![p] = SyncSent(@, seq, twoStep, ts)]
               IN  Demote(BecomeMaster(sent, p, dom), p, dom, ts, interval)
    /\ Publish(dom)
    /\ UNCHANGED <<exchanges, announced>>

OnFollowUp(p, dom, seq) ==
    /\ port' = [Heard(p, dom, FALSE) EXCEPT
                  ![p].mdSyncSendState =
                      IF @ = "FOLLOW_UP_PENDING" /\ port[p].pendingFuSeq = seq
                      THEN "IDLE" ELSE @]
    /\ domain' = [domain EXCEPT ![dom].pendingSyncs = @ \ {seq}]
    /\ UNCHANGED <<exchanges, gptpDomains, announced>>

AnnouncedDomain(d, p, quality, gm, steps, interval, ts) ==
    LET vec == [src |-> p, quality |-> quality, gm |-> gm, lastTs |-> ts,
                interval |-> interval]
    IN  [d EXCEPT
           !.lastAnnounce = ts, !.announceInterval = interval,
           !.gmState = "GM_PRESENT", !.gmId = gm,
           !.announcers = {v \in @ : v.src # p}
                              \cup IF steps < Unqualified THEN {vec} ELSE {},
           !.syncSenderGm = IF p # d.syncSender THEN @
                            ELSE IF steps < Unqualified THEN gm ELSE 0]

OnAnnounce(p, dom, quality, gm, steps, interval, ts) ==
    /\ domain' = [domain EXCEPT
                    ![dom] = EvalBmca(AnnouncedDomain(@, p, quality, gm, steps, interval, ts), ts)]
    /\ port' = [BecomeMaster(Heard(p, dom, FALSE), p, dom) EXCEPT
                  ![p].lastAnnounceTs = ts, ![p].announceInterval = interval,
                  ![p].announceState = "RECEIVED"]
    /\ announced' = [announced EXCEPT
                       ![<<dom, p>>] =
                         IF steps < Unqualified
                         THEN {[src |-> p, quality |-> quality, gm |-> gm,
                                lastTs |-> ts, interval |-> interval]} ELSE {}]
    /\ Publish(dom)
    /\ UNCHANGED exchanges

(* A Signaling message, with a gPTP-capable TLV or with another. *)
OnSignaling(p, dom, cmlds, capable, interval, ts) ==
    /\ port' = LET heard == Heard(p, dom, cmlds)
               IN  IF capable
                   THEN [heard EXCEPT ![p].gptpCapable = "GPTP_CAPABLE",
                                      ![p].lastCapableTs = ts,
                                      ![p].capableInterval = interval]
                   ELSE heard
    /\ UNCHANGED <<domain, exchanges, gptpDomains, announced>>
-----------------------------------------------------------------------------
(* Mutant: a port that lost too many responses keeps what it was. *)
LostUnnoticed(s) ==
    [s EXCEPT !.lost = @ + 1, !.consecutiveLost = @ + 1, !.mdReqState = "RESET"]

(* pdelayLost(): the exchange of a port got no (complete) answer. *)
PdelayLost(s) ==
    [s EXCEPT !.lost = @ + 1,
              !.consecutiveLost = @ + 1,
              !.mdReqState = "RESET",
              !.asCapable = IF s.consecutiveLost + 1 >= AllowedLostResponses
                            THEN "NOT_AS_CAPABLE" ELSE @]

Open(p) == {e \in exchanges : e.req = p}

OnPdelayReq(p, dom, cmlds, seq, interval, ts) ==
    /\ port[p].initiated < MaxRequests
    /\ port' = LET s == Heard(p, dom, cmlds)[p]
                   missed == IF Open(p) = {} THEN s ELSE PdelayLost(s)
               IN  [port EXCEPT ![p] =
                      [missed EXCEPT !.initiated = @ + 1, !.reqInterval = interval,
                                     !.mdReqState = "WAITING_FOR_PDELAY_RESP"]]
    /\ exchanges' = (exchanges \ Open(p))
                       \cup {[req |-> p, seq |-> seq, reqTs |-> ts, haveResp |-> FALSE]}
    /\ UNCHANGED <<domain, gptpDomains, announced>>

(* Port p answers port q. *)
OnPdelayResp(p, dom, cmlds, q, seq) ==
    LET answers == {e \in Open(q) : e.seq = seq}
        heard == [Heard(p, dom, cmlds) EXCEPT
                    ![p].mdRespState = "SENT_PDELAY_RESP_WAITING_FOR_TIMESTAMP"]
    IN  /\ port' = IF answers = {} THEN heard
                   ELSE [heard EXCEPT ![q].mdReqState = "WAITING_FOR_PDELAY_RESP_FOLLOW_UP"]
        /\ exchanges' = (exchanges \ answers)
                           \cup {[e EXCEPT !.haveResp = TRUE] : e \in answers}
        /\ UNCHANGED <<domain, gptpDomains, announced>>

Completed(s) ==
    [s EXCEPT !.mdReqState = "WAITING_FOR_PDELAY_INTERVAL_TIMER",
              !.complete = @ + 1, !.consecutiveLost = 0,
              !.asCapable = "AS_CAPABLE"]

OnPdelayRespFu(p, dom, cmlds, q, seq) ==
    LET answers == {e \in Open(q) : e.seq = seq /\ e.haveResp}
        heard == [Heard(p, dom, cmlds) EXCEPT ![p].mdRespState = "WAITING_FOR_PDELAY_REQ"]
    IN  /\ port' = IF answers = {} THEN heard
                   ELSE [heard EXCEPT ![q] = Completed(@)]
        /\ exchanges' = exchanges \ answers
        /\ UNCHANGED <<domain, gptpDomains, announced>>
-----------------------------------------------------------------------------
(***************************************************************************)
(* onTimeTick                                                              *)
(***************************************************************************)
SyncMissed(d) == /\ d.syncState = "HEALTHY"
                 /\ now > d.lastSync + SyncReceiptTimeoutN * d.syncInterval

GmMissed(d) == /\ d.gmState = "GM_PRESENT"
               /\ now > d.lastAnnounce + AnnounceReceiptTimeoutN * d.announceInterval

TickedDomain(d) ==
    LET after == [d EXCEPT !.syncState = IF SyncMissed(d) THEN "LOST" ELSE @,
                           !.gmState = IF GmMissed(d) THEN "GM_TIMED_OUT" ELSE @]
    IN  EvalBmca(after, now)

(* Mutant: the loss of Sync is not shared. *)
KeepTruth(dom) == gptpDomains[dom]

(* A transition of the domain is published. *)
TickedTruth(dom) ==
    IF SyncMissed(domain[dom]) \/ GmMissed(domain[dom])
    THEN Published(gptpDomains[dom], TickedDomain(domain[dom]))
    ELSE gptpDomains[dom]

AgedPort(s) ==
    [s EXCEPT
       !.announceState =
          IF @ = "RECEIVED" /\ now > s.lastAnnounceTs
                                      + AnnounceReceiptTimeoutN * s.announceInterval
                                      + AnnounceSlack
          THEN "AGED" ELSE @,
       !.gptpCapable =
          IF @ = "GPTP_CAPABLE" /\ now > s.lastCapableTs
                                          + GptpCapableTimeoutN * s.capableInterval
          THEN "CAPABLE_TIMED_OUT" ELSE @]

Larger(a, b) == IF a > b THEN a ELSE b

Overdue(e) == now > e.reqTs + Larger(port[e.req].reqInterval, MinExchange)

GptpTick ==
    /\ domain' = [d \in Domains |-> TickedDomain(domain[d])]
    /\ gptpDomains' = [d \in Domains |-> TickedTruth(d)]
    /\ port' = [p \in Ports |->
                  IF \E e \in Open(p) : Overdue(e) THEN PdelayLost(AgedPort(port[p]))
                  ELSE AgedPort(port[p])]
    /\ exchanges' = {e \in exchanges : ~Overdue(e)}
    /\ UNCHANGED announced
-----------------------------------------------------------------------------
(* The values of the state.                                                *)
DomainTypes ==
    [gmState : {"NO_GM", "GM_PRESENT", "GM_TIMED_OUT"},
     syncState : {"UNKNOWN", "HEALTHY", "LOST"},
     gmId : GmIds \cup {0}, syncSenderGm : GmIds \cup {0},
     lastAnnounce : Nat \cup {Never}, announceInterval : Intervals \cup {1},
     lastSync : Nat \cup {Never}, syncInterval : Intervals \cup {1},
     syncSender : Ports \cup {0}, pendingSyncs : SUBSET SeqIds,
     announcers : SUBSET Vectors, expected : SUBSET Vectors, syncVec : SUBSET Vectors]

PortTypes ==
    [seen : BOOLEAN, domain : Domains, role : {"UNKNOWN", "MASTER", "SLAVE"},
     lastSyncSentTs : Nat \cup {Never},
     mdSyncSendState : {"NOT_ENABLED", "FOLLOW_UP_PENDING", "IDLE"},
     pendingFuSeq : SeqIds \cup {0},
     announceState : {"NONE", "RECEIVED", "AGED"},
     lastAnnounceTs : Nat \cup {Never}, announceInterval : Intervals \cup {1},
     gptpCapable : {"UNKNOWN", "GPTP_CAPABLE", "CAPABLE_TIMED_OUT"},
     lastCapableTs : Nat \cup {Never}, capableInterval : Intervals \cup {1},
     asCapable : {"UNKNOWN", "AS_CAPABLE", "NOT_AS_CAPABLE"},
     mdReqState : {"NOT_ENABLED", "RESET", "WAITING_FOR_PDELAY_RESP",
                   "WAITING_FOR_PDELAY_RESP_FOLLOW_UP",
                   "WAITING_FOR_PDELAY_INTERVAL_TIMER"},
     mdRespState : {"NOT_ENABLED", "SENT_PDELAY_RESP_WAITING_FOR_TIMESTAMP",
                    "WAITING_FOR_PDELAY_REQ"},
     reqInterval : Intervals \cup {1},
     initiated : 0 .. MaxRequests, complete : Nat, lost : Nat, consecutiveLost : Nat]

Exchanges == [req : Ports, seq : SeqIds, reqTs : Nat, haveResp : BOOLEAN]

GptpTypeOK ==
    /\ now \in Nat /\ due \in BOOLEAN
    /\ domain \in [Domains -> DomainTypes]
    /\ \A d \in Domains : domain[d].expected \cup domain[d].syncVec \subseteq domain[d].announcers
    /\ port \in [Ports -> PortTypes]
    /\ exchanges \subseteq Exchanges
    /\ gptpDomains \in [Domains -> [gm : GmIds \cup {0},
                                    sync : {"UNKNOWN", "HEALTHY", "LOST"}]]
    /\ announced \in [Domains \X Ports -> SUBSET Vectors]
=============================================================================
