------------------------------ MODULE Analysis ------------------------------
(***************************************************************************)
(* Engine::analyze (backend/src/engine/engine.cpp): one session's capture  *)
(* is decoded by several threads, put back into capture order, and fed to  *)
(* the protocol state machines by one thread, which publishes the events   *)
(* in batches.  What the state machines answer to a packet is data here:   *)
(* the number of transitions the packet and the passing of time cause.     *)
(***************************************************************************)
EXTENDS Integers, Sequences, FiniteSets, SequencesExt

CONSTANTS Captures,     \* captures a session may be created on
          HwThreads,    \* std::thread::hardware_concurrency()
          DecodeGrain,  \* packets that justify one more thread: 512
          FlushAt,      \* events in a batch before it is published: 256
          TsModulus     \* timestamps are uint64_t: 2^64

(* A decoded packet: its timestamp, whether the decoder found it relevant, *)
(* whether it is well formed, and the transitions that onDecode and        *)
(* onTimeTick answer with.                                                 *)
Packet == [ts : Nat, interesting : BOOLEAN, ok : BOOLEAN,
           caused : Nat, ticked : Nat]

ASSUME AnalysisAssumption ==
    /\ Captures \subseteq Seq(Packet) \ {<<>>}  \* an empty file does not open
    /\ HwThreads \in Nat /\ DecodeGrain \in Nat \ {0}
    /\ FlushAt \in Nat \ {0} /\ TsModulus \in Nat \ {0}

VARIABLES pkts,        \* pcap.packets(), in file order
          phase,       \* where analyze() is
          next,        \* the next slot of each decoding thread
          decoded,     \* how often each slot was filled
          order,       \* the packets' numbers in capture order
          oi,          \* packets of the ordered pass already processed
          eventIndex,
          batch,       \* events not yet published
          events,      \* Session::events, guarded by Session::mu
          status,      \* Session::status
          errorMsg     \* Session::errorMsg

analysisVars == <<pkts, phase, next, decoded, order, oi, eventIndex, batch,
                  events, status, errorMsg>>
-----------------------------------------------------------------------------
(* The partition of the capture over the decoding threads (CO-2).          *)

CeilDiv(a, b) == (a + b - 1) \div b

Workers(count) ==
    LET hw == IF HwThreads > 1 THEN HwThreads ELSE 1
        byGrain == CeilDiv(count, DecodeGrain)
    IN  IF hw < byGrain THEN hw ELSE byGrain

(* Mutant: the chunk is rounded down. *)
ChunkRoundedDown(count) == count \div Workers(count)

Chunk(count) == CeilDiv(count, Workers(count))

(* First and one-past-last slot of thread w, counted from 0. *)
ChunkBegin(w, count) == (w - 1) * Chunk(count)
ChunkEnd(w, count) == LET e == ChunkBegin(w, count) + Chunk(count)
                      IN  IF e < count THEN e ELSE count

Decoders == IF pkts = <<>> THEN {} ELSE 1 .. Workers(Len(pkts))

(* Capture order: by timestamp, ties in file order (CO-3). *)
Before(a, b) == \/ pkts[a].ts < pkts[b].ts
                \/ pkts[a].ts = pkts[b].ts /\ a < b

(* Mutant: packets reach the state machines in file order. *)
FileOrder == {[k \in DOMAIN pkts |-> k]}

(* What std::stable_sort makes of the packets' numbers. *)
StableSort == {o \in [DOMAIN pkts -> DOMAIN pkts] :
                 \A a, b \in DOMAIN pkts : a < b => Before(o[a], o[b])}

(* PcapFile::relTs: the distance from the first record of the file, taken  *)
(* in unsigned 64-bit arithmetic.                                          *)
RelTs(k) == (pkts[k].ts - pkts[1].ts) % TsModulus

(* The events one packet adds, numbered from `from`: its own, the          *)
(* transitions it caused, and those that are due to time alone (n = 0).    *)
(* A slot no thread has filled holds a packet that is not interesting.     *)
Burst(k, from) ==
    LET p == pkts[k]
        own == IF p.ok THEN 1 + p.caused ELSE 1
        len == IF p.interesting /\ decoded[k] > 0 THEN own + p.ticked ELSE 0
    IN  [j \in 1 .. len |->
           [i |-> from + j - 1,
            n |-> IF j <= own THEN k ELSE 0,
            ts |-> RelTs(k),
            kind |-> IF j > 1 THEN "transition" ELSE IF p.ok THEN "packet" ELSE "error"]]
-----------------------------------------------------------------------------
Init ==
    /\ pkts \in Captures
    /\ phase = "open"
    /\ next = <<>> /\ decoded = <<>> /\ order = <<>>
    /\ oi = 0 /\ eventIndex = 0
    /\ batch = <<>> /\ events = <<>>
    /\ status = "running" /\ errorMsg = "none"

(* The file opens, and the decoding threads start. *)
Open ==
    /\ phase = "open"
    /\ phase' = "decode"
    /\ next' = [w \in Decoders |-> ChunkBegin(w, Len(pkts))]
    /\ decoded' = [k \in DOMAIN pkts |-> 0]
    /\ UNCHANGED <<pkts, order, oi, eventIndex, batch, events, status, errorMsg>>

(* Mutant: failSession forgets the message. *)
OpenFailsSilently ==
    /\ phase = "open"
    /\ phase' = "failing"
    /\ UNCHANGED <<pkts, next, decoded, order, oi, eventIndex, batch, events, status, errorMsg>>

(* The file is missing or malformed: failSession stores the message, ...   *)
OpenFails ==
    /\ phase = "open"
    /\ phase' = "failing"
    /\ errorMsg' = "cannot open"
    /\ UNCHANGED <<pkts, next, decoded, order, oi, eventIndex, batch, events, status>>

(* ... then the status. *)
Fail ==
    /\ phase = "failing"
    /\ phase' = "ended"
    /\ status' = "error"
    /\ UNCHANGED <<pkts, next, decoded, order, oi, eventIndex, batch, events, errorMsg>>

(* Thread w decodes one packet into its slot. *)
Decode(w) ==
    /\ phase = "decode"
    /\ next[w] < ChunkEnd(w, Len(pkts))
    /\ decoded' = [decoded EXCEPT ![next[w] + 1] = @ + 1]
    /\ next' = [next EXCEPT ![w] = @ + 1]
    /\ UNCHANGED <<pkts, phase, order, oi, eventIndex, batch, events, status, errorMsg>>

(* Every thread has been joined; the packets are put in order. *)
JoinDecoders ==
    /\ phase = "decode"
    /\ \A w \in Decoders : next[w] >= ChunkEnd(w, Len(pkts))
    /\ phase' = "pass"
    /\ order' \in StableSort
    /\ UNCHANGED <<pkts, next, decoded, oi, eventIndex, batch, events, status, errorMsg>>

(* One packet of the ordered pass, up to the flush test at its end. *)
Process ==
    /\ phase = "pass" /\ oi < Len(pkts)
    /\ Len(batch) < FlushAt
    /\ LET burst == Burst(order[oi + 1], eventIndex)
       IN  /\ batch' = batch \o burst
           /\ eventIndex' = eventIndex + Len(burst)
    /\ oi' = oi + 1
    /\ UNCHANGED <<pkts, phase, next, decoded, order, events, status, errorMsg>>

(* Mutant: a flush publishes FlushAt events and keeps the rest. *)
FlushInPieces ==
    /\ phase = "pass"
    /\ batch # <<>>
    /\ Len(batch) >= FlushAt \/ oi = Len(pkts)
    /\ LET n == IF Len(batch) < FlushAt THEN Len(batch) ELSE FlushAt
       IN  /\ events' = events \o SubSeq(batch, 1, n)
           /\ batch' = SubSeq(batch, n + 1, Len(batch))
    /\ UNCHANGED <<pkts, phase, next, decoded, order, oi, eventIndex, status, errorMsg>>

(* Mutant: a flush without batch.clear(). *)
FlushWithoutClear ==
    /\ phase = "pass"
    /\ batch # <<>>
    /\ Len(batch) >= FlushAt \/ oi = Len(pkts)
    /\ events' = events \o batch
    /\ UNCHANGED <<pkts, phase, next, decoded, order, oi, eventIndex, batch, status, errorMsg>>

(* flush(): a full batch, or what is left at the end, is published under   *)
(* the session's unique lock.                                              *)
Flush ==
    /\ phase = "pass"
    /\ batch # <<>>
    /\ Len(batch) >= FlushAt \/ oi = Len(pkts)
    /\ events' = events \o batch
    /\ batch' = <<>>
    /\ UNCHANGED <<pkts, phase, next, decoded, order, oi, eventIndex, status, errorMsg>>

(* Mutant: the status is stored before the final flush. *)
FinishBeforeFlush ==
    /\ phase = "pass" /\ oi = Len(pkts)
    /\ status' = "done"
    /\ phase' = IF batch = <<>> THEN "ended" ELSE "pass"
    /\ UNCHANGED <<pkts, next, decoded, order, oi, eventIndex, batch, events, errorMsg>>

(* The final flush is behind us: the session is Done. *)
Finish ==
    /\ phase = "pass" /\ oi = Len(pkts) /\ batch = <<>>
    /\ status' = "done"
    /\ phase' = "ended"
    /\ UNCHANGED <<pkts, next, decoded, order, oi, eventIndex, batch, events, errorMsg>>

AnalysisNext ==
    \/ Open \/ OpenFails \/ Fail \/ JoinDecoders
    \/ \E w \in Decoders : Decode(w)
    \/ Process \/ Flush \/ Finish
-----------------------------------------------------------------------------
(* The packet events of a log, each standing for the packet it reports. *)
Heads(log) == {x \in DOMAIN log : log[x].kind # "transition"}

(* Session::events is numbered densely in the order of publication: the    *)
(* index a client sees is the place in the log.                            *)
DenseNumbers ==
    /\ \A x \in DOMAIN events : events[x].i = x - 1
    /\ eventIndex = Len(events) + Len(batch)

(* The log reports packets in capture order, ties in file order, and each  *)
(* packet once, however the decoding threads interleave (CO-3: "reordered  *)
(* packets never reach the logic modules", README.md:177).                 *)
CaptureOrder ==
    \A x, y \in Heads(events) : x < y => Before(events[x].n, events[y].n)

(* A reader never sees half a packet: with a packet's event come, in the   *)
(* same publication, the transitions it caused, directly after it.         *)
WholePackets ==
    \A x \in Heads(events) :
        LET k == events[x].n
            own == IF pkts[k].ok THEN pkts[k].caused ELSE 0
        IN  /\ x + own + pkts[k].ticked <= Len(events)
            /\ \A y \in 1 .. own : /\ events[x + y].kind = "transition"
                                   /\ events[x + y].n = k

(* When the analysis is Done nothing is missing: every relevant packet is  *)
(* in the log, whatever the partition, and nothing remains in the batch.   *)
DoneIsComplete ==
    status = "done" =>
        /\ {events[x].n : x \in Heads(events)}
             = {k \in DOMAIN pkts : pkts[k].interesting}
        /\ batch = <<>>

(* Event times never go back, as test_pcap_engine.cpp:514-519 has it       *)
(* ("Events are strictly ordered (CO-3)": e.ts >= last).                   *)
TimesMonotonic ==
    \A x, y \in DOMAIN events : x < y => events[x].ts <= events[y].ts
=============================================================================
