------------------------- MODULE StreamSessionProofs ------------------------
(***************************************************************************)
(* For any captures, any number of clients, decoding threads and any batch *)
(* and frame sizes: the log of a session is numbered densely and reports   *)
(* the packets in capture order, none is missing when the session is Done, *)
(* and every client receives a prefix of it.                               *)
(***************************************************************************)
EXTENDS StreamSession, SequenceTheorems, FiniteSetTheorems, TLAPS

(***************************************************************************)
(* The inductive invariant of the analysis.  The properties are about the  *)
(* published events; they are inductive only over what is published and    *)
(* what waits in the batch together, which Flush leaves as it is.          *)
(***************************************************************************)
Log == events \o batch

(* Before the ordered pass there is no event; an ended analysis says how.  *)
Phases ==
    /\ phase \in {"open", "failing", "decode"} => oi = 0 /\ Log = <<>>
    /\ phase = "failing" => errorMsg = "cannot open"
    /\ status = "running" <=> phase # "ended"
    /\ status = "error" => errorMsg = "cannot open" /\ Log = <<>>
    /\ status = "done" => oi = Len(pkts) /\ batch = <<>>

(* Each thread has filled its chunk up to its next slot, and all chunks    *)
(* are full when the ordered pass begins.                                  *)
Filled ==
    /\ phase = "decode" =>
         /\ decoded \in [DOMAIN pkts -> Nat]
         /\ next \in [Decoders -> Nat]
         /\ \A w \in Decoders, s \in 0 .. Len(pkts) - 1 :
              ChunkBegin(w, Len(pkts)) <= s /\ s < next[w] => decoded[s + 1] > 0
    /\ phase = "pass" \/ status = "done" => \A k \in DOMAIN pkts : decoded[k] > 0

Sorted == phase = "pass" \/ status = "done" => order \in StableSort

(* Every packet's event is one of the packets processed so far, ...        *)
Reported == \A x \in Heads(Log) : \E j \in 1 .. oi : Log[x].n = order[j]

(* ... and every relevant one of these has its event.                      *)
NoneMissing == \A j \in 1 .. oi :
                  pkts[order[j]].interesting =>
                    \E x \in Heads(Log) : Log[x].n = order[j]

OnlyRelevant == \A x \in Heads(Log) : pkts[Log[x].n].interesting

Numbered == /\ \A x \in DOMAIN Log : Log[x].i = x - 1
            /\ eventIndex = Len(Log)

InOrder(log) == \A x, y \in Heads(log) : x < y => Before(log[x].n, log[y].n)

(* WholePackets, of any log. *)
Whole(log) ==
    \A x \in Heads(log) :
        LET k == log[x].n
            own == IF pkts[k].ok THEN pkts[k].caused ELSE 0
        IN  /\ x + own + pkts[k].ticked <= Len(log)
            /\ \A y \in 1 .. own : /\ log[x + y].kind = "transition"
                                   /\ log[x + y].n = k

LogInv == /\ Reported /\ NoneMissing /\ OnlyRelevant /\ Numbered
          /\ InOrder(Log) /\ Whole(Log) /\ Whole(events)

AnalysisInv == pkts \in Captures /\ Phases /\ Filled /\ Sorted /\ LogInv

(***************************************************************************)
(* The inductive invariant of the streams: what each client knows of the   *)
(* status is true, and an empty-handed look at a Done session saw it all.  *)
(***************************************************************************)
ClientInv(c) ==
    /\ sent[c] <= Len(events)
    /\ pc[c] \in {"new", "found", "top", "waiting"} => chunk[c] = <<>>
    /\ told[c] = "open" <=> pc[c] # "closed"
    /\ st[c] # "running" => st[c] = status
    /\ pc[c] = "act" /\ chunk[c] = <<>> /\ st[c] = "done" => sent[c] = Len(events)

StreamInv == \A c \in Clients : ClientInv(c)

StreamParts == StreamInv /\ ReceivesPrefix /\ CompleteMeansAll /\ ErrorSaysWhy

Inv == TypeOK /\ AnalysisInv /\ StreamParts
-----------------------------------------------------------------------------
(***************************************************************************)
(* Lemmas about the partition (CO-2).                                      *)
(***************************************************************************)

(* The arithmetic of the chunk bounds of analysis_engine.cpp, free of the model. *)
LEMMA DivFacts ==
    ASSUME NEW a \in Nat, NEW b \in Nat \ {0}
    PROVE  /\ a \div b \in Nat
           /\ (a \div b) * b <= a
           /\ a < (a \div b) * b + b
  OBVIOUS

(* Whatever the grain and the number of processors, there is a thread and  *)
(* the chunks of all threads hold the whole capture.                       *)
LEMMA ChunksSuffice ==
    ASSUME NEW count \in Nat \ {0}
    PROVE  /\ Workers(count) \in Nat \ {0}
           /\ Chunk(count) \in Nat \ {0}
           /\ count <= Chunk(count) * Workers(count)
<1>. DEFINE W == Workers(count)
            G == CeilDiv(count, DecodeGrain)
            C == Chunk(count)
<1>1. HwThreads \in Nat /\ DecodeGrain \in Nat \ {0}
  BY AnalysisAssumption
<1>2. G \in Nat \ {0}
  <2>1. count + DecodeGrain - 1 \in Nat
    BY <1>1
  <2>2. /\ G \in Nat
        /\ count + DecodeGrain - 1 < G * DecodeGrain + DecodeGrain
    BY <1>1, <2>1, DivFacts DEF CeilDiv
  <2>3. G # 0
    <3>. SUFFICES ASSUME G = 0 PROVE FALSE
      OBVIOUS
    <3>1. G * DecodeGrain = 0
      BY <1>1
    <3>. HIDE DEF G
    <3>. QED
      BY <3>1, <2>2, <1>1
  <2>. QED
    BY <2>2, <2>3
<1>3. W \in Nat \ {0}
  <2>. HIDE DEF G
  <2>. QED
    BY <1>1, <1>2 DEF Workers, G
<1>. HIDE DEF W, G
<1>4. /\ C = CeilDiv(count, W)
      /\ count + W - 1 \in Nat
  BY <1>3 DEF Chunk, W
<1>5. /\ C \in Nat
      /\ count + W - 1 < C * W + W
  BY <1>3, <1>4, DivFacts DEF CeilDiv
<1>. HIDE DEF C
<1>6. C * W \in Nat /\ (C = 0 => C * W = 0)
  BY <1>3, <1>5
<1>7. count <= C * W
  BY <1>3, <1>5, <1>6
<1>. QED
  BY <1>3, <1>5, <1>6, <1>7 DEF W, C

(* No chunk goes beyond the capture. *)
LEMMA ChunkEndTyped ==
    ASSUME NEW count \in Nat \ {0}, NEW w \in 1 .. Workers(count)
    PROVE  ChunkEnd(w, count) \in Int /\ ChunkEnd(w, count) <= count
<1>1. Chunk(count) \in Nat /\ w \in Int
  BY ChunksSuffice
<1>2. ChunkBegin(w, count) \in Int
  BY <1>1 DEF ChunkBegin
<1>. QED
  BY <1>1, <1>2 DEF ChunkEnd

(* Every slot is in the chunk of some thread. *)
LEMMA SlotHasThread ==
    ASSUME NEW count \in Nat \ {0}, NEW s \in 0 .. count - 1
    PROVE  \E w \in 1 .. Workers(count) :
             ChunkBegin(w, count) <= s /\ s < ChunkEnd(w, count)
<1>. DEFINE W == Workers(count)
            C == Chunk(count)
            q == s \div C
<1>1. W \in Nat \ {0} /\ C \in Nat \ {0} /\ count <= C * W
  BY ChunksSuffice
<1>. HIDE DEF W, C
<1>2. q \in Nat /\ q * C <= s /\ s < q * C + C
  <2>1. s \in Nat
    OBVIOUS
  <2>. QED
    BY <1>1, <2>1, DivFacts
<1>. HIDE DEF q
<1>3. q * C < W * C
  BY <1>1, <1>2
<1>4. q < W
  BY <1>1, <1>2, <1>3
<1>5. q + 1 \in 1 .. W
  BY <1>1, <1>2, <1>4
<1>6. ChunkBegin(q + 1, count) = q * C
  BY <1>2 DEF ChunkBegin, C
<1>7. q * C \in Nat
  BY <1>1, <1>2
<1>8. ChunkBegin(q + 1, count) <= s /\ s < ChunkEnd(q + 1, count)
  BY <1>1, <1>2, <1>6, <1>7 DEF ChunkEnd, C
<1>. QED
  BY <1>5, <1>8 DEF W
-----------------------------------------------------------------------------
(***************************************************************************)
(* Lemmas about the log, the bursts and the order.                         *)
(***************************************************************************)

(* Every prefix of the capture is a sequence of packets. *)
LEMMA CaptureTyped ==
    ASSUME pkts \in Captures
    PROVE  /\ pkts \in Seq(Packet) /\ Len(pkts) \in Nat \ {0}
           /\ DOMAIN pkts = 1 .. Len(pkts)
           /\ \A k \in DOMAIN pkts :
                /\ pkts[k].ts \in Nat /\ pkts[k].caused \in Nat /\ pkts[k].ticked \in Nat
                /\ pkts[k].interesting \in BOOLEAN /\ pkts[k].ok \in BOOLEAN
<1>1. pkts \in Seq(Packet) /\ pkts # <<>>
  BY AnalysisAssumption
<1>2. Len(pkts) \in Nat \ {0} /\ DOMAIN pkts = 1 .. Len(pkts)
  BY <1>1
<1>3. \A k \in DOMAIN pkts : pkts[k] \in Packet
  BY <1>1, <1>2
<1>. QED
  BY <1>1, <1>2, <1>3 DEF Packet

(* The events recorded so far are a sequence of events. *)
LEMMA LogTyped ==
    ASSUME events \in Seq(Event), batch \in Seq(Event)
    PROVE  /\ Log \in Seq(Event)
           /\ Len(Log) = Len(events) + Len(batch)
           /\ Len(Log) \in Nat /\ Len(events) \in Nat /\ Len(batch) \in Nat
           /\ DOMAIN Log = 1 .. Len(Log) /\ DOMAIN events = 1 .. Len(events)
           /\ \A x \in DOMAIN events : x \in DOMAIN Log /\ Log[x] = events[x]
<1>1. /\ Log \in Seq(Event) /\ Len(Log) = Len(events) + Len(batch)
      /\ \A i \in 1 .. Len(events) + Len(batch) :
           Log[i] = IF i <= Len(events) THEN events[i] ELSE batch[i - Len(events)]
  BY ConcatProperties DEF Log
<1>2. /\ Len(events) \in Nat /\ Len(batch) \in Nat
      /\ DOMAIN Log = 1 .. Len(Log) /\ DOMAIN events = 1 .. Len(events)
  BY <1>1
<1>. HIDE DEF Log
<1>. QED
  BY <1>1, <1>2

(* What a packet adds: nothing if it is irrelevant; else its own event at  *)
(* the head, then the transitions it caused, then those due to time.       *)
LEMMA BurstShape ==
    ASSUME pkts \in Captures, NEW k \in DOMAIN pkts, decoded[k] > 0, NEW from \in Nat
    PROVE  LET b == Burst(k, from)
               own == IF pkts[k].ok THEN pkts[k].caused ELSE 0
           IN  /\ b \in Seq(Event) /\ Len(b) \in Nat /\ own \in Nat
               /\ DOMAIN b = 1 .. Len(b)
               /\ pkts[k].interesting => Len(b) = 1 + own + pkts[k].ticked
               /\ ~pkts[k].interesting => Len(b) = 0
               /\ \A j \in DOMAIN b :
                    /\ b[j].i = from + j - 1
                    /\ b[j].kind # "transition" <=> j = 1
                    /\ j <= own + 1 => b[j].n = k
<1>. DEFINE b == Burst(k, from)
            own == IF pkts[k].ok THEN pkts[k].caused ELSE 0
            len == IF pkts[k].interesting THEN 1 + own + pkts[k].ticked ELSE 0
<1>1. /\ pkts[k].caused \in Nat /\ pkts[k].ticked \in Nat
      /\ pkts[k].interesting \in BOOLEAN /\ pkts[k].ok \in BOOLEAN
      /\ pkts[k].ts \in Nat /\ pkts[1].ts \in Nat /\ k \in Nat
  BY CaptureTyped
<1>2. len \in Nat /\ own \in Nat
  BY <1>1
<1>3. RelTs(k) \in Nat
  BY <1>1, AnalysisAssumption DEF RelTs
<1>4. b = [j \in 1 .. len |->
             [i |-> from + j - 1,
              n |-> IF j <= own + 1 THEN k ELSE 0,
              ts |-> RelTs(k),
              kind |-> IF j > 1 THEN "transition"
                       ELSE IF pkts[k].ok THEN "packet" ELSE "error"]]
  BY <1>1 DEF Burst
<1>. HIDE DEF b, own, len
<1>5. \A j \in 1 .. len : b[j] \in Event
  BY <1>1, <1>2, <1>3, <1>4 DEF Event
<1>6. b \in Seq(Event) /\ Len(b) = len /\ DOMAIN b = 1 .. len
  BY <1>2, <1>4, <1>5
<1>7. \A j \in 1 .. len : /\ b[j].i = from + j - 1
                          /\ b[j].kind # "transition" <=> j = 1
                          /\ j <= own + 1 => b[j].n = k
  BY <1>2, <1>4
<1>. QED
  BY <1>1, <1>2, <1>6, <1>7 DEF b, own, len

(* A sorted arrangement holds every packet. *)
LEMMA SortedHoldsAll ==
    ASSUME pkts \in Captures, NEW o \in StableSort
    PROVE  /\ o \in [DOMAIN pkts -> DOMAIN pkts]
           /\ \A k \in DOMAIN pkts : \E j \in DOMAIN pkts : o[j] = k
<1>. DEFINE D == DOMAIN pkts
<1>1. /\ D = 1 .. Len(pkts) /\ Len(pkts) \in Nat
      /\ \A k \in D : pkts[k].ts \in Nat
  BY CaptureTyped
<1>2. o \in [D -> D] /\ \A a, b \in D : a < b => Before(o[a], o[b])
  BY DEF StableSort
<1>3. \A k \in D : ~Before(k, k)
  BY <1>1 DEF Before
<1>4. ASSUME NEW x \in D, NEW y \in D, o[x] = o[y] PROVE x = y
  <2>1. ~(x < y) /\ ~(y < x)
    BY <1>2, <1>3, <1>4
  <2>. QED
    BY <1>1, <2>1
<1>5. o \in Injection(D, D)
  BY <1>2, <1>4 DEF Injection, IsInjective
<1>6. IsFiniteSet(D)
  BY <1>1, FS_Interval
<1>7. o \in Surjection(D, D)
  BY <1>5, <1>6, FS_Injection
<1>. QED
  BY <1>2, <1>7 DEF Surjection

(* A step that leaves the log alone disturbs nothing said of it. *)
LEMMA LogKept ==
    ASSUME LogInv, Log' = Log, Whole(events)',
           UNCHANGED <<pkts, order, oi, eventIndex>>
    PROVE  LogInv'
<1>1. Heads(Log)' = Heads(Log)
  BY DEF Heads
<1>. QED
  BY <1>1 DEF LogInv, Reported, NoneMissing, OnlyRelevant, Numbered, InOrder, Whole, Before

(* One packet of the ordered pass: the log, its batch included, grows by   *)
(* the packet's burst, and stays numbered, ordered, complete and whole.    *)
LEMMA ProcessLog ==
    ASSUME TypeOK, AnalysisInv, Process
    PROVE  LogInv' /\ batch' \in Seq(Event) /\ eventIndex' \in Nat
<1>. DEFINE k == order[oi + 1]
            b == Burst(k, eventIndex)
            own == IF pkts[k].ok THEN pkts[k].caused ELSE 0
            N == Len(Log)
<1>1. /\ pkts \in Captures /\ Sorted /\ Filled /\ LogInv
      /\ phase = "pass" /\ oi < Len(pkts) /\ oi \in 0 .. Len(pkts)
      /\ events \in Seq(Event) /\ batch \in Seq(Event) /\ eventIndex \in Nat
      /\ batch' = batch \o b /\ eventIndex' = eventIndex + Len(b) /\ oi' = oi + 1
      /\ UNCHANGED <<pkts, order, decoded, events>>
  BY DEF Process, AnalysisInv, TypeOK
<1>2. /\ Len(pkts) \in Nat /\ DOMAIN pkts = 1 .. Len(pkts)
      /\ \A p \in DOMAIN pkts : pkts[p].interesting \in BOOLEAN
  BY <1>1, CaptureTyped
<1>3. order \in StableSort
  BY <1>1 DEF Sorted
<1>4. /\ order \in [DOMAIN pkts -> DOMAIN pkts]
      /\ \A i, j \in DOMAIN pkts : i < j => Before(order[i], order[j])
  BY <1>3 DEF StableSort
<1>5. k \in DOMAIN pkts /\ oi + 1 \in DOMAIN pkts
  BY <1>1, <1>2, <1>4
<1>6. decoded[k] > 0
  BY <1>1, <1>5 DEF Filled
<1>7. /\ b \in Seq(Event) /\ Len(b) \in Nat /\ own \in Nat
      /\ DOMAIN b = 1 .. Len(b)
      /\ pkts[k].interesting => Len(b) = 1 + own + pkts[k].ticked
      /\ ~pkts[k].interesting => Len(b) = 0
      /\ \A j \in DOMAIN b : /\ b[j].i = eventIndex + j - 1
                             /\ b[j].kind # "transition" <=> j = 1
                             /\ j <= own + 1 => b[j].n = k
  BY <1>1, <1>5, <1>6, BurstShape
<1>8. pkts[k].ticked \in Nat
  BY <1>1, <1>5, CaptureTyped
<1>9. /\ Log \in Seq(Event) /\ N \in Nat /\ DOMAIN Log = 1 .. N
  BY <1>1, LogTyped
<1>. HIDE DEF b, own
<1>10. Log' = Log \o b
  <2>1. Log' = events \o (batch \o b)
    BY <1>1 DEF Log
  <2>2. events \in Seq(Event) /\ batch \in Seq(Event) /\ b \in Seq(Event)
    BY <1>1, <1>7
  <2>3. (events \o batch) \o b = events \o (batch \o b)
    BY <2>2, ConcatAssociative
  <2>. QED
    BY <2>1, <2>3 DEF Log
<1>11. batch' \in Seq(Event) /\ eventIndex' \in Nat
  BY <1>1, <1>7
<1>. HIDE DEF k, N
<1>12. /\ Len(Log') = N + Len(b) /\ DOMAIN Log' = 1 .. N + Len(b)
       /\ \A x \in 1 .. N : Log'[x] = Log[x]
       /\ \A j \in 1 .. Len(b) : Log'[N + j] = b[j]
  <2>1. /\ Log' \in Seq(Event) /\ Len(Log') = N + Len(b)
        /\ \A x \in 1 .. N + Len(b) :
             Log'[x] = IF x <= N THEN Log[x] ELSE b[x - N]
    BY <1>7, <1>9, <1>10, ConcatProperties DEF N
  <2>2. DOMAIN Log' = 1 .. N + Len(b)
    BY <2>1, LenProperties
  <2>3. \A x \in 1 .. N : x \in 1 .. N + Len(b) /\ x <= N
    BY <1>7, <1>9
  <2>4. \A j \in 1 .. Len(b) : /\ N + j \in 1 .. N + Len(b)
                              /\ ~(N + j <= N) /\ (N + j) - N = j
    BY <1>7, <1>9
  <2>. QED
    BY <2>1, <2>2, <2>3, <2>4
<1>13. Heads(Log)' = Heads(Log) \cup (IF pkts[k].interesting THEN {N + 1} ELSE {})
  <2>1. ASSUME NEW x \in 1 .. N + Len(b)
        PROVE  Log'[x].kind # "transition" <=>
                 \/ x \in 1 .. N /\ Log[x].kind # "transition"
                 \/ x = N + 1
    <3>1. CASE x <= N
      BY <3>1, <1>9, <1>12
    <3>2. CASE x > N
      <4>1. x - N \in 1 .. Len(b) /\ x = N + (x - N)
        BY <3>2, <1>7, <1>9
      <4>2. Log'[x] = b[x - N]
        BY <4>1, <1>12
      <4>3. b[x - N].kind # "transition" <=> x - N = 1
        BY <4>1, <1>7
      <4>. QED
        BY <3>2, <4>2, <4>3, <1>9
    <3>. QED
      BY <3>1, <3>2, <1>9
  <2>2. Heads(Log)' = {x \in 1 .. N + Len(b) : Log'[x].kind # "transition"}
    BY <1>12 DEF Heads
  <2>3. Heads(Log) = {x \in 1 .. N : Log[x].kind # "transition"}
    BY <1>9 DEF Heads
  <2>4. pkts[k].interesting <=> N + 1 \in 1 .. N + Len(b)
    BY <1>7, <1>8, <1>9
  <2>. QED
    BY <2>1, <2>2, <2>3, <2>4, <1>7, <1>9
<1>14. pkts[k].interesting => Log'[N + 1].n = k
  BY <1>7, <1>8, <1>12
<1>15. Heads(Log) \subseteq 1 .. N /\ \A x \in Heads(Log) : Log'[x] = Log[x]
  BY <1>9, <1>12 DEF Heads
<1>16. k = order[oi + 1] /\ \A p \in DOMAIN pkts : pkts[p]' = pkts[p]
  BY <1>1 DEF k
<1>17. Reported'
  <2>1. Reported
    BY <1>1 DEF LogInv
  <2>2. oi \in Nat /\ oi' = oi + 1
    BY <1>1
  <2>3. ASSUME NEW x \in Heads(Log)', x \in Heads(Log)
        PROVE  \E j \in 1 .. oi' : Log'[x].n = order'[j]
    <3>1. PICK j \in 1 .. oi : Log[x].n = order[j]
      BY <2>1, <2>3 DEF Reported
    <3>. QED
      <4>1. Log'[x] = Log[x]
        BY <1>15, <2>3
      <4>2. order' = order
        BY <1>1
      <4>3. j \in 1 .. oi'
        BY <2>2, SMTT(40)
      <4>. QED
        BY <3>1, <4>1, <4>2, <4>3, ZenonT(40)
  <2>4. ASSUME NEW x \in Heads(Log)', x \notin Heads(Log)
        PROVE  Log'[x].n = order'[oi']
    BY <1>1, <1>13, <1>14, <1>16, <2>2, <2>4
  <2>. QED
    BY <2>2, <2>3, <2>4 DEF Reported
<1>18. NoneMissing'
  <2>. SUFFICES ASSUME NEW j \in 1 .. oi + 1, pkts[order[j]].interesting
                PROVE  \E x \in Heads(Log)' : Log'[x].n = order[j]
    BY <1>1 DEF NoneMissing
  <2>1. CASE j \in 1 .. oi
    <3>1. NoneMissing /\ oi \in Nat
      BY <1>1 DEF LogInv
    <3>2. PICK x \in Heads(Log) : Log[x].n = order[j]
      BY <2>1, <3>1 DEF NoneMissing
    <3>. QED
      BY <1>13, <1>15, <3>2, SMTT(40)
  <2>2. CASE j = oi + 1
    BY <2>2, <1>13, <1>14, <1>16
  <2>. QED
    BY <2>1, <2>2, <1>1
<1>19. OnlyRelevant'
  BY <1>1, <1>13, <1>14, <1>15 DEF LogInv, OnlyRelevant
<1>20. Numbered'
  <2>1. ASSUME NEW x \in 1 .. N + Len(b) PROVE Log'[x].i = x - 1
    <3>1. CASE x <= N
      <4>1. x \in DOMAIN Log /\ Log'[x] = Log[x]
        BY <3>1, <1>9, <1>12
      <4>2. \A y \in DOMAIN Log : Log[y].i = y - 1
        BY <1>1 DEF LogInv, Numbered
      <4>. QED
        BY <4>1, <4>2
    <3>2. CASE x > N
      <4>1. x - N \in 1 .. Len(b) /\ x = N + (x - N)
        BY <3>2, <1>7, <1>9
      <4>2. Log'[x] = b[x - N]
        BY <4>1, <1>12
      <4>3. b[x - N].i = eventIndex + (x - N) - 1
        BY <4>1, <1>7
      <4>4. eventIndex = N
        BY <1>1 DEF LogInv, Numbered, N
      <4>. QED
        BY <4>2, <4>3, <4>4, <1>9
    <3>. QED
      BY <3>1, <3>2, <1>9
  <2>2. eventIndex = N
    BY <1>1 DEF LogInv, Numbered, N
  <2>. QED
    BY <2>1, <2>2, <1>1, <1>12 DEF Numbered
<1>21. InOrder(Log)'
  <2>. SUFFICES ASSUME NEW x \in Heads(Log)', NEW y \in Heads(Log)', x < y
                PROVE  Before(Log'[x].n, Log'[y].n)
    BY <1>1 DEF InOrder, Before
  <2>1. x \in Heads(Log)
    BY <1>13, <1>15, <1>9
  <2>2. CASE y \in Heads(Log)
    BY <2>1, <2>2, <1>1, <1>15 DEF LogInv, InOrder
  <2>3. CASE y \notin Heads(Log)
    <3>1. Log'[y].n = order[oi + 1]
      BY <2>3, <1>13, <1>14, <1>16
    <3>2. PICK j \in 1 .. oi : Log[x].n = order[j]
      BY <2>1, <1>1 DEF LogInv, Reported
    <3>3. j \in DOMAIN pkts /\ j < oi + 1
      BY <1>1, <1>2
    <3>4. Before(order[j], order[oi + 1])
      BY <3>3, <1>4, <1>5
    <3>. QED
      BY <3>1, <3>2, <3>4, <2>1, <1>15
  <2>. QED
    BY <2>2, <2>3
<1>22. Whole(Log)'
  <2>. DEFINE o(p) == IF pkts[p].ok THEN pkts[p].caused ELSE 0
  <2>. SUFFICES ASSUME NEW x \in Heads(Log)'
                PROVE  /\ x + o(Log'[x].n) + pkts[Log'[x].n].ticked <= Len(Log')
                       /\ \A y \in 1 .. o(Log'[x].n) :
                            /\ Log'[x + y].kind = "transition"
                            /\ Log'[x + y].n = Log'[x].n
    BY <1>1 DEF Whole
  <2>1. CASE x \in Heads(Log)
    <3>1. /\ x + o(Log[x].n) + pkts[Log[x].n].ticked <= N
          /\ \A y \in 1 .. o(Log[x].n) : /\ Log[x + y].kind = "transition"
                                         /\ Log[x + y].n = Log[x].n
      BY <2>1, <1>1 DEF LogInv, Whole, N
    <3>2. Log[x].n \in DOMAIN pkts
      <4>1. PICK j \in 1 .. oi : Log[x].n = order[j]
        BY <2>1, <1>1 DEF LogInv, Reported
      <4>. QED
        BY <4>1, <1>1, <1>2, <1>4
    <3>3. o(Log[x].n) \in Nat /\ pkts[Log[x].n].ticked \in Nat
      BY <3>2, <1>1, CaptureTyped
    <3>4. x \in 1 .. N /\ Log'[x] = Log[x]
      BY <2>1, <1>15
    <3>. HIDE DEF o
    <3>5. \A y \in 1 .. o(Log[x].n) : x + y \in 1 .. N
      BY <3>1, <3>3, <3>4, <1>9
    <3>6. \A y \in 1 .. o(Log[x].n) : Log'[x + y] = Log[x + y]
      BY <3>5, <1>12
    <3>7. x + o(Log[x].n) + pkts[Log[x].n].ticked <= N + Len(b)
      BY <3>1, <3>3, <3>4, <1>7, <1>9
    <3>. QED
      BY <3>1, <3>4, <3>6, <3>7, <1>12
  <2>2. CASE x \notin Heads(Log)
    <3>1. x = N + 1 /\ pkts[k].interesting /\ Log'[x].n = k
      BY <2>2, <1>13, <1>14
    <3>2. o(k) = own
      BY DEF own
    <3>. HIDE DEF o
    <3>3. Len(b) = 1 + own + pkts[k].ticked
      BY <3>1, <1>7
    <3>4. x + o(k) + pkts[k].ticked <= Len(Log')
      BY <3>1, <3>2, <3>3, <1>7, <1>8, <1>9, <1>12
    <3>5. ASSUME NEW y \in 1 .. own
          PROVE  Log'[x + y].kind = "transition" /\ Log'[x + y].n = k
      <4>1. 1 + y \in 1 .. Len(b) /\ x + y = N + (1 + y)
        BY <3>1, <3>3, <1>7, <1>8, <1>9
      <4>2. Log'[x + y] = b[1 + y]
        BY <4>1, <1>12
      <4>. QED
        BY <4>1, <4>2, <1>7
    <3>. QED
      BY <3>1, <3>2, <3>4, <3>5
  <2>. QED
    BY <2>1, <2>2
<1>23. Whole(events)'
  BY <1>1 DEF LogInv, Whole, Heads
<1>. QED
  BY <1>11, <1>17, <1>18, <1>19, <1>20, <1>21, <1>22, <1>23 DEF LogInv
-----------------------------------------------------------------------------
(***************************************************************************)
(* The analysis keeps its invariant.                                       *)
(***************************************************************************)

AnalysisTypeOK ==
    /\ phase \in {"open", "failing", "decode", "pass", "ended"}
    /\ events \in Seq(Event) /\ batch \in Seq(Event)
    /\ status \in {"running", "done", "error"}
    /\ errorMsg \in {"none", "cannot open"}
    /\ oi \in 0 .. Len(pkts) /\ eventIndex \in Nat

(* The invariant of the analysis holds when a session starts. *)
LEMMA AnalysisStarts == SpecInit => AnalysisTypeOK /\ AnalysisInv
<1>. SUFFICES ASSUME SpecInit PROVE AnalysisTypeOK /\ AnalysisInv
  OBVIOUS
<1>1. /\ pkts \in Captures /\ phase = "open" /\ oi = 0 /\ eventIndex = 0
      /\ batch = <<>> /\ events = <<>> /\ status = "running" /\ errorMsg = "none"
  BY DEF SpecInit, Init
<1>2. Len(pkts) \in Nat
  BY <1>1, CaptureTyped
<1>3. Log = <<>> /\ DOMAIN Log = {}
  BY <1>1 DEF Log
<1>4. Heads(Log) = {} /\ Heads(events) = {}
  BY <1>1, <1>3 DEF Heads
<1>5. LogInv
  BY <1>1, <1>3, <1>4 DEF LogInv, Reported, NoneMissing, OnlyRelevant, Numbered, InOrder, Whole
<1>6. Phases /\ Filled /\ Sorted
  BY <1>1, <1>3 DEF Phases, Filled, Sorted
<1>. QED
  BY <1>1, <1>2, <1>5, <1>6 DEF AnalysisTypeOK, AnalysisInv

(* Decoding fills the slot of each packet a thread passes, and only those. *)
LEMMA DecodeFills ==
    ASSUME TypeOK, AnalysisInv, NEW w \in Decoders, Decode(w)
    PROVE  Filled'
<1>. DEFINE n == next[w]
            count == Len(pkts)
<1>1. /\ pkts \in Captures /\ Filled /\ phase = "decode"
      /\ n < ChunkEnd(w, count)
      /\ decoded' = [decoded EXCEPT ![n + 1] = @ + 1]
      /\ next' = [next EXCEPT ![w] = @ + 1]
      /\ UNCHANGED <<pkts, phase, status>>
      /\ status # "done"
  BY DEF Decode, AnalysisInv, Phases
<1>2. /\ decoded \in [DOMAIN pkts -> Nat] /\ next \in [Decoders -> Nat]
      /\ \A v \in Decoders, s \in 0 .. count - 1 :
           ChunkBegin(v, count) <= s /\ s < next[v] => decoded[s + 1] > 0
  BY <1>1 DEF Filled
<1>3. count \in Nat \ {0} /\ DOMAIN pkts = 1 .. count
  BY <1>1, CaptureTyped
<1>4. n \in Nat
  BY <1>2
<1>5. n < count
  <2>1. w \in 1 .. Workers(count)
    BY <1>3 DEF Decoders
  <2>. QED
    BY <1>1, <1>3, <1>4, <2>1, ChunkEndTyped
<1>6. n + 1 \in DOMAIN pkts
  BY <1>3, <1>4, <1>5
<1>. HIDE DEF n, count
<1>7. decoded' \in [DOMAIN pkts -> Nat] /\ next' \in [Decoders -> Nat]
  BY <1>1, <1>2, <1>6 DEF n
<1>8. ASSUME NEW v \in Decoders, NEW s \in 0 .. count - 1,
             ChunkBegin(v, count) <= s, s < next'[v]
      PROVE  decoded'[s + 1] > 0
  <2>1. s + 1 \in DOMAIN pkts /\ decoded[s + 1] \in Nat
    BY <1>2, <1>3
  <2>2. CASE s = n
    BY <2>2, <2>1, <1>1, <1>2, <1>6
  <2>3. CASE s # n
    <3>1. s < next[v]
      <4>1. CASE v = w
        BY <4>1, <2>3, <1>1, <1>2, <1>3, <1>4, <1>8 DEF n
      <4>2. CASE v # w
        BY <4>2, <1>1, <1>2, <1>8
      <4>. QED
        BY <4>1, <4>2
    <3>2. decoded[s + 1] > 0
      BY <3>1, <1>2, <1>8
    <3>3. decoded'[s + 1] = decoded[s + 1]
      BY <2>1, <2>3, <1>1, <1>2, <1>3, <1>4
    <3>. QED
      BY <3>2, <3>3
  <2>. QED
    BY <2>2, <2>3
<1>9. Decoders' = Decoders
  BY <1>1 DEF Decoders
<1>10. \A v : ChunkBegin(v, count)' = ChunkBegin(v, count)
  BY <1>1 DEF count
<1>. QED
  BY <1>1, <1>7, <1>8, <1>9, <1>10 DEF Filled, count

(* When every thread has ended, every slot of the batch is filled: the chunks cover it. *)
LEMMA AllFilled ==
    ASSUME TypeOK, AnalysisInv, JoinDecoders
    PROVE  Filled'
<1>. DEFINE count == Len(pkts)
<1>1. /\ pkts \in Captures /\ Filled /\ phase = "decode" /\ phase' = "pass"
      /\ \A w \in Decoders : next[w] >= ChunkEnd(w, count)
      /\ UNCHANGED <<pkts, decoded>>
  BY DEF JoinDecoders, AnalysisInv
<1>2. /\ next \in [Decoders -> Nat]
      /\ \A v \in Decoders, s \in 0 .. count - 1 :
           ChunkBegin(v, count) <= s /\ s < next[v] => decoded[s + 1] > 0
  BY <1>1 DEF Filled
<1>3. count \in Nat \ {0} /\ DOMAIN pkts = 1 .. count /\ pkts # <<>>
  BY <1>1, CaptureTyped
<1>4. Decoders = 1 .. Workers(count)
  BY <1>3 DEF Decoders
<1>. HIDE DEF count
<1>5. ASSUME NEW k \in DOMAIN pkts PROVE decoded[k] > 0
  <2>1. k - 1 \in 0 .. count - 1 /\ (k - 1) + 1 = k
    BY <1>3
  <2>2. PICK w \in Decoders : ChunkBegin(w, count) <= k - 1 /\ k - 1 < ChunkEnd(w, count)
    BY <2>1, <1>3, <1>4, SlotHasThread
  <2>3. next[w] \in Nat /\ next[w] >= ChunkEnd(w, count)
    BY <1>1, <1>2 DEF count
  <2>4. ChunkEnd(w, count) \in Int
    BY <1>3, <1>4, ChunkEndTyped
  <2>5. k - 1 < next[w]
    BY <2>1, <2>2, <2>3, <2>4
  <2>. QED
    BY <2>1, <2>2, <2>5, <1>2
<1>. QED
  BY <1>1, <1>5 DEF Filled

(* Every step of the analysis keeps its invariant. *)
LEMMA AnalysisStep ==
    ASSUME TypeOK, AnalysisInv, AnalysisNext
    PROVE  AnalysisTypeOK' /\ AnalysisInv'
<1>1. /\ AnalysisTypeOK
      /\ pkts \in Captures /\ Phases /\ Filled /\ Sorted /\ LogInv
      /\ events \in Seq(Event) /\ batch \in Seq(Event)
  BY DEF TypeOK, AnalysisTypeOK, AnalysisInv
<1>2. Log \in Seq(Event) /\ Len(pkts) \in Nat
  BY <1>1, LogTyped, CaptureTyped
<1>3. UNCHANGED events => (Whole(events) /\ UNCHANGED pkts => Whole(events)')
  BY DEF Whole, Heads
<1>4. Whole(events)
  BY <1>1 DEF LogInv
<1>5. CASE Open
  <2>1. /\ phase = "open" /\ phase' = "decode"
        /\ next' = [w \in Decoders |-> ChunkBegin(w, Len(pkts))]
        /\ decoded' = [k \in DOMAIN pkts |-> 0]
        /\ UNCHANGED <<pkts, order, oi, eventIndex, batch, events, status, errorMsg>>
    BY <1>5 DEF Open
  <2>2. Log' = Log
    BY <2>1 DEF Log
  <2>3. LogInv'
    BY <1>1, <1>3, <1>4, <2>1, <2>2, LogKept
  <2>4. Decoders' = Decoders /\ \A v : ChunkBegin(v, Len(pkts))' = ChunkBegin(v, Len(pkts))
    BY <2>1 DEF Decoders
  <2>5. \A w \in Decoders : ChunkBegin(w, Len(pkts)) \in Nat
    <3>. SUFFICES ASSUME NEW w \in Decoders PROVE ChunkBegin(w, Len(pkts)) \in Nat
      OBVIOUS
    <3>1. Len(pkts) \in Nat \ {0}
      BY <1>1, CaptureTyped
    <3>2. Decoders = 1 .. Workers(Len(pkts))
      BY <3>1 DEF Decoders
    <3>3. w - 1 \in Nat /\ Chunk(Len(pkts)) \in Nat
      BY <3>1, <3>2, ChunksSuffice
    <3>. QED
      BY <3>3 DEF ChunkBegin
  <2>6. Filled'
    <3>1. decoded' \in [DOMAIN pkts -> Nat] /\ next' \in [Decoders -> Nat]
      BY <2>1, <2>5
    <3>2. \A w \in Decoders, s \in 0 .. Len(pkts) - 1 :
            ~(ChunkBegin(w, Len(pkts)) <= s /\ s < next'[w])
      BY <2>1, <2>5
    <3>3. status' # "done"
      BY <1>1, <2>1 DEF Phases
    <3>. QED
      BY <2>1, <2>4, <3>1, <3>2, <3>3 DEF Filled
  <2>. QED
    BY <1>1, <2>1, <2>2, <2>3, <2>6 DEF AnalysisTypeOK, AnalysisInv, Phases, Sorted
<1>6. CASE OpenFails
  <2>1. /\ phase = "open" /\ phase' = "failing" /\ errorMsg' = "cannot open"
        /\ UNCHANGED <<pkts, next, decoded, order, oi, eventIndex, batch, events, status>>
    BY <1>6 DEF OpenFails
  <2>2. Log' = Log
    BY <2>1 DEF Log
  <2>3. LogInv'
    BY <1>1, <1>3, <1>4, <2>1, <2>2, LogKept
  <2>. QED
    BY <1>1, <2>1, <2>2, <2>3 DEF AnalysisTypeOK, AnalysisInv, Phases, Sorted, Filled
<1>7. CASE Fail
  <2>1. /\ phase = "failing" /\ phase' = "ended" /\ status' = "error"
        /\ UNCHANGED <<pkts, next, decoded, order, oi, eventIndex, batch, events, errorMsg>>
    BY <1>7 DEF Fail
  <2>2. Log' = Log
    BY <2>1 DEF Log
  <2>3. LogInv'
    BY <1>1, <1>3, <1>4, <2>1, <2>2, LogKept
  <2>. QED
    BY <1>1, <2>1, <2>2, <2>3 DEF AnalysisTypeOK, AnalysisInv, Phases, Sorted, Filled
<1>8. CASE JoinDecoders
  <2>1. /\ phase = "decode" /\ phase' = "pass" /\ order' \in StableSort
        /\ UNCHANGED <<pkts, oi, eventIndex, batch, events, status, errorMsg>>
    BY <1>8 DEF JoinDecoders
  <2>2. oi = 0 /\ Log = <<>> /\ Log' = Log
    BY <1>1, <2>1 DEF Phases, Log
  <2>3. Heads(Log) = {} /\ Heads(Log)' = {}
    BY <2>2 DEF Heads
  <2>4. Numbered' /\ Whole(events)'
    BY <1>1, <1>3, <1>4, <2>1, <2>2 DEF LogInv, Numbered
  <2>5. LogInv'
    BY <2>1, <2>2, <2>3, <2>4 DEF LogInv, Reported, NoneMissing, OnlyRelevant, InOrder, Whole
  <2>6. Sorted'
    BY <2>1 DEF Sorted, StableSort, Before
  <2>. QED
    BY <1>1, <1>8, <2>1, <2>2, <2>5, <2>6, AllFilled DEF AnalysisTypeOK, AnalysisInv, Phases
<1>9. CASE \E w \in Decoders : Decode(w)
  <2>1. PICK w \in Decoders : Decode(w)
    BY <1>9
  <2>2. /\ phase = "decode"
        /\ UNCHANGED <<pkts, phase, order, oi, eventIndex, batch, events, status, errorMsg>>
    BY <2>1 DEF Decode
  <2>3. Log' = Log
    BY <2>2 DEF Log
  <2>4. LogInv'
    BY <1>1, <1>3, <1>4, <2>2, <2>3, LogKept
  <2>5. Filled'
    BY <2>1, DecodeFills
  <2>. QED
    BY <1>1, <2>2, <2>3, <2>4, <2>5 DEF AnalysisTypeOK, AnalysisInv, Phases, Sorted
<1>10. CASE Process
  <2>1. /\ phase = "pass" /\ oi < Len(pkts) /\ oi' = oi + 1
        /\ UNCHANGED <<pkts, phase, next, decoded, order, events, status, errorMsg>>
    BY <1>10 DEF Process
  <2>2. LogInv' /\ batch' \in Seq(Event) /\ eventIndex' \in Nat
    BY <1>10, ProcessLog
  <2>3. Phases'
    BY <1>1, <2>1 DEF Phases
  <2>4. Sorted' /\ Filled'
    BY <1>1, <2>1 DEF Sorted, Filled, StableSort, Before
  <2>5. oi' \in 0 .. Len(pkts)
    <3>1. oi \in 0 .. Len(pkts)
      BY <1>1 DEF AnalysisTypeOK
    <3>. QED
      BY <3>1, <1>2, <2>1
  <2>6. AnalysisTypeOK'
    BY <1>1, <2>1, <2>2, <2>5 DEF AnalysisTypeOK
  <2>7. AnalysisInv'
    BY <1>1, <2>1, <2>2, <2>3, <2>4 DEF AnalysisInv
  <2>. QED
    BY <2>6, <2>7
<1>11. CASE Flush
  <2>1. /\ phase = "pass" /\ events' = Log /\ batch' = <<>>
        /\ UNCHANGED <<pkts, phase, next, decoded, order, oi, eventIndex, status, errorMsg>>
    BY <1>11 DEF Flush, Log
  <2>2. Log' = Log
    <3>1. Log' = Log \o <<>>
      BY <2>1 DEF Log
    <3>. QED
      BY <1>2, <3>1, ConcatEmptySeq
  <2>3. Whole(events)'
    BY <1>1, <2>1 DEF LogInv, Whole, Heads
  <2>4. LogInv'
    BY <1>1, <2>1, <2>2, <2>3, LogKept
  <2>5. Phases'
    BY <1>1, <2>1 DEF Phases
  <2>6. Sorted' /\ Filled'
    BY <1>1, <2>1 DEF Sorted, Filled, StableSort, Before
  <2>7. events' \in Seq(Event) /\ batch' \in Seq(Event)
    BY <1>2, <2>1, EmptySeq
  <2>8. AnalysisTypeOK'
    BY <1>1, <2>1, <2>7 DEF AnalysisTypeOK
  <2>9. AnalysisInv'
    BY <1>1, <2>1, <2>4, <2>5, <2>6 DEF AnalysisInv
  <2>. QED
    BY <2>8, <2>9
<1>12. CASE Finish
  <2>1. /\ phase = "pass" /\ oi = Len(pkts) /\ batch = <<>>
        /\ status' = "done" /\ phase' = "ended"
        /\ UNCHANGED <<pkts, next, decoded, order, oi, eventIndex, batch, events, errorMsg>>
    BY <1>12 DEF Finish
  <2>2. Log' = Log
    BY <2>1 DEF Log
  <2>3. LogInv'
    BY <1>1, <1>3, <1>4, <2>1, <2>2, LogKept
  <2>4. Phases'
    BY <1>1, <2>1 DEF Phases
  <2>5. Sorted' /\ Filled'
    BY <1>1, <2>1 DEF Sorted, Filled, StableSort, Before
  <2>. QED
    BY <1>1, <2>1, <2>3, <2>4, <2>5 DEF AnalysisTypeOK, AnalysisInv
<1>. QED
  BY <1>5, <1>6, <1>7, <1>8, <1>9, <1>10, <1>11, <1>12 DEF AnalysisNext

(* What the analysis does to what the streams look at: it appends to the   *)
(* log while it runs, and changes nothing once it has ended.               *)
LEMMA LogGrows ==
    ASSUME TypeOK, AnalysisInv, AnalysisNext
    PROVE  /\ status # "running" => UNCHANGED <<events, status, errorMsg>>
           /\ \/ UNCHANGED events
              \/ events' = events \o batch /\ batch # <<>> /\ UNCHANGED <<status, errorMsg>>
<1>1. (status = "running") <=> (phase # "ended")
  BY DEF AnalysisInv, Phases
<1>. QED
  BY <1>1 DEF AnalysisNext, Open, OpenFails, Fail, Decode, JoinDecoders, Process,
              Flush, Finish
-----------------------------------------------------------------------------
(***************************************************************************)
(* The streams keep theirs.                                                *)
(***************************************************************************)

(* What was sent before more was appended is still a prefix. *)
LEMMA PrefixOfConcat ==
    ASSUME NEW S, NEW s \in Seq(S), NEW t \in Seq(S), NEW n \in 0 .. Len(s)
    PROVE  SubSeq(s \o t, 1, n) = SubSeq(s, 1, n)
<1>1. CASE n = 0
  BY <1>1, SubSeqEmpty
<1>2. CASE n # 0
  <2>1. 1 \in 1 .. Len(s) /\ n \in 1 .. Len(s)
    BY <1>2
  <2>. QED
    BY <2>1, SubSeqOfConcat1
<1>. QED
  BY <1>1, <1>2

(* Appending the next events of a log to a prefix of it gives a prefix. *)
LEMMA PrefixExtended ==
    ASSUME NEW S, NEW s \in Seq(S), NEW m \in 0 .. Len(s), NEW n \in m .. Len(s)
    PROVE  SubSeq(s, 1, m) \o SubSeq(s, m + 1, n) = SubSeq(s, 1, n)
<1>1. 1 \in 1 .. Len(s) + 1 /\ m \in 1 - 1 .. Len(s) /\ Len(s) \in Nat
  OBVIOUS
<1>. QED
  BY <1>1, ConcatAdjacentSubSeq

StreamTypeOK ==
    /\ listed \in BOOLEAN /\ mStopping \in BOOLEAN
    /\ pc \in [Clients -> {"new", "found", "top", "act", "waiting", "closed"}]
    /\ st \in [Clients -> {"running", "done", "error"}]
    /\ chunk \in [Clients -> Seq(Event)]
    /\ \A c \in Clients : Len(chunk[c]) <= ChunkMax
    /\ sent \in [Clients -> Nat]
    /\ received \in [Clients -> Seq(Event)]
    /\ told \in [Clients -> {"open", "complete", "error", "closed"}]
    /\ total \in [Clients -> Nat]
    /\ why \in [Clients -> {"none", "cannot open"}]

(* The type invariant splits into that of the analysis and that of the clients. *)
LEMMA TypeSplit == TypeOK <=> AnalysisTypeOK /\ StreamTypeOK
BY DEF TypeOK, AnalysisTypeOK, StreamTypeOK

(* The invariant of the clients holds when nobody is connected. *)
LEMMA StreamStarts == SpecInit => StreamTypeOK /\ StreamParts
<1>. SUFFICES ASSUME SpecInit PROVE StreamTypeOK /\ StreamParts
  OBVIOUS
<1>1. StreamInit /\ events = <<>> /\ status = "running"
  BY DEF SpecInit, Init
<1>2. <<>> \in Seq(Event) /\ Len(<<>>) = 0
  BY EmptySeq
<1>3. StreamTypeOK
  <2>1. /\ chunk \in [Clients -> Seq(Event)] /\ received \in [Clients -> Seq(Event)]
        /\ \A c \in Clients : Len(chunk[c]) = 0
    BY <1>1, <1>2 DEF StreamInit
  <2>2. \A c \in Clients : Len(chunk[c]) <= ChunkMax
    BY <2>1, StreamAssumption
  <2>. QED
    BY <1>1, <2>1, <2>2 DEF StreamInit, StreamTypeOK
<1>4. StreamInv /\ CompleteMeansAll /\ ErrorSaysWhy
  BY <1>1, <1>2 DEF StreamInit, StreamInv, ClientInv, CompleteMeansAll, ErrorSaysWhy
<1>5. ReceivesPrefix
  <2>. SUFFICES ASSUME NEW c \in Clients
                PROVE  received[c] \o chunk[c] = SubSeq(events, 1, sent[c])
    BY DEF ReceivesPrefix
  <2>1. received[c] = <<>> /\ chunk[c] = <<>> /\ sent[c] = 0
    BY <1>1 DEF StreamInit
  <2>2. SubSeq(events, 1, 0) = <<>>
    BY SubSeqEmpty
  <2>3. <<>> \o <<>> = <<>>
    BY <1>2, ConcatEmptySeq
  <2>. QED
    BY <2>1, <2>2, <2>3
<1>. QED
  BY <1>3, <1>4, <1>5 DEF StreamParts

(* A step of the analysis under the streams. *)
LEMMA AnalysisUnderStreams ==
    ASSUME TypeOK, AnalysisInv, StreamParts, AnalysisNext, UNCHANGED streamVars
    PROVE  StreamTypeOK' /\ StreamParts'
<1>1. UNCHANGED <<listed, mStopping, pc, st, chunk, sent, received, told, total, why>>
  BY DEF streamVars
<1>2. StreamTypeOK'
  BY <1>1, TypeSplit DEF StreamTypeOK
<1>3. /\ status # "running" => UNCHANGED <<events, status, errorMsg>>
      /\ \/ UNCHANGED events
         \/ events' = events \o batch /\ batch # <<>> /\ UNCHANGED <<status, errorMsg>>
  BY LogGrows
<1>4. events \in Seq(Event) /\ batch \in Seq(Event) /\ sent \in [Clients -> Nat]
  BY DEF TypeOK
<1>5. /\ Len(events') \in Nat /\ Len(events) \in Nat
      /\ Len(events) <= Len(events')
  BY <1>3, <1>4, ConcatProperties
<1>6. StreamInv'
  <2>. SUFFICES ASSUME NEW c \in Clients PROVE ClientInv(c)'
    BY DEF StreamInv
  <2>1. ClientInv(c)
    BY DEF StreamParts, StreamInv
  <2>2. sent'[c] <= Len(events')
    BY <2>1, <1>1, <1>4, <1>5 DEF ClientInv
  <2>3. st[c] # "running" => UNCHANGED <<events, status>>
    BY <2>1, <1>3 DEF ClientInv
  <2>. QED
    BY <1>1, <2>1, <2>2, <2>3 DEF ClientInv
<1>7. ReceivesPrefix'
  <2>. SUFFICES ASSUME NEW c \in Clients
                PROVE  received[c] \o chunk[c] = SubSeq(events', 1, sent[c])
    BY <1>1 DEF ReceivesPrefix
  <2>1. received[c] \o chunk[c] = SubSeq(events, 1, sent[c])
    BY DEF StreamParts, ReceivesPrefix
  <2>2. sent[c] \in 0 .. Len(events)
    BY <1>4, <1>5 DEF StreamParts, StreamInv, ClientInv
  <2>3. SubSeq(events \o batch, 1, sent[c]) = SubSeq(events, 1, sent[c])
    BY <2>2, <1>4, PrefixOfConcat
  <2>. QED
    BY <2>1, <2>3, <1>3
<1>8. CompleteMeansAll' /\ ErrorSaysWhy'
  BY <1>1, <1>3 DEF StreamParts, CompleteMeansAll, ErrorSaysWhy
<1>. QED
  BY <1>2, <1>6, <1>7, <1>8 DEF StreamParts

Client(c) == Refuse(c) \/ Upgrade(c) \/ Serve(c) \/ Leave(c)

(* The steps that only move the client, or end its stream without a word.  *)
LEMMA MoveStep ==
    ASSUME TypeOK, StreamParts, NEW c \in Clients,
           \/ Refuse(c) \/ Upgrade(c) \/ Attach(c) \/ GoAway(c)
           \/ Idle(c) \/ Wake(c) \/ Leave(c)
    PROVE  StreamTypeOK' /\ StreamParts'
<1>1. /\ \/ /\ pc[c] # "closed"
            /\ pc' = [pc EXCEPT ![c] = "closed"] /\ told' = [told EXCEPT ![c] = "closed"]
         \/ /\ pc[c] # "closed" /\ UNCHANGED told
            /\ pc[c] \in {"new", "found", "waiting"} \/ chunk[c] = <<>>
            /\ \/ pc' = [pc EXCEPT ![c] = "found"] \/ pc' = [pc EXCEPT ![c] = "top"]
               \/ pc' = [pc EXCEPT ![c] = "waiting"]
      /\ UNCHANGED <<events, status, listed, mStopping, st, chunk, sent, received, total, why>>
  BY DEF Refuse, Upgrade, Attach, GoAway, Idle, Wake, Leave, Close, analysisVars
<1>2. StreamTypeOK'
  BY <1>1, TypeSplit DEF StreamTypeOK
<1>3. /\ pc \in [Clients -> {"new", "found", "top", "act", "waiting", "closed"}]
      /\ told \in [Clients -> {"open", "complete", "error", "closed"}]
  BY DEF TypeOK
<1>4. StreamInv'
  <2>. SUFFICES ASSUME NEW d \in Clients PROVE ClientInv(d)'
    BY DEF StreamInv
  <2>1. ClientInv(d)
    BY DEF StreamParts, StreamInv
  <2>2. CASE d # c
    BY <2>1, <2>2, <1>1, <1>3 DEF ClientInv
  <2>3. CASE d = c
    BY <2>1, <2>3, <1>1, <1>3 DEF ClientInv
  <2>. QED
    BY <2>2, <2>3
<1>5. ReceivesPrefix'
  BY <1>1 DEF StreamParts, ReceivesPrefix
<1>6. CompleteMeansAll' /\ ErrorSaysWhy'
  BY <1>1, <1>3 DEF StreamParts, CompleteMeansAll, ErrorSaysWhy
<1>. QED
  BY <1>2, <1>4, <1>5, <1>6 DEF StreamParts

(* A look at the log: what it takes continues what the client has.         *)
LEMMA TakeStep ==
    ASSUME TypeOK, StreamParts, NEW c \in Clients, Take(c)
    PROVE  StreamTypeOK' /\ StreamParts'
<1>. DEFINE end == ChunkLimit(c)
            new == SubSeq(events, sent[c] + 1, end)
<1>1. /\ pc[c] = "top"
      /\ st' = [st EXCEPT ![c] = status]
      /\ pc' = [pc EXCEPT ![c] = "act"]
      /\ UNCHANGED <<events, status, listed, mStopping, received, told, total, why>>
      /\ \/ /\ sent[c] < Len(events)
            /\ chunk' = [chunk EXCEPT ![c] = new] /\ sent' = [sent EXCEPT ![c] = end]
         \/ /\ ~(sent[c] < Len(events)) /\ UNCHANGED sent
            /\ chunk' = [chunk EXCEPT ![c] = <<>>]
  BY DEF Take, TakeRange, analysisVars
<1>2. /\ events \in Seq(Event) /\ ChunkMax \in Nat \ {0}
      /\ status \in {"running", "done", "error"}
      /\ pc \in [Clients -> {"new", "found", "top", "act", "waiting", "closed"}]
      /\ st \in [Clients -> {"running", "done", "error"}]
      /\ chunk \in [Clients -> Seq(Event)] /\ sent \in [Clients -> Nat]
      /\ received \in [Clients -> Seq(Event)]
      /\ \A d \in Clients : Len(chunk[d]) <= ChunkMax
  BY StreamAssumption DEF TypeOK
<1>3. ClientInv(c) /\ chunk[c] = <<>> /\ sent[c] \in Nat /\ sent[c] <= Len(events)
  <2>1. ClientInv(c) /\ sent[c] \in Nat
    BY <1>2 DEF StreamParts, StreamInv
  <2>. QED
    BY <2>1, <1>1 DEF ClientInv
<1>4. sent[c] < Len(events) =>
        /\ end \in Nat /\ sent[c] < end /\ end <= Len(events) /\ end <= sent[c] + ChunkMax
  BY <1>2, <1>3 DEF ChunkLimit
<1>. HIDE DEF end
<1>5. sent[c] < Len(events) =>
        /\ new \in Seq(Event) /\ Len(new) \in 1 .. ChunkMax /\ new # <<>>
  <2>. SUFFICES ASSUME sent[c] < Len(events)
                PROVE  new \in Seq(Event) /\ Len(new) \in 1 .. ChunkMax /\ new # <<>>
    OBVIOUS
  <2>1. sent[c] + 1 \in Int /\ end \in Int /\ sent[c] + 1 <= end
    BY <1>2, <1>3, <1>4
  <2>2. \A i \in sent[c] + 1 .. end : events[i] \in Event
    BY <1>2, <1>3, <1>4
  <2>3. new \in Seq(Event) /\ Len(new) = end - (sent[c] + 1) + 1
    BY <2>1, <2>2, SubSeqProperties
  <2>4. Len(new) \in 1 .. ChunkMax
    BY <2>3, <1>2, <1>3, <1>4
  <2>5. new # <<>>
    <3>. HIDE DEF new
    <3>1. Len(new) # 0
      BY <2>4
    <3>2. Len(<<>>) = 0
      BY EmptySeq
    <3>. QED
      BY <3>1, <3>2
  <2>. QED
    BY <2>3, <2>4, <2>5
<1>6. <<>> \in Seq(Event) /\ Len(<<>>) = 0
  BY EmptySeq
<1>. HIDE DEF new
<1>7. StreamTypeOK'
  <2>1. chunk' \in [Clients -> Seq(Event)] /\ sent' \in [Clients -> Nat]
    BY <1>1, <1>2, <1>4, <1>5, <1>6
  <2>2. \A d \in Clients : Len(chunk'[d]) <= ChunkMax
    <3>. SUFFICES ASSUME NEW d \in Clients PROVE Len(chunk'[d]) <= ChunkMax
      OBVIOUS
    <3>1. CASE d # c
      BY <3>1, <1>1, <1>2
    <3>2. CASE d = c /\ sent[c] < Len(events)
      <4>1. chunk'[d] = new
        BY <3>2, <1>1, <1>2
      <4>. QED
        BY <4>1, <3>2, <1>2, <1>5
    <3>3. CASE d = c /\ ~(sent[c] < Len(events))
      <4>1. chunk'[d] = <<>>
        BY <3>3, <1>1, <1>2
      <4>. QED
        BY <4>1, <1>2, <1>6
    <3>. QED
      BY <3>1, <3>2, <3>3
  <2>3. pc' \in [Clients -> {"new", "found", "top", "act", "waiting", "closed"}]
    BY <1>1, <1>2
  <2>4. st' \in [Clients -> {"running", "done", "error"}]
    BY <1>1, <1>2
  <2>5. StreamTypeOK
    BY TypeSplit
  <2>. QED
    BY <1>1, <2>1, <2>2, <2>3, <2>4, <2>5 DEF StreamTypeOK
<1>8. StreamInv'
  <2>. SUFFICES ASSUME NEW d \in Clients PROVE ClientInv(d)'
    BY DEF StreamInv
  <2>1. ClientInv(d)
    BY DEF StreamParts, StreamInv
  <2>2. CASE d # c
    BY <2>1, <2>2, <1>1, <1>2 DEF ClientInv
  <2>3. CASE d = c
    <3>1. pc'[c] = "act" /\ st'[c] = status /\ told'[c] = "open"
      BY <1>1, <1>2, <1>3 DEF ClientInv
    <3>2. sent'[c] <= Len(events')
      BY <1>1, <1>2, <1>3, <1>4
    <3>3. chunk'[c] = <<>> => sent'[c] = Len(events')
      BY <1>1, <1>2, <1>3, <1>5
    <3>. QED
      BY <2>3, <3>1, <3>2, <3>3, <1>1 DEF ClientInv
  <2>. QED
    BY <2>2, <2>3
<1>9. ReceivesPrefix'
  <2>. SUFFICES ASSUME NEW d \in Clients
                PROVE  received[d] \o chunk'[d] = SubSeq(events, 1, sent'[d])
    BY <1>1 DEF ReceivesPrefix
  <2>1. received[d] \o chunk[d] = SubSeq(events, 1, sent[d])
    BY DEF StreamParts, ReceivesPrefix
  <2>2. CASE d # c
    BY <2>1, <2>2, <1>1, <1>2
  <2>3. CASE d = c /\ sent[c] < Len(events)
    <3>1. received[c] = SubSeq(events, 1, sent[c])
      BY <2>1, <2>3, <1>2, <1>3, ConcatEmptySeq
    <3>2. chunk'[c] = SubSeq(events, sent[c] + 1, end) /\ sent'[c] = end
      BY <2>3, <1>1, <1>2 DEF new
    <3>3. sent[c] \in 0 .. Len(events) /\ end \in sent[c] .. Len(events)
      BY <2>3, <1>2, <1>3, <1>4
    <3>4. SubSeq(events, 1, sent[c]) \o SubSeq(events, sent[c] + 1, end) = SubSeq(events, 1, end)
      <4>1. events \in Seq(Event)
        BY <1>2
      <4>. QED
        BY <3>3, <4>1, PrefixExtended
    <3>. QED
      BY <2>3, <3>1, <3>2, <3>4
  <2>4. CASE d = c /\ ~(sent[c] < Len(events))
    BY <2>1, <2>4, <1>1, <1>2, <1>3
  <2>. QED
    BY <2>2, <2>3, <2>4
<1>10. CompleteMeansAll' /\ ErrorSaysWhy'
  BY <1>1 DEF StreamParts, CompleteMeansAll, ErrorSaysWhy
<1>. QED
  BY <1>7, <1>8, <1>9, <1>10 DEF StreamParts

(* A frame goes out: what was on its way has arrived. *)
LEMMA SendStep ==
    ASSUME TypeOK, StreamParts, NEW c \in Clients, SendBatch(c)
    PROVE  StreamTypeOK' /\ StreamParts'
<1>. DEFINE all == received[c] \o chunk[c]
<1>1. /\ pc[c] = "act"
      /\ received' = [received EXCEPT ![c] = all]
      /\ chunk' = [chunk EXCEPT ![c] = <<>>]
      /\ pc' = [pc EXCEPT ![c] = "top"]
      /\ UNCHANGED <<events, status, listed, mStopping, st, sent, told, total, why>>
  BY DEF SendBatch, analysisVars
<1>2. /\ StreamTypeOK /\ ChunkMax \in Nat \ {0}
      /\ pc \in [Clients -> {"new", "found", "top", "act", "waiting", "closed"}]
      /\ chunk \in [Clients -> Seq(Event)] /\ received \in [Clients -> Seq(Event)]
      /\ \A d \in Clients : Len(chunk[d]) <= ChunkMax
  BY StreamAssumption, TypeSplit DEF StreamTypeOK
<1>3. all \in Seq(Event) /\ all \o <<>> = all
  <2>1. received[c] \in Seq(Event) /\ chunk[c] \in Seq(Event)
    BY <1>2
  <2>2. all \in Seq(Event)
    BY <2>1, ConcatProperties
  <2>. HIDE DEF all
  <2>. QED
    BY <2>2, ConcatEmptySeq
<1>4. all = SubSeq(events, 1, sent[c])
  BY DEF StreamParts, ReceivesPrefix
<1>. HIDE DEF all
<1>5. <<>> \in Seq(Event) /\ Len(<<>>) = 0
  BY EmptySeq
<1>6. StreamTypeOK'
  <2>1. chunk' \in [Clients -> Seq(Event)] /\ received' \in [Clients -> Seq(Event)]
    BY <1>1, <1>2, <1>3, <1>5
  <2>2. \A d \in Clients : Len(chunk'[d]) <= ChunkMax
    <3>. SUFFICES ASSUME NEW d \in Clients PROVE Len(chunk'[d]) <= ChunkMax
      OBVIOUS
    <3>1. CASE d # c
      BY <3>1, <1>1, <1>2
    <3>2. CASE d = c
      <4>1. chunk'[d] = <<>>
        BY <3>2, <1>1, <1>2
      <4>. QED
        BY <4>1, <1>2, <1>5
    <3>. QED
      BY <3>1, <3>2
  <2>. QED
    BY <1>1, <1>2, <2>1, <2>2 DEF StreamTypeOK
<1>7. StreamInv'
  <2>. SUFFICES ASSUME NEW d \in Clients PROVE ClientInv(d)'
    BY DEF StreamInv
  <2>1. ClientInv(d)
    BY DEF StreamParts, StreamInv
  <2>2. CASE d # c
    BY <2>1, <2>2, <1>1, <1>2 DEF ClientInv
  <2>3. CASE d = c
    BY <2>1, <2>3, <1>1, <1>2 DEF ClientInv
  <2>. QED
    BY <2>2, <2>3
<1>8. ReceivesPrefix'
  <2>. SUFFICES ASSUME NEW d \in Clients
                PROVE  received'[d] \o chunk'[d] = SubSeq(events, 1, sent[d])
    BY <1>1 DEF ReceivesPrefix
  <2>1. CASE d # c
    BY <2>1, <1>1, <1>2 DEF StreamParts, ReceivesPrefix
  <2>2. CASE d = c
    <3>1. received'[c] = all /\ chunk'[c] = <<>>
      BY <1>1, <1>2
    <3>. QED
      BY <2>2, <3>1, <1>3, <1>4
  <2>. QED
    BY <2>1, <2>2
<1>9. CompleteMeansAll' /\ ErrorSaysWhy'
  <2>1. told[c] = "open"
    BY <1>1 DEF StreamParts, StreamInv, ClientInv
  <2>. QED
    BY <2>1, <1>1, <1>2 DEF StreamParts, CompleteMeansAll, ErrorSaysWhy
<1>. QED
  BY <1>6, <1>7, <1>8, <1>9 DEF StreamParts

(* The end of the stream is announced truthfully. *)
LEMMA EndStep ==
    ASSUME TypeOK, AnalysisInv, StreamParts, NEW c \in Clients, EndStream(c)
    PROVE  /\ StreamTypeOK' /\ StreamParts'
           /\ st[c] # "error" => status = "done" /\ received[c] = events
           /\ st[c] = "error" => status = "error"
<1>1. /\ pc[c] = "act" /\ chunk[c] = <<>> /\ st[c] # "running"
      /\ pc' = [pc EXCEPT ![c] = "closed"]
      /\ UNCHANGED <<events, status, listed, mStopping, st, chunk, sent, received>>
  BY DEF EndStream, Close, analysisVars
<1>2. \/ /\ st[c] = "error"
         /\ told' = [told EXCEPT ![c] = "error"]
         /\ why' = [why EXCEPT ![c] = errorMsg] /\ UNCHANGED total
      \/ /\ st[c] # "error"
         /\ told' = [told EXCEPT ![c] = "complete"]
         /\ total' = [total EXCEPT ![c] = sent[c]] /\ UNCHANGED why
  BY DEF EndStream, Close
<1>3. /\ StreamTypeOK /\ AnalysisTypeOK /\ events \in Seq(Event)
      /\ pc \in [Clients -> {"new", "found", "top", "act", "waiting", "closed"}]
      /\ told \in [Clients -> {"open", "complete", "error", "closed"}]
      /\ st \in [Clients -> {"running", "done", "error"}]
      /\ received \in [Clients -> Seq(Event)]
      /\ total \in [Clients -> Nat] /\ sent \in [Clients -> Nat]
      /\ why \in [Clients -> {"none", "cannot open"}] /\ errorMsg \in {"none", "cannot open"}
  BY TypeSplit DEF StreamTypeOK, AnalysisTypeOK
<1>4. st[c] = status /\ (st[c] = "done" => sent[c] = Len(events))
  BY <1>1 DEF StreamParts, StreamInv, ClientInv
<1>5. received[c] = SubSeq(events, 1, sent[c])
  <2>1. received[c] \o chunk[c] = SubSeq(events, 1, sent[c])
    BY DEF StreamParts, ReceivesPrefix
  <2>2. received[c] \in Seq(Event)
    BY <1>3
  <2>3. received[c] \o <<>> = received[c]
    BY <2>2, ConcatEmptySeq
  <2>. QED
    BY <2>1, <2>3, <1>1
<1>6. st[c] # "error" => st[c] = "done"
  BY <1>1, <1>3
<1>7. st[c] = "done" => received[c] = events /\ sent[c] = Len(events)
  <2>1. SubSeq(events, 1, Len(events)) = events
    BY <1>3, SubSeqFull
  <2>. QED
    BY <2>1, <1>4, <1>5
<1>8. status = "error" => errorMsg = "cannot open"
  BY DEF AnalysisInv, Phases
<1>9. StreamTypeOK'
  <2>1. pc' \in [Clients -> {"new", "found", "top", "act", "waiting", "closed"}]
    BY <1>1, <1>3
  <2>2. told' \in [Clients -> {"open", "complete", "error", "closed"}]
    BY <1>2, <1>3
  <2>3. total' \in [Clients -> Nat]
    BY <1>2, <1>3
  <2>4. why' \in [Clients -> {"none", "cannot open"}]
    BY <1>2, <1>3
  <2>5. UNCHANGED <<listed, mStopping, st, chunk, sent, received>> /\ StreamTypeOK
    BY <1>1, <1>3
  <2>. QED
    BY <2>1, <2>2, <2>3, <2>4, <2>5 DEF StreamTypeOK
<1>10. StreamInv'
  <2>. SUFFICES ASSUME NEW d \in Clients PROVE ClientInv(d)'
    BY DEF StreamInv
  <2>1. ClientInv(d)
    BY DEF StreamParts, StreamInv
  <2>2. CASE d # c
    BY <2>1, <2>2, <1>1, <1>2, <1>3 DEF ClientInv
  <2>3. CASE d = c
    BY <2>1, <2>3, <1>1, <1>2, <1>3 DEF ClientInv
  <2>. QED
    BY <2>2, <2>3
<1>11. ReceivesPrefix'
  BY <1>1 DEF StreamParts, ReceivesPrefix
<1>12. CompleteMeansAll'
  <2>. SUFFICES ASSUME NEW d \in Clients, told'[d] = "complete"
                PROVE  status = "done" /\ received[d] = events /\ total'[d] = Len(events)
    BY <1>1 DEF CompleteMeansAll
  <2>1. CASE d # c
    BY <2>1, <1>2, <1>3 DEF StreamParts, CompleteMeansAll
  <2>2. CASE d = c
    BY <2>2, <1>2, <1>3, <1>4, <1>6, <1>7
  <2>. QED
    BY <2>1, <2>2
<1>13. ErrorSaysWhy'
  <2>. SUFFICES ASSUME NEW d \in Clients, told'[d] = "error"
                PROVE  status = "error" /\ why'[d] = "cannot open"
    BY <1>1 DEF ErrorSaysWhy
  <2>1. CASE d # c
    BY <2>1, <1>2, <1>3 DEF StreamParts, ErrorSaysWhy
  <2>2. CASE d = c
    BY <2>2, <1>2, <1>3, <1>4, <1>8
  <2>. QED
    BY <2>1, <2>2
<1>. QED
  BY <1>4, <1>6, <1>7, <1>9, <1>10, <1>11, <1>12, <1>13 DEF StreamParts

(* What a client's step leaves alone. *)
LEMMA ClientFrame ==
    ASSUME NEW c \in Clients, Client(c)
    PROVE  UNCHANGED analysisVars
BY DEF Client, Refuse, Upgrade, Serve, Attach, GoAway, Take, TakeRange, SendBatch,
       EndStream, Idle, Wake, Leave

(* The analysis' part of the invariant survives a client's step. *)
LEMMA AnalysisKept ==
    ASSUME Inv, UNCHANGED analysisVars
    PROVE  AnalysisTypeOK' /\ AnalysisInv'
<1>1. UNCHANGED <<pkts, phase, next, decoded, order, oi, eventIndex, batch, events,
                  status, errorMsg>>
  BY DEF analysisVars
<1>2. AnalysisTypeOK'
  BY <1>1, TypeSplit DEF Inv, AnalysisTypeOK
<1>3. Log' = Log /\ Whole(events)' = Whole(events)
  BY <1>1 DEF Log, Whole, Heads
<1>4. LogInv'
  <2>1. LogInv
    BY DEF Inv, AnalysisInv
  <2>2. Whole(events)'
    BY <1>3, <2>1 DEF LogInv
  <2>. QED
    BY <1>1, <1>3, <2>1, <2>2, LogKept
<1>5. Phases' /\ Sorted'
  <2>1. Phases /\ Sorted
    BY DEF Inv, AnalysisInv
  <2>2. Phases'
    <3>1. /\ phase' = phase /\ oi' = oi /\ status' = status
          /\ errorMsg' = errorMsg /\ pkts' = pkts /\ batch' = batch
      BY <1>1
    <3>. QED
      BY <3>1, <1>3, <2>1, ZenonT(40) DEF Phases
  <2>3. Sorted'
    BY <1>1, <2>1, SMTT(40) DEF Sorted, StableSort, Before
  <2>. QED
    BY <2>2, <2>3
<1>6. Filled'
  <2>1. Decoders' = Decoders /\ \A v : ChunkBegin(v, Len(pkts))' = ChunkBegin(v, Len(pkts))
    BY <1>1 DEF Decoders
  <2>2. Filled
    BY DEF Inv, AnalysisInv
  <2>. QED
    BY <2>1, <2>2, <1>1 DEF Filled
<1>. QED
  BY <1>1, <1>2, <1>4, <1>5, <1>6 DEF Inv, AnalysisInv

(* A step that concerns neither the log nor a client's stream. *)
LEMMA QuietStep ==
    ASSUME Inv, UNCHANGED <<analysisVars, pc, st, chunk, sent, received, told, total, why>>,
           listed' \in BOOLEAN, mStopping' \in BOOLEAN
    PROVE  Inv'
<1>1. UNCHANGED <<events, status, pc, st, chunk, sent, received, told, total, why>>
  BY DEF analysisVars
<1>2. AnalysisTypeOK' /\ AnalysisInv'
  BY AnalysisKept
<1>3. StreamTypeOK'
  BY <1>1, TypeSplit DEF Inv, StreamTypeOK
<1>4. StreamParts'
  BY <1>1 DEF Inv, StreamParts, StreamInv, ClientInv, ReceivesPrefix,
              CompleteMeansAll, ErrorSaysWhy
<1>5. TypeOK'
  BY <1>2, <1>3 DEF TypeOK, AnalysisTypeOK, StreamTypeOK
<1>. QED
  BY <1>2, <1>4, <1>5 DEF Inv

(* The invariant holds in every reachable state. *)
LEMMA Invariance == Spec => []Inv
<1>1. SpecInit => Inv
  BY AnalysisStarts, StreamStarts, TypeSplit DEF Inv
<1>2. ASSUME Inv, [Next]_vars PROVE Inv'
  <2>1. CASE AnalysisNext /\ UNCHANGED streamVars
    <3>1. AnalysisTypeOK' /\ AnalysisInv'
      BY <1>2, <2>1, AnalysisStep DEF Inv
    <3>2. StreamTypeOK' /\ StreamParts'
      BY <1>2, <2>1, AnalysisUnderStreams DEF Inv
    <3>3. TypeOK'
      BY <3>1, <3>2 DEF TypeOK, AnalysisTypeOK, StreamTypeOK
    <3>. QED
      BY <3>1, <3>2, <3>3 DEF Inv
  <2>2. CASE Delete \/ Stop
    <3>1. UNCHANGED <<analysisVars, pc, st, chunk, sent, received, told, total, why>>
      BY <2>2 DEF Delete, Stop
    <3>2. listed' \in BOOLEAN /\ mStopping' \in BOOLEAN
      BY <1>2, <2>2 DEF Delete, Stop, Inv, TypeOK
    <3>. QED
      BY <1>2, <3>1, <3>2, QuietStep
  <2>3. ASSUME NEW c \in Clients, Client(c) PROVE Inv'
    <3>1. AnalysisTypeOK' /\ AnalysisInv'
      BY <1>2, <2>3, ClientFrame, AnalysisKept
    <3>2. StreamTypeOK' /\ StreamParts'
      BY <1>2, <2>3, MoveStep, TakeStep, SendStep, EndStep DEF Client, Serve, Inv
    <3>3. TypeOK'
      BY <3>1, <3>2 DEF TypeOK, AnalysisTypeOK, StreamTypeOK
    <3>. QED
      BY <3>1, <3>2, <3>3 DEF Inv
  <2>4. CASE UNCHANGED vars
    <3>1. UNCHANGED <<analysisVars, pc, st, chunk, sent, received, told, total, why>>
      BY <2>4 DEF vars, streamVars
    <3>2. listed' \in BOOLEAN /\ mStopping' \in BOOLEAN
      BY <1>2, <2>4 DEF vars, streamVars, Inv, TypeOK
    <3>. QED
      BY <1>2, <3>1, <3>2, QuietStep
  <2>. QED
    BY <1>2, <2>1, <2>2, <2>3, <2>4 DEF Next, Client
<1>. QED
  BY <1>1, <1>2, PTL DEF Spec
-----------------------------------------------------------------------------
(***************************************************************************)
(* The theorems.                                                           *)
(***************************************************************************)

(* The state of the analysis and of every stream is well typed; no frame   *)
(* holds more than ChunkMax events.                                        *)
THEOREM TypeCorrect == Spec => []TypeOK
<1>1. Inv => TypeOK
  BY DEF Inv
<1>. QED
  BY <1>1, Invariance, PTL

(* What is published is where the whole log has it. *)
LEMMA PublishedInLog ==
    ASSUME Inv
    PROVE  /\ events \in Seq(Event) /\ Len(events) \in Nat
           /\ Heads(events) \subseteq Heads(Log) /\ DOMAIN events \subseteq DOMAIN Log
           /\ \A x \in DOMAIN events : Log[x] = events[x]
<1>1. events \in Seq(Event) /\ batch \in Seq(Event)
  BY DEF Inv, TypeOK
<1>2. \A x \in DOMAIN events : x \in DOMAIN Log /\ Log[x] = events[x]
  BY <1>1, LogTyped
<1>. QED
  BY <1>1, <1>2 DEF Heads

(* Session::events is numbered densely in the order of publication, in     *)
(* batches of any size (Engine::analyze).                                  *)
THEOREM NumberedDensely == Spec => []DenseNumbers
<1>1. ASSUME Inv PROVE DenseNumbers
  <2>1. Numbered
    BY <1>1 DEF Inv, AnalysisInv, LogInv
  <2>2. Len(Log) = Len(events) + Len(batch)
    BY <1>1, LogTyped DEF Inv, TypeOK
  <2>. QED
    BY <1>1, <2>1, <2>2, PublishedInLog DEF DenseNumbers, Numbered
<1>. QED
  BY <1>1, Invariance, PTL

(* The log reports packets in capture order and each once, for any number  *)
(* of decoding threads (CO-3).                                             *)
THEOREM OrderedAsCaptured == Spec => []CaptureOrder
<1>1. ASSUME Inv PROVE CaptureOrder
  <2>1. InOrder(Log)
    BY <1>1 DEF Inv, AnalysisInv, LogInv
  <2>2. Heads(events) \subseteq DOMAIN events
    BY DEF Heads
  <2>. QED
    BY <1>1, <2>1, <2>2, PublishedInLog DEF CaptureOrder, InOrder
<1>. QED
  BY <1>1, Invariance, PTL

(* A packet's event and its transitions are published together.            *)
THEOREM PacketsWhole == Spec => []WholePackets
<1>1. Inv => WholePackets
  BY DEF Inv, AnalysisInv, LogInv, Whole, WholePackets
<1>. QED
  BY <1>1, Invariance, PTL

(* A Done session misses no relevant packet, whatever the number of        *)
(* processors and the size of the chunks (CO-2).                           *)
THEOREM DoneComplete == Spec => []DoneIsComplete
<1>1. ASSUME Inv, status = "done" PROVE
        /\ {events[x].n : x \in Heads(events)} = {k \in DOMAIN pkts : pkts[k].interesting}
        /\ batch = <<>>
  <2>1. /\ oi = Len(pkts) /\ batch = <<>> /\ order \in StableSort /\ pkts \in Captures
        /\ Reported /\ NoneMissing /\ OnlyRelevant
    BY <1>1 DEF Inv, AnalysisInv, LogInv, Phases, Sorted
  <2>2. Log = events
    <3>1. events \in Seq(Event)
      BY <1>1 DEF Inv, TypeOK
    <3>2. events \o <<>> = events
      BY <3>1, ConcatEmptySeq
    <3>. QED
      BY <2>1, <3>2 DEF Log
  <2>3. /\ DOMAIN pkts = 1 .. Len(pkts)
        /\ order \in [DOMAIN pkts -> DOMAIN pkts]
        /\ \A k \in DOMAIN pkts : \E j \in DOMAIN pkts : order[j] = k
    BY <2>1, CaptureTyped, SortedHoldsAll
  <2>4. \A x \in Heads(events) :
          events[x].n \in {k \in DOMAIN pkts : pkts[k].interesting}
    BY <2>1, <2>2, <2>3 DEF Reported, OnlyRelevant
  <2>5. \A k \in DOMAIN pkts : pkts[k].interesting =>
          \E x \in Heads(events) : events[x].n = k
    <3>. SUFFICES ASSUME NEW k \in DOMAIN pkts, pkts[k].interesting
                  PROVE  \E x \in Heads(events) : events[x].n = k
      OBVIOUS
    <3>1. PICK j \in 1 .. oi : order[j] = k
      BY <2>1, <2>3
    <3>. QED
      BY <3>1, <2>1, <2>2 DEF NoneMissing
  <2>. QED
    BY <2>1, <2>4, <2>5
<1>2. Inv => DoneIsComplete
  BY <1>1 DEF DoneIsComplete
<1>. QED
  BY <1>2, Invariance, PTL

(* Any number of clients, attached at any time: each has received a prefix *)
(* of the log (Api::streamSession).                                        *)
THEOREM PrefixReceived == Spec => []ReceivesPrefix
<1>1. Inv => ReceivesPrefix
  BY DEF Inv, StreamParts
<1>. QED
  BY <1>1, Invariance, PTL

(* A client told "complete" has every event of a Done session.             *)
THEOREM CompleteTold == Spec => []CompleteMeansAll
<1>1. Inv => CompleteMeansAll
  BY DEF Inv, StreamParts
<1>. QED
  BY <1>1, Invariance, PTL

(* A client told of an error is told which: failSession stores the message *)
(* before the status.                                                      *)
THEOREM ErrorTold == Spec => []ErrorSaysWhy
<1>1. Inv => ErrorSaysWhy
  BY DEF Inv, StreamParts
<1>. QED
  BY <1>1, Invariance, PTL

(* The three together: a stream is true of the analysis it watches.         *)
THEOREM StreamsTrue == Spec => []TellsTrue
<1>1. Inv => TellsTrue
  BY DEF Inv, StreamParts, TellsTrue
<1>. QED
  BY <1>1, Invariance, PTL

(* The stream of events implements the feed that docs/API.md promises.     *)
THEOREM FeedImplemented == Spec => ImplementsFeed
<1>1. SpecInit => Feed!Init
  BY DEF SpecInit, Init, StreamInit, Feed!Init
<1>2. ASSUME Inv, [Next]_vars PROVE [Feed!Next]_Feed!feedVars
  <2>1. CASE AnalysisNext /\ UNCHANGED streamVars
    <3>1. UNCHANGED <<received, told>>
      BY <2>1 DEF streamVars
    <3>2. CASE Flush
      <4>1. events' = events \o batch /\ batch # <<>> /\ status = "running" /\ UNCHANGED status
        BY <1>2, <3>2 DEF Flush, Inv, AnalysisInv, Phases
      <4>2. events \in Seq(Event) /\ batch \in Seq(Event)
        BY <1>2 DEF Inv, TypeOK
      <4>3. Len(events) <= Len(events \o batch) /\ Len(events) \in Nat
        BY <4>2, ConcatProperties
      <4>4. SubSeq(events, 1, Len(events)) = SubSeq(events \o batch, 1, Len(events))
        BY <4>2, <4>3, PrefixOfConcat
      <4>5. events # events \o batch
        BY <4>1, <4>2, ConcatEqualIffEmpty
      <4>6. Feed!IsStrictPrefix(events, events')
        BY <4>1, <4>3, <4>4, <4>5 DEF Feed!IsStrictPrefix, Feed!IsPrefix
      <4>. QED
        BY <3>1, <4>1, <4>6 DEF Feed!Next, Feed!Publish
    <3>3. CASE Finish
      <4>1. status = "running" /\ status' = "done" /\ UNCHANGED events
        BY <1>2, <3>3 DEF Finish, Inv, AnalysisInv, Phases
      <4>. QED
        BY <3>1, <4>1 DEF Feed!Next, Feed!Conclude
    <3>4. CASE Fail
      <4>1. /\ status = "running" /\ status' = "error" /\ UNCHANGED events
            /\ Log = <<>> /\ events \in Seq(Event) /\ batch \in Seq(Event)
        BY <1>2, <3>4 DEF Fail, Inv, TypeOK, AnalysisInv, Phases
      <4>2. events = <<>>
        BY <4>1, ConcatEqualIffEmpty DEF Log
      <4>. QED
        BY <3>1, <4>1, <4>2 DEF Feed!Next, Feed!Conclude
    <3>5. CASE Open \/ OpenFails \/ JoinDecoders \/ Process \/ \E w \in Decoders : Decode(w)
      <4>1. UNCHANGED <<events, status>>
        BY <3>5 DEF Open, OpenFails, JoinDecoders, Process, Decode
      <4>. QED
        BY <3>1, <4>1 DEF Feed!feedVars
    <3>. QED
      BY <2>1, <3>2, <3>3, <3>4, <3>5 DEF AnalysisNext
  <2>2. CASE Delete \/ Stop \/ UNCHANGED vars
    <3>1. UNCHANGED <<events, status, received, told>>
      BY <2>2 DEF Delete, Stop, vars, streamVars, analysisVars
    <3>. QED
      BY <3>1 DEF Feed!feedVars
  <2>3. ASSUME NEW c \in Clients, Client(c) PROVE [Feed!Next]_Feed!feedVars
    <3>1. /\ UNCHANGED <<events, status>>
          /\ ClientInv(c) /\ received[c] \o chunk[c] = SubSeq(events, 1, sent[c])
          /\ chunk[c] \in Seq(Event) /\ received[c] \in Seq(Event) /\ events \in Seq(Event)
          /\ sent[c] \in Nat /\ Len(events) \in Nat
      <4>1. UNCHANGED <<events, status>>
        BY <2>3, ClientFrame DEF analysisVars
      <4>2. ClientInv(c) /\ received[c] \o chunk[c] = SubSeq(events, 1, sent[c])
        BY <1>2 DEF Inv, StreamParts, StreamInv, ReceivesPrefix
      <4>3. events \in Seq(Event)
        BY <1>2 DEF Inv, TypeOK
      <4>4. /\ chunk \in [Clients -> Seq(Event)] /\ received \in [Clients -> Seq(Event)]
            /\ sent \in [Clients -> Nat]
        BY <1>2 DEF Inv, TypeOK
      <4>. QED
        BY <4>1, <4>2, <4>3, <4>4, LenProperties
    <3>2. CASE SendBatch(c)
      <4>1. /\ received' = [received EXCEPT ![c] = SubSeq(events, 1, sent[c])]
            /\ chunk[c] # <<>> /\ pc[c] = "act" /\ UNCHANGED told
        BY <3>1, <3>2 DEF SendBatch
      <4>2. told[c] = "open" /\ sent[c] <= Len(events)
        BY <3>1, <4>1 DEF ClientInv
      <4>3. sent[c] \in Len(received[c]) + 1 .. Len(events)
        <5>1. Len(received[c] \o chunk[c]) = Len(received[c]) + Len(chunk[c])
          BY <3>1, ConcatProperties
        <5>2. Len(SubSeq(events, 1, sent[c])) = sent[c]
          <6>1. \A i \in 1 .. sent[c] : events[i] \in Event
            BY <3>1, <4>2
          <6>. QED
            BY <3>1, <6>1, SubSeqProperties
        <5>3. Len(chunk[c]) \in Nat \ {0} /\ Len(received[c]) \in Nat
          BY <3>1, <4>1, EmptySeq
        <5>4. sent[c] = Len(received[c]) + Len(chunk[c])
          BY <3>1, <5>1, <5>2
        <5>5. sent[c] \in Nat /\ Len(events) \in Nat
          BY <3>1
        <5>6. \A r, k, s, e \in Nat : k # 0 /\ s = r + k /\ s <= e => s \in r + 1 .. e
          OBVIOUS
        <5>7. Len(chunk[c]) \in Nat /\ Len(chunk[c]) # 0
          BY <5>3
        <5>. QED
          BY <4>2, <5>3, <5>4, <5>5, <5>6, <5>7, Zenon
      <4>4. Feed!Receive(c)
        BY <3>1, <4>1, <4>2, <4>3 DEF Feed!Receive
      <4>. QED
        BY <4>4 DEF Feed!Next
    <3>3. CASE EndStream(c)
      <4>1. told[c] = "open" /\ UNCHANGED received
        BY <3>1, <3>3 DEF EndStream, ClientInv
      <4>2. /\ st[c] # "error" => status = "done" /\ received[c] = events
            /\ st[c] = "error" => status = "error"
        BY <1>2, <3>3, EndStep DEF Inv
      <4>3. told' = [told EXCEPT ![c] = IF st[c] = "error" THEN "error" ELSE "complete"]
        BY <3>3 DEF EndStream, Close
      <4>4. Feed!Tell(c)
        BY <3>1, <4>1, <4>2, <4>3 DEF Feed!Tell
      <4>. QED
        BY <4>4 DEF Feed!Next
    <3>4. CASE Refuse(c) \/ Upgrade(c) \/ Attach(c) \/ GoAway(c) \/ Take(c)
               \/ Idle(c) \/ Wake(c) \/ Leave(c)
      <4>1. /\ UNCHANGED received
            /\ \/ UNCHANGED told
               \/ pc[c] # "closed" /\ told' = [told EXCEPT ![c] = "closed"]
        BY <3>4 DEF Refuse, Upgrade, Attach, GoAway, Take, TakeRange, Idle, Wake, Leave, Close
      <4>2. CASE UNCHANGED told
        BY <3>1, <4>1, <4>2 DEF Feed!feedVars
      <4>3. CASE pc[c] # "closed" /\ told' = [told EXCEPT ![c] = "closed"]
        <5>1. Feed!Tell(c)
          BY <3>1, <4>1, <4>3 DEF ClientInv, Feed!Tell
        <5>. QED
          BY <5>1 DEF Feed!Next
      <4>. QED
        BY <4>1, <4>2, <4>3
    <3>. QED
      BY <2>3, <3>2, <3>3, <3>4 DEF Client, Serve
  <2>. QED
    BY <1>2, <2>1, <2>2, <2>3 DEF Next, Client
<1>. QED
  BY <1>1, <1>2, Invariance, PTL DEF Spec, ImplementsFeed, Feed!Spec
=============================================================================
