-------------------------- MODULE ObserversProofs ---------------------------
(***************************************************************************)
(* Proofs about Observers, for every set of captures: the types, that the  *)
(* truth shared of a clock is the one on the wire (ClockTruth), that the   *)
(* comparison of the clocks rests on valid announcements (BmcaTruth), and  *)
(* that no Pdelay_Req and no AECP command goes unaccounted for             *)
(* (Accounted).  A packet is for one analyzer: what the invariant says of  *)
(* the others only has to outlive the passing of time.                     *)
(***************************************************************************)
EXTENDS Observers, FiniteSetTheorems, TLAPS

(* The clock of the analysis goes from t to u; settled says that the ticks *)
(* of the packet in hand are over.                                         *)
Passes == /\ now \in Nat /\ now' \in Nat /\ now =< now'
          /\ due \in BOOLEAN /\ due' \in BOOLEAN
          /\ due' \/ (now' = now /\ ~due)

(***************************************************************************)
(* AECP                                                                    *)
(***************************************************************************)

(* A set with a count for its size: empty, or of one element. *)
AtMostOne(s) == \A x, y \in s : x = y

AecpTypes ==
    /\ aemInflight \subseteq [key : Pairs \X AecpSeqIds, sentTs : Nat]
    /\ IsFiniteSet(aemInflight)
    /\ pair \in [Pairs -> [commands : 0 .. MaxCommands, responses : 0 .. MaxCommands,
                           timeouts : Nat, unsolicited : 0 .. MaxCommands,
                           rtt : Nat \cup {Never}]]
    /\ entityNames \in [Targets -> Names]
    /\ fate \in [Pairs -> [answered : Nat, replaced : Nat]]

Mine(k, inflight) == {f \in inflight : f.key[1] = k}

(* What a pair counts, and what became of its commands. *)
PairFits(s, was, mine) ==
    /\ s.commands = s.timeouts + was.answered + was.replaced + Cardinality(mine)
    /\ was.answered =< s.responses

(* The commands in flight: one for a pair and sequence id, sent before     *)
(* now, and not yet past their time once the ticks are over.               *)
FlightsFit(inflight, t, settled) ==
    /\ \A f, g \in inflight : f.key = g.key => f = g
    /\ \A f \in inflight : /\ f.sentTs =< t
                           /\ settled => t =< f.sentTs + AemTimeout

AecpInv ==
    /\ AecpTypes
    /\ FlightsFit(aemInflight, now, ~due)
    /\ \A k \in Pairs : PairFits(pair[k], fate[k], Mine(k, aemInflight))
-----------------------------------------------------------------------------
(* A part of a finite set has a number of elements, and the rest of the    *)
(* set the others.                                                         *)
LEMMA Parting ==
    ASSUME NEW S, IsFiniteSet(S), NEW T \in SUBSET S
    PROVE  /\ IsFiniteSet(T) /\ IsFiniteSet(S \ T)
           /\ Cardinality(S) \in Nat /\ Cardinality(T) \in Nat
           /\ Cardinality(S \ T) = Cardinality(S) - Cardinality(T)
<1>1. IsFiniteSet(T) /\ IsFiniteSet(S \ T)
  BY FS_Subset, FS_Difference
<1>2. Cardinality(S) \in Nat /\ Cardinality(T) \in Nat
  BY <1>1, FS_CardinalityType
<1>3. Cardinality(S \ T) = Cardinality(S) - Cardinality(S \cap T)
  BY FS_Difference
<1>4. S \cap T = T
  OBVIOUS
<1>. QED  BY <1>1, <1>2, <1>3, <1>4

(* A set of at most one element counts as much. *)
LEMMA OneCounts ==
    ASSUME NEW S, AtMostOne(S)
    PROVE  Cardinality(S) = IF S = {} THEN 0 ELSE 1
<1>1. CASE S = {}
  BY <1>1, FS_EmptySet
<1>2. CASE S # {}
  <2>1. PICK x \in S : TRUE
    BY <1>2
  <2>2. S = {x}
    BY <2>1 DEF AtMostOne
  <2>. QED  BY <1>2, <2>2, FS_Singleton
<1>. QED  BY <1>1, <1>2

(* The commands of a pair in flight are a part of all, and those of one    *)
(* sequence id a part of them, of at most one.                             *)
LEMMA MineParts ==
    ASSUME AecpTypes, FlightsFit(aemInflight, now, ~due), NEW k \in Pairs, NEW seq
    PROVE  /\ Mine(k, aemInflight) \in SUBSET aemInflight
           /\ IsFiniteSet(Mine(k, aemInflight))
           /\ InFlight(k, seq) \in SUBSET Mine(k, aemInflight)
           /\ AtMostOne(InFlight(k, seq))
           /\ Cardinality(InFlight(k, seq)) \in 0 .. 1
<1>1. Mine(k, aemInflight) \in SUBSET aemInflight
  BY DEF Mine
<1>2. InFlight(k, seq) \in SUBSET Mine(k, aemInflight)
  BY DEF Mine, InFlight
<1>3. AtMostOne(InFlight(k, seq))
  BY DEF FlightsFit, AtMostOne, InFlight
<1>4. IsFiniteSet(Mine(k, aemInflight))
  BY <1>1, FS_Subset DEF AecpTypes
<1>5. Cardinality(InFlight(k, seq)) \in 0 .. 1
  BY <1>3, OneCounts
<1>. QED  BY <1>1, <1>2, <1>3, <1>4, <1>5

(* The initial state. *)
LEMMA AecpStarts == ClockInit /\ AecpInit => AecpInv
<1>. SUFFICES ASSUME ClockInit, AecpInit PROVE AecpInv
  OBVIOUS
<1>1. AecpTypes
  <2>1. aemInflight = {} /\ IsFiniteSet(aemInflight)
    BY FS_EmptySet DEF AecpInit
  <2>2. pair \in [Pairs -> [commands : 0 .. MaxCommands, responses : 0 .. MaxCommands,
                            timeouts : Nat, unsolicited : 0 .. MaxCommands,
                            rtt : Nat \cup {Never}]]
    BY AecpAssumption DEF AecpInit
  <2>. QED  BY <2>1, <2>2, AecpAssumption DEF AecpTypes, AecpInit
<1>2. FlightsFit(aemInflight, now, ~due)
  BY DEF FlightsFit, AecpInit
<1>3. ASSUME NEW k \in Pairs PROVE PairFits(pair[k], fate[k], Mine(k, aemInflight))
  <2>1. Mine(k, aemInflight) = {}
    BY DEF Mine, AecpInit
  <2>2. Cardinality(Mine(k, aemInflight)) = 0
    BY <2>1, FS_EmptySet
  <2>. QED  BY <2>2 DEF PairFits, AecpInit
<1>. QED  BY <1>1, <1>2, <1>3 DEF AecpInv

(* A packet for another analyzer. *)
LEMMA AecpKept == AecpInv /\ Passes /\ UNCHANGED aecpVars => AecpInv'
<1>. SUFFICES ASSUME AecpInv, Passes, UNCHANGED aecpVars PROVE AecpInv'
  OBVIOUS
<1>1. /\ aemInflight' = aemInflight /\ pair' = pair
      /\ entityNames' = entityNames /\ fate' = fate
  BY DEF aecpVars
<1>2. AecpTypes'
  BY <1>1 DEF AecpInv, AecpTypes
<1>3. FlightsFit(aemInflight, now', ~due')
  BY AecpAssumption DEF AecpInv, FlightsFit, Passes, AecpTypes
<1>4. ASSUME NEW k \in Pairs
      PROVE  PairFits(pair'[k], fate'[k], Mine(k, aemInflight'))
  BY <1>1 DEF AecpInv
<1>. QED  BY <1>1, <1>2, <1>3, <1>4 DEF AecpInv, FlightsFit, PairFits, Mine

(* A command: the one of its sequence id, if any, is replaced. *)
LEMMA CommandKeeps ==
    ASSUME AecpInv, Passes, due', NEW k \in Pairs, NEW seq \in AecpSeqIds,
           AemCommand(k, seq, now')
    PROVE  AecpInv'
<1>. DEFINE same == InFlight(k, seq)
            new == [key |-> <<k, seq>>, sentTs |-> now']
<1>1. /\ pair[k].commands < MaxCommands
      /\ pair' = [pair EXCEPT ![k].commands = @ + 1]
      /\ aemInflight' = (aemInflight \ same) \cup {new}
      /\ fate' = [fate EXCEPT ![k].replaced = @ + Cardinality(same)]
      /\ entityNames' = entityNames
  BY DEF AemCommand
<1>2. AecpTypes /\ FlightsFit(aemInflight, now, ~due)
  BY DEF AecpInv
<1>3. /\ same \in SUBSET Mine(k, aemInflight) /\ IsFiniteSet(Mine(k, aemInflight))
      /\ Mine(k, aemInflight) \in SUBSET aemInflight
      /\ Cardinality(same) \in 0 .. 1
  BY <1>2, MineParts
<1>4. \A f : f \in same <=> f \in aemInflight /\ f.key = <<k, seq>>
  BY DEF InFlight
<1>5. new.key = <<k, seq>> /\ new.sentTs = now' /\ now' \in Nat
      /\ new \in [key : Pairs \X AecpSeqIds, sentTs : Nat] /\ new \notin aemInflight \ same
  BY <1>4 DEF Passes
<1>. HIDE DEF same, new
<1>6. AecpTypes'
  <2>1. IsFiniteSet(aemInflight \ same)
    BY <1>2, FS_Difference DEF AecpTypes
  <2>2. IsFiniteSet(aemInflight')
    BY <2>1, <1>1, FS_AddElement
  <2>3. aemInflight' \subseteq [key : Pairs \X AecpSeqIds, sentTs : Nat]
    BY <1>1, <1>2, <1>5 DEF AecpTypes
  <2>4. pair' \in [Pairs -> [commands : 0 .. MaxCommands, responses : 0 .. MaxCommands,
                            timeouts : Nat, unsolicited : 0 .. MaxCommands,
                            rtt : Nat \cup {Never}]]
    <3>1. pair[k].commands + 1 \in 0 .. MaxCommands
      BY <1>1, <1>2, AecpAssumption DEF AecpTypes
    <3>. QED  BY <3>1, <1>1, <1>2 DEF AecpTypes
  <2>5. fate' \in [Pairs -> [answered : Nat, replaced : Nat]]
    BY <1>1, <1>2, <1>3 DEF AecpTypes
  <2>. QED  BY <1>1, <1>2, <2>2, <2>3, <2>4, <2>5 DEF AecpTypes
<1>7. FlightsFit(aemInflight', now', ~due')
  <2>1. \A f \in aemInflight : f.sentTs \in Nat
    BY <1>2 DEF AecpTypes
  <2>. QED  BY <2>1, <1>1, <1>2, <1>4, <1>5, AecpAssumption DEF FlightsFit, Passes
<1>8. ASSUME NEW q \in Pairs
      PROVE  PairFits(pair'[q], fate'[q], Mine(q, aemInflight'))
  <2>1. CASE q # k
    <3>1. Mine(q, aemInflight') = Mine(q, aemInflight)
      BY <2>1, <1>1, <1>4, <1>5 DEF Mine
    <3>2. pair'[q] = pair[q] /\ fate'[q] = fate[q]
      BY <2>1, <1>1, <1>2 DEF AecpTypes
    <3>. QED  BY <3>1, <3>2 DEF AecpInv
  <2>2. CASE q = k
    <3>. DEFINE mine == Mine(k, aemInflight)
                all == Cardinality(mine)
                rest == Cardinality(mine \ same)
                n == Cardinality(same)
    <3>1. Mine(k, aemInflight') = (mine \ same) \cup {new} /\ new \notin mine \ same
      BY <1>1, <1>4, <1>5 DEF Mine
    <3>2. rest = all - n /\ all \in Nat /\ IsFiniteSet(mine \ same)
      BY <1>3, Parting
    <3>3. Cardinality(Mine(k, aemInflight')) = rest + 1
      BY <3>1, <3>2, FS_AddElement
    <3>4. /\ pair'[k].commands = pair[k].commands + 1 /\ pair'[k].timeouts = pair[k].timeouts
          /\ pair'[k].responses = pair[k].responses
      BY <1>1, <1>2 DEF AecpTypes
    <3>5. /\ fate'[k].answered = fate[k].answered
          /\ fate'[k].replaced = fate[k].replaced + n
      BY <1>1, <1>2 DEF AecpTypes
    <3>6. /\ pair[k].commands \in Nat /\ pair[k].timeouts \in Nat
          /\ fate[k].answered \in Nat /\ fate[k].replaced \in Nat
      BY <1>2, AecpAssumption DEF AecpTypes
    <3>7. /\ pair[k].commands = pair[k].timeouts + fate[k].answered + fate[k].replaced + all
          /\ fate[k].answered =< pair[k].responses
      BY DEF AecpInv, PairFits
    <3>8. n \in Nat
      BY <1>3
    <3>. HIDE DEF all, rest, n
    <3>9. /\ pair'[k].commands = pair'[k].timeouts + fate'[k].answered + fate'[k].replaced
                                     + (rest + 1)
          /\ fate'[k].answered =< pair'[k].responses
      BY <3>2, <3>4, <3>5, <3>6, <3>7, <3>8
    <3>. QED  BY <2>2, <3>3, <3>9 DEF PairFits
  <2>. QED  BY <2>1, <2>2
<1>. QED  BY <1>6, <1>7, <1>8 DEF AecpInv, FlightsFit, PairFits, Mine

(* A name learnt. *)
LEMMA LearnTypes ==
    ASSUME entityNames \in [Targets -> Names], NEW e \in Targets, NEW name \in Names,
           Learn(e, name)
    PROVE  entityNames' \in [Targets -> Names]
BY DEF Learn

(* A response: its command is no longer in flight. *)
LEMMA ResponseKeeps ==
    ASSUME AecpInv, Passes, due', NEW k \in Pairs, NEW seq \in AecpSeqIds,
           NEW e \in Targets, NEW name \in Names, AemResponse(k, seq, e, name, now')
    PROVE  AecpInv'
<1>. DEFINE same == InFlight(k, seq)
            trip == IF same = {} THEN Never ELSE now' - (CHOOSE f \in same : TRUE).sentTs
            n == Cardinality(same)
<1>1. /\ pair[k].responses < MaxCommands
      /\ pair' = [pair EXCEPT ![k].responses = @ + 1, ![k].rtt = trip]
      /\ aemInflight' = aemInflight \ same
      /\ fate' = [fate EXCEPT ![k].answered = @ + n]
      /\ Learn(e, name)
  BY DEF AemResponse
<1>2. AecpTypes /\ FlightsFit(aemInflight, now, ~due)
  BY DEF AecpInv
<1>3. /\ same \in SUBSET Mine(k, aemInflight) /\ IsFiniteSet(Mine(k, aemInflight))
      /\ Mine(k, aemInflight) \in SUBSET aemInflight
      /\ n \in 0 .. 1
  BY <1>2, MineParts
<1>4. \A f : f \in same <=> f \in aemInflight /\ f.key = <<k, seq>>
  BY DEF InFlight
<1>5. trip \in Nat \cup {Never}
  <2>1. \A f \in same : f.sentTs \in Nat /\ f.sentTs =< now
    BY <1>2, <1>4 DEF AecpTypes, FlightsFit
  <2>2. \A f \in same : now' - f.sentTs \in Nat
    BY <2>1 DEF Passes
  <2>. QED  BY <2>2
<1>. HIDE DEF same, trip, n
<1>6. AecpTypes'
  <2>1. IsFiniteSet(aemInflight')
    BY <1>1, <1>2, FS_Difference DEF AecpTypes
  <2>2. pair[k].responses + 1 \in 0 .. MaxCommands
    BY <1>1, <1>2, AecpAssumption DEF AecpTypes
  <2>3. pair' \in [Pairs -> [commands : 0 .. MaxCommands, responses : 0 .. MaxCommands,
                             timeouts : Nat, unsolicited : 0 .. MaxCommands,
                             rtt : Nat \cup {Never}]]
    <3>. DEFINE PairTypes == [commands : 0 .. MaxCommands, responses : 0 .. MaxCommands,
                              timeouts : Nat, unsolicited : 0 .. MaxCommands,
                              rtt : Nat \cup {Never}]
                x == [pair[k] EXCEPT !.responses = @ + 1, !.rtt = trip]
    <3>1. pair \in [Pairs -> PairTypes]
      BY <1>2 DEF AecpTypes
    <3>2. x \in PairTypes
      BY <1>5, <2>2, <3>1
    <3>3. pair' = [pair EXCEPT ![k] = x]
      BY <1>1, <3>1
    <3>. HIDE DEF x, PairTypes
    <3>4. pair' \in [Pairs -> PairTypes]
      BY <3>1, <3>2, <3>3
    <3>. QED  BY <3>4 DEF PairTypes
  <2>4. fate' \in [Pairs -> [answered : Nat, replaced : Nat]]
    BY <1>1, <1>2, <1>3 DEF AecpTypes
  <2>5. entityNames' \in [Targets -> Names]
    BY <1>1, <1>2, LearnTypes DEF AecpTypes
  <2>. QED  BY <1>1, <1>2, <2>1, <2>3, <2>4, <2>5 DEF AecpTypes
<1>7. FlightsFit(aemInflight', now', ~due')
  <2>1. \A f \in aemInflight : f.sentTs \in Nat
    BY <1>2 DEF AecpTypes
  <2>. QED  BY <2>1, <1>1, <1>2 DEF FlightsFit, Passes
<1>8. ASSUME NEW q \in Pairs
      PROVE  PairFits(pair'[q], fate'[q], Mine(q, aemInflight'))
  <2>1. CASE q # k
    <3>1. Mine(q, aemInflight') = Mine(q, aemInflight)
      BY <2>1, <1>1, <1>4 DEF Mine
    <3>2. pair'[q] = pair[q] /\ fate'[q] = fate[q]
      BY <2>1, <1>1, <1>2 DEF AecpTypes
    <3>. QED  BY <3>1, <3>2 DEF AecpInv
  <2>2. CASE q = k
    <3>. DEFINE mine == Mine(k, aemInflight)
                all == Cardinality(mine)
                rest == Cardinality(mine \ same)
    <3>1. Mine(k, aemInflight') = mine \ same
      BY <1>1 DEF Mine
    <3>2. rest = all - n /\ all \in Nat
      BY <1>3, Parting DEF n
    <3>3. /\ pair'[k].commands = pair[k].commands /\ pair'[k].timeouts = pair[k].timeouts
          /\ pair'[k].responses = pair[k].responses + 1
      BY <1>1, <1>2 DEF AecpTypes
    <3>4. /\ fate'[k].answered = fate[k].answered + n
          /\ fate'[k].replaced = fate[k].replaced
      BY <1>1, <1>2 DEF AecpTypes
    <3>5. /\ pair[k].responses \in Nat /\ pair[k].timeouts \in Nat
          /\ fate[k].answered \in Nat /\ fate[k].replaced \in Nat
      BY <1>2, AecpAssumption DEF AecpTypes
    <3>6. /\ pair[k].commands = pair[k].timeouts + fate[k].answered + fate[k].replaced + all
          /\ fate[k].answered =< pair[k].responses
      BY DEF AecpInv, PairFits
    <3>7. Cardinality(Mine(k, aemInflight')) = rest
      BY <3>1
    <3>. HIDE DEF all, rest
    <3>8. /\ pair'[k].commands = pair'[k].timeouts + fate'[k].answered + fate'[k].replaced + rest
          /\ fate'[k].answered =< pair'[k].responses
      BY <1>3, <3>2, <3>3, <3>4, <3>5, <3>6
    <3>. QED  BY <2>2, <3>7, <3>8 DEF PairFits
  <2>. QED  BY <2>1, <2>2
<1>. QED  BY <1>6, <1>7, <1>8 DEF AecpInv, FlightsFit, PairFits, Mine

(* A notification is of no command. *)
LEMMA UnsolicitedKeeps ==
    ASSUME AecpInv, Passes, due', NEW k \in Pairs, NEW e \in Targets, NEW name \in Names,
           Unsolicited(k, e, name)
    PROVE  AecpInv'
<1>1. /\ pair[k].unsolicited < MaxCommands
      /\ pair' = [pair EXCEPT ![k].unsolicited = @ + 1]
      /\ aemInflight' = aemInflight /\ fate' = fate /\ Learn(e, name)
  BY DEF Unsolicited
<1>2. AecpTypes /\ FlightsFit(aemInflight, now, ~due)
  BY DEF AecpInv
<1>3. pair[k].unsolicited + 1 \in 0 .. MaxCommands
  BY <1>1, <1>2, AecpAssumption DEF AecpTypes
<1>4. pair' \in [Pairs -> [commands : 0 .. MaxCommands, responses : 0 .. MaxCommands,
                           timeouts : Nat, unsolicited : 0 .. MaxCommands,
                           rtt : Nat \cup {Never}]]
  BY <1>1, <1>2, <1>3 DEF AecpTypes
<1>5. AecpTypes'
  BY <1>1, <1>2, <1>4, LearnTypes DEF AecpTypes
<1>6. FlightsFit(aemInflight', now', ~due')
  BY <1>1, <1>2 DEF AecpTypes, FlightsFit, Passes
<1>7. ASSUME NEW q \in Pairs
      PROVE  PairFits(pair'[q], fate'[q], Mine(q, aemInflight'))
  <2>1. /\ pair'[q].commands = pair[q].commands /\ pair'[q].timeouts = pair[q].timeouts
        /\ pair'[q].responses = pair[q].responses
    BY <1>1, <1>2 DEF AecpTypes
  <2>2. PairFits(pair[q], fate[q], Mine(q, aemInflight))
    BY DEF AecpInv
  <2>. QED  BY <1>1, <2>1, <2>2 DEF PairFits
<1>. QED  BY <1>5, <1>6, <1>7 DEF AecpInv, FlightsFit, PairFits, Mine

(* The tick: what it counts as timed out is what it takes out. *)
LEMMA AecpTickKeeps == AecpInv /\ now \in Nat /\ Ticks /\ AecpTick => AecpInv'
<1>. SUFFICES ASSUME AecpInv, now \in Nat, Ticks, AecpTick PROVE AecpInv'
  OBVIOUS
<1>1. /\ pair' = [k \in Pairs |-> [pair[k] EXCEPT !.timeouts = @ + Cardinality(Unanswered(k))]]
      /\ aemInflight' = {f \in aemInflight : now =< f.sentTs + AemTimeout}
      /\ entityNames' = entityNames /\ fate' = fate
      /\ now' = now
  BY DEF AecpTick, Ticks
<1>2. AecpTypes /\ FlightsFit(aemInflight, now, ~due)
  BY DEF AecpInv
<1>3. ASSUME NEW k \in Pairs
      PROVE  /\ IsFiniteSet(Mine(k, aemInflight))
             /\ Unanswered(k) \in SUBSET Mine(k, aemInflight)
             /\ Cardinality(Unanswered(k)) \in Nat
             /\ Mine(k, aemInflight') = Mine(k, aemInflight) \ Unanswered(k)
  <2>1. Mine(k, aemInflight) \in SUBSET aemInflight
    BY DEF Mine
  <2>2. IsFiniteSet(Mine(k, aemInflight))
    BY <1>2, <2>1, FS_Subset DEF AecpTypes
  <2>3. Unanswered(k) \in SUBSET Mine(k, aemInflight)
    BY DEF Mine, Unanswered
  <2>4. \A f \in aemInflight : f.sentTs \in Nat
    BY <1>2 DEF AecpTypes
  <2>5. Mine(k, aemInflight') = Mine(k, aemInflight) \ Unanswered(k)
    BY <1>1, <2>4, AecpAssumption DEF Mine, Unanswered
  <2>. QED  BY <2>2, <2>3, <2>5, Parting
<1>4. AecpTypes'
  <2>1. aemInflight' \in SUBSET aemInflight
    BY <1>1
  <2>2. IsFiniteSet(aemInflight')
    BY <1>2, <2>1, FS_Subset DEF AecpTypes
  <2>3. pair' \in [Pairs -> [commands : 0 .. MaxCommands, responses : 0 .. MaxCommands,
                             timeouts : Nat, unsolicited : 0 .. MaxCommands,
                             rtt : Nat \cup {Never}]]
    BY <1>1, <1>2, <1>3 DEF AecpTypes
  <2>. QED  BY <1>1, <1>2, <2>1, <2>2, <2>3 DEF AecpTypes
<1>5. FlightsFit(aemInflight', now', ~due')
  BY <1>1, <1>2 DEF FlightsFit
<1>6. ASSUME NEW k \in Pairs
      PROVE  PairFits(pair'[k], fate'[k], Mine(k, aemInflight'))
  <2>. DEFINE all == Cardinality(Mine(k, aemInflight))
              late == Cardinality(Unanswered(k))
              rest == Cardinality(Mine(k, aemInflight'))
  <2>1. rest = all - late /\ all \in Nat /\ late \in Nat
    BY <1>3, Parting
  <2>2. /\ pair'[k].commands = pair[k].commands
        /\ pair'[k].timeouts = pair[k].timeouts + late
        /\ pair'[k].responses = pair[k].responses
    BY <1>1, <1>2 DEF AecpTypes
  <2>3. /\ pair[k].responses \in Nat /\ pair[k].timeouts \in Nat
        /\ fate[k].answered \in Nat /\ fate[k].replaced \in Nat
    BY <1>2, AecpAssumption DEF AecpTypes
  <2>4. /\ pair[k].commands = pair[k].timeouts + fate[k].answered + fate[k].replaced + all
        /\ fate[k].answered =< pair[k].responses
    BY DEF AecpInv, PairFits
  <2>. HIDE DEF all, late, rest
  <2>5. /\ pair'[k].commands = pair'[k].timeouts + fate'[k].answered + fate'[k].replaced + rest
        /\ fate'[k].answered =< pair'[k].responses
    BY <1>1, <2>1, <2>2, <2>3, <2>4
  <2>. QED  BY <2>5 DEF PairFits, rest
<1>. QED  BY <1>4, <1>5, <1>6 DEF AecpInv, FlightsFit, PairFits, Mine

(* What the invariant says of the counters. *)
LEMMA AecpSays == AecpInv => AecpTypeOK /\ CommandsAccounted
<1>. SUFFICES ASSUME AecpInv PROVE AecpTypeOK /\ CommandsAccounted
  OBVIOUS
<1>1. AecpTypeOK
  BY DEF AecpInv, AecpTypes, AecpTypeOK
<1>2. ASSUME NEW k \in Pairs
      PROVE  /\ pair[k].commands = pair[k].timeouts + fate[k].answered + fate[k].replaced
                                     + Cardinality({f \in aemInflight : f.key[1] = k})
             /\ fate[k].answered =< pair[k].responses
             /\ \A f \in {g \in aemInflight : g.key[1] = k} :
                   due \/ now =< f.sentTs + AemTimeout
  BY DEF AecpInv, PairFits, Mine, FlightsFit
<1>. QED  BY <1>1, <1>2 DEF CommandsAccounted
-----------------------------------------------------------------------------
(***************************************************************************)
(* MAAP                                                                    *)
(***************************************************************************)

(* A range is abandoned by a PROBE only. *)
MaapInv == MaapTypeOK /\ \A c \in Claimants : claim[c].lost =< claim[c].probes

LEMMA MaapStarts == MaapInit => MaapInv
BY MaapAssumption DEF MaapInit, MaapInv, MaapTypeOK

(* Any message of a claimant. *)
LEMMA MaapKeeps ==
    ASSUME MaapInv, NEW c \in Claimants, NEW range \in Ranges,
           \/ MaapProbe(c, range) \/ MaapAnnounce(c, range)
           \/ MaapDefend(c, range) \/ MaapReserved(c, range)
    PROVE  MaapInv'
<1>. DEFINE Told == [state : {"UNKNOWN", "PROBING"} \cup Holding,
                     range : Ranges \cup {NoRange},
                     probes : 0 .. MaxClaims, conflicts : 0 .. MaxClaims,
                     lost : 0 .. MaxClaims]
<1>1. claim \in [Claimants -> Told] /\ claim[c].lost =< claim[c].probes
  BY DEF MaapInv, MaapTypeOK
<1>2. ASSUME NEW x \in Told, x.lost =< x.probes, claim' = [claim EXCEPT ![c] = x]
      PROVE  MaapInv'
  BY <1>1, <1>2 DEF MaapInv, MaapTypeOK
<1>3. CASE MaapProbe(c, range)
  <2>. DEFINE n == IF claim[c].state \in Holding /\ claim[c].range # range
                   THEN claim[c].lost + 1 ELSE claim[c].lost
              x == [claim[c] EXCEPT !.lost = n, !.state = "PROBING", !.range = range,
                                    !.probes = @ + 1]
  <2>1. claim' = [claim EXCEPT ![c] = x] /\ claim[c].probes < MaxClaims
    BY <1>1, <1>3 DEF MaapProbe
  <2>2. n \in 0 .. MaxClaims /\ n =< claim[c].probes + 1
        /\ claim[c].probes + 1 \in 0 .. MaxClaims
    BY <1>1, <2>1, MaapAssumption
  <2>. HIDE DEF n
  <2>3. x \in Told /\ x.lost = n /\ x.probes = claim[c].probes + 1
    BY <1>1, <2>2 DEF Holding
  <2>. HIDE DEF x, Told
  <2>. QED  BY <1>2, <2>1, <2>2, <2>3
<1>4. CASE MaapAnnounce(c, range)
  <2>. DEFINE x == [claim[c] EXCEPT !.state = "ACQUIRED", !.range = range]
  <2>1. claim' = [claim EXCEPT ![c] = x]
    BY <1>1, <1>4 DEF MaapAnnounce
  <2>2. x \in Told /\ x.lost =< x.probes
    BY <1>1 DEF Holding
  <2>. QED  BY <1>2, <2>1, <2>2
<1>5. CASE MaapDefend(c, range)
  <2>. DEFINE x == [claim[c] EXCEPT !.state = "DEFENDING", !.range = range,
                                    !.conflicts = @ + 1]
  <2>1. claim' = [claim EXCEPT ![c] = x] /\ claim[c].conflicts < MaxClaims
    BY <1>1, <1>5 DEF MaapDefend
  <2>2. claim[c].conflicts + 1 \in 0 .. MaxClaims
    BY <1>1, <2>1, MaapAssumption
  <2>3. x \in Told /\ x.lost =< x.probes
    BY <1>1, <2>2 DEF Holding
  <2>. QED  BY <1>2, <2>1, <2>3
<1>6. CASE MaapReserved(c, range)
  <2>. DEFINE x == [claim[c] EXCEPT !.range = range]
  <2>1. claim' = [claim EXCEPT ![c] = x]
    BY <1>1, <1>6 DEF MaapReserved
  <2>2. x \in Told /\ x.lost =< x.probes
    BY <1>1 DEF Holding
  <2>. QED  BY <1>2, <2>1, <2>2
<1>. QED  BY <1>3, <1>4, <1>5, <1>6
-----------------------------------------------------------------------------
(***************************************************************************)
(* gPTP: the domains                                                       *)
(***************************************************************************)

TruthTypes == [gm : GmIds \cup {0}, sync : {"UNKNOWN", "HEALTHY", "LOST"}]

(* Until when the last Sync and the last Announce of a domain, and an      *)
(* announcement, are taken for valid.                                      *)
SyncUntil(d) == d.lastSync + SyncReceiptTimeoutN * d.syncInterval
GmUntil(d) == d.lastAnnounce + AnnounceReceiptTimeoutN * d.announceInterval
ValidUntil(v) == v.lastTs + AnnounceReceiptTimeoutN * v.interval + AnnounceSlack

(* The truth shared is the domain's own, whose states follow the last      *)
(* messages; a timeout is told by the tick, so it is settled after that.   *)
ClockFits(d, truth, t, settled) ==
    /\ truth.sync = d.syncState /\ truth.gm = d.gmId
    /\ d.syncState = "UNKNOWN" <=> d.lastSync = Never
    /\ d.syncState = "LOST" => t > SyncUntil(d)
    /\ settled /\ d.syncState = "HEALTHY" => t =< SyncUntil(d)
    /\ d.gmState = "NO_GM" <=> d.lastAnnounce = Never
    /\ d.gmState = "GM_TIMED_OUT" => t > GmUntil(d)
    /\ settled /\ d.gmState = "GM_PRESENT" => t =< GmUntil(d)

(* What was told to a domain by each port: its last announcement. *)
Told(dom) == [p \in Ports |-> announced[<<dom, p>>]]

ToldFits(told) ==
    \A p \in Ports : AtMostOne(told[p]) /\ \A v \in told[p] : v.src = p

(* The announcers kept are among those told, none that is valid is         *)
(* missing, and the grandmaster of the Sync sender is the one it told.     *)
AnnouncersFit(d, told, t) ==
    /\ \A v \in d.announcers : v \in told[v.src]
    /\ \A p \in Ports : \A v \in told[p] : t =< ValidUntil(v) => v \in d.announcers
    /\ d.syncSender = 0 => d.syncSenderGm = 0
    /\ d.syncSenderGm # 0 => \E v \in told[d.syncSender] : v.gm = d.syncSenderGm
    /\ \A v \in d.announcers : v.src = d.syncSender => d.syncSenderGm = v.gm

VectorsFit(d, told, t, settled) ==
    /\ AnnouncersFit(d, told, t)
    /\ d.expected = Best(d.announcers)
    /\ d.syncVec = {v \in d.announcers : v.src = d.syncSender}
    /\ settled => \A v \in d.announcers : t =< ValidUntil(v)

DomainFits(d, truth, told, t, settled) ==
    /\ d \in DomainTypes /\ truth \in TruthTypes
    /\ ToldFits(told)
    /\ ClockFits(d, truth, t, settled)
    /\ VectorsFit(d, told, t, settled)

DomainsTypes ==
    /\ domain \in [Domains -> DomainTypes]
    /\ gptpDomains \in [Domains -> TruthTypes]
    /\ announced \in [Domains \X Ports -> SUBSET Vectors]

DomainsInv ==
    /\ DomainsTypes
    /\ \A dom \in Domains : DomainFits(domain[dom], gptpDomains[dom], Told(dom), now, ~due)

(* The ends of validity are times. *)
LEMMA UntilTypes ==
    /\ \A d \in DomainTypes : SyncUntil(d) \in Int /\ GmUntil(d) \in Int
    /\ \A v \in Vectors : ValidUntil(v) \in Nat /\ v.lastTs =< ValidUntil(v)
<1>1. \A i \in Intervals \cup {1} : /\ i \in Nat
                                    /\ SyncReceiptTimeoutN * i \in Nat
                                    /\ AnnounceReceiptTimeoutN * i \in Nat
  BY GptpAssumption
<1>2. ASSUME NEW d \in DomainTypes PROVE SyncUntil(d) \in Int /\ GmUntil(d) \in Int
  <2>1. /\ d.lastSync \in Int /\ d.lastAnnounce \in Int
        /\ d.syncInterval \in Intervals \cup {1} /\ d.announceInterval \in Intervals \cup {1}
    BY DEF DomainTypes, Never
  <2>2. /\ SyncReceiptTimeoutN * d.syncInterval \in Nat
        /\ AnnounceReceiptTimeoutN * d.announceInterval \in Nat
    BY <1>1, <2>1
  <2>. QED  BY <2>1, <2>2 DEF SyncUntil, GmUntil
<1>3. ASSUME NEW v \in Vectors PROVE ValidUntil(v) \in Nat /\ v.lastTs =< ValidUntil(v)
  <2>1. v.lastTs \in Nat /\ v.interval \in Intervals
    BY DEF Vectors
  <2>2. AnnounceReceiptTimeoutN * v.interval \in Nat
    BY <1>1, <2>1
  <2>. QED  BY <2>1, <2>2, GptpAssumption DEF ValidUntil
<1>. QED  BY <1>2, <1>3

(* A domain that a packet does not concern: time passes, and what is       *)
(* overdue is told by the tick.                                            *)
LEMMA DomainOutlives ==
    ASSUME NEW d, NEW truth, NEW told \in [Ports -> SUBSET Vectors],
           NEW t \in Nat, NEW u \in Nat, t =< u, NEW settled \in BOOLEAN,
           DomainFits(d, truth, told, t, settled)
    PROVE  DomainFits(d, truth, told, u, FALSE)
<1>1. d \in DomainTypes /\ SyncUntil(d) \in Int /\ GmUntil(d) \in Int
  BY UntilTypes DEF DomainFits
<1>2. ClockFits(d, truth, u, FALSE)
  <2>1. ClockFits(d, truth, t, settled)
    BY DEF DomainFits
  <2>. QED  BY <1>1, <2>1 DEF ClockFits
<1>3. AnnouncersFit(d, told, u)
  <2>1. AnnouncersFit(d, told, t)
    BY DEF DomainFits, VectorsFit
  <2>2. \A p \in Ports : \A v \in told[p] : ValidUntil(v) \in Nat
    BY UntilTypes
  <2>3. \A p \in Ports : \A v \in told[p] : u =< ValidUntil(v) => v \in d.announcers
    BY <2>1, <2>2 DEF AnnouncersFit
  <2>. QED  BY <2>1, <2>3 DEF AnnouncersFit
<1>. QED  BY <1>2, <1>3 DEF DomainFits, VectorsFit

(* evalBmca(): whatever the handler did before to the announcers, the      *)
(* vectors it leaves are those of the valid ones.                          *)
LEMMA EvalFits ==
    ASSUME NEW d \in DomainTypes, NEW told \in [Ports -> SUBSET Vectors], NEW t \in Nat,
           ToldFits(told), AnnouncersFit(d, told, t)
    PROVE  /\ EvalBmca(d, t) \in DomainTypes
           /\ EvalBmca(d, t).expected \subseteq EvalBmca(d, t).announcers
           /\ VectorsFit(EvalBmca(d, t), told, t, TRUE)
           /\ \A truth, settled : ClockFits(EvalBmca(d, t), truth, t, settled)
                                    <=> ClockFits(d, truth, t, settled)
<1>. DEFINE live == Unaged(d, t)
            best == Best(live)
            vec == {v \in live : v.src = d.syncSender}
            x == [d EXCEPT !.announcers = live, !.expected = best, !.syncVec = vec]
<1>1. EvalBmca(d, t) = x
  BY DEF EvalBmca
<1>2. /\ live \in SUBSET d.announcers /\ live \in SUBSET Vectors
      /\ best \in SUBSET live /\ vec \in SUBSET live
  BY DEF Unaged, Best, DomainTypes
<1>3. \A v : v \in live <=> v \in d.announcers /\ t =< ValidUntil(v)
  BY DEF Unaged, ValidUntil
<1>4. best = Best(live) /\ vec = {v \in live : v.src = d.syncSender}
  OBVIOUS
<1>. HIDE DEF live, best, vec
<1>5. /\ x \in DomainTypes
      /\ x.announcers = live /\ x.expected = best /\ x.syncVec = vec
      /\ x.syncSender = d.syncSender /\ x.syncSenderGm = d.syncSenderGm
      /\ x.syncState = d.syncState /\ x.lastSync = d.lastSync
      /\ x.syncInterval = d.syncInterval /\ x.gmState = d.gmState
      /\ x.gmId = d.gmId /\ x.lastAnnounce = d.lastAnnounce
      /\ x.announceInterval = d.announceInterval
  <2>1. live \in SUBSET Vectors /\ best \in SUBSET Vectors /\ vec \in SUBSET Vectors
    BY <1>2
  <2>2. x \in DomainTypes
    BY <2>1 DEF DomainTypes
  <2>3. /\ x.announcers = live /\ x.expected = best /\ x.syncVec = vec
        /\ x.syncSender = d.syncSender /\ x.syncSenderGm = d.syncSenderGm
        /\ x.syncState = d.syncState /\ x.lastSync = d.lastSync
        /\ x.syncInterval = d.syncInterval /\ x.gmState = d.gmState
        /\ x.gmId = d.gmId /\ x.lastAnnounce = d.lastAnnounce
        /\ x.announceInterval = d.announceInterval
    BY DEF DomainTypes
  <2>. QED  BY <2>2, <2>3
<1>. HIDE DEF x
<1>6. AnnouncersFit(x, told, t)
  BY <1>2, <1>3, <1>5 DEF AnnouncersFit
<1>7. VectorsFit(x, told, t, TRUE)
  BY <1>3, <1>4, <1>5, <1>6 DEF VectorsFit
<1>8. ASSUME NEW truth, NEW settled
      PROVE  ClockFits(x, truth, t, settled) <=> ClockFits(d, truth, t, settled)
  BY <1>5 DEF ClockFits, SyncUntil, GmUntil
<1>. QED  BY <1>1, <1>2, <1>5, <1>7, <1>8

(* publish() of a domain whose grandmaster and state are known, or as they *)
(* were, shares them.                                                      *)
LEMMA PublishFits ==
    ASSUME NEW d \in DomainTypes, NEW was, NEW truth \in TruthTypes,
           truth.sync = was.syncState, truth.gm = was.gmId,
           d.gmId = was.gmId \/ d.gmId # 0,
           d.syncState = was.syncState \/ d.syncState # "UNKNOWN"
    PROVE  /\ Published(truth, d) \in TruthTypes
           /\ Published(truth, d).sync = d.syncState /\ Published(truth, d).gm = d.gmId
BY DEF Published, TruthTypes, DomainTypes

(* A message changed one domain. *)
LEMMA DomainChanged ==
    ASSUME DomainsInv, Passes, due', NEW dom \in Domains, NEW x, NEW truth,
           announced' \in [Domains \X Ports -> SUBSET Vectors],
           \A q \in Domains \ {dom}, p \in Ports : announced'[<<q, p>>] = announced[<<q, p>>],
           DomainFits(x, truth, [p \in Ports |-> announced'[<<dom, p>>]], now', FALSE),
           domain' = [domain EXCEPT ![dom] = x],
           gptpDomains' = [gptpDomains EXCEPT ![dom] = truth]
    PROVE  DomainsInv'
<1>1. DomainsTypes
  BY DEF DomainsInv
<1>2. x \in DomainTypes /\ truth \in TruthTypes
  BY DEF DomainFits
<1>3. domain' \in [Domains -> DomainTypes]
  BY <1>1, <1>2 DEF DomainsTypes
<1>4. gptpDomains' \in [Domains -> TruthTypes]
  BY <1>1, <1>2 DEF DomainsTypes
<1>5. ASSUME NEW q \in Domains
      PROVE  DomainFits(domain'[q], gptpDomains'[q], [p \in Ports |-> announced'[<<q, p>>]],
                        now', FALSE)
  <2>1. CASE q = dom
    <3>1. domain'[q] = x /\ gptpDomains'[q] = truth
      BY <1>1, <2>1 DEF DomainsTypes
    <3>. QED  BY <2>1, <3>1
  <2>2. CASE q # dom
    <3>1. domain'[q] = domain[q] /\ gptpDomains'[q] = gptpDomains[q]
      BY <1>1, <2>2 DEF DomainsTypes
    <3>2. [p \in Ports |-> announced'[<<q, p>>]] = Told(q)
      BY <2>2 DEF Told
    <3>3. DomainFits(domain[q], gptpDomains[q], Told(q), now, ~due)
      BY DEF DomainsInv
    <3>4. Told(q) \in [Ports -> SUBSET Vectors]
      BY <1>1 DEF Told, DomainsTypes
    <3>5. now \in Nat /\ now' \in Nat /\ now =< now' /\ (~due) \in BOOLEAN
      BY DEF Passes
    <3>6. DomainFits(domain[q], gptpDomains[q], Told(q), now', FALSE)
      BY <3>3, <3>4, <3>5, DomainOutlives
    <3>. QED  BY <3>1, <3>2, <3>6
  <2>. QED  BY <2>1, <2>2
<1>6. ~due' = FALSE
  OBVIOUS
<1>7. DomainsTypes'
  BY <1>3, <1>4 DEF DomainsTypes
<1>8. ASSUME NEW q \in Domains
      PROVE  DomainFits(domain[q], gptpDomains[q], Told(q), now, ~due)'
  <2>1. DomainFits(domain'[q], gptpDomains'[q], [p \in Ports |-> announced'[<<q, p>>]],
                   now', ~due')
    BY <1>5, <1>6
  <2>. QED  BY <2>1 DEF Told
<1>. QED  BY <1>7, <1>8 DEF DomainsInv

(* What every domain is known for. *)
LEMMA DomainKnown ==
    ASSUME DomainsInv, NEW dom \in Domains
    PROVE  /\ DomainFits(domain[dom], gptpDomains[dom], Told(dom), now, ~due)
           /\ domain[dom] \in DomainTypes /\ gptpDomains[dom] \in TruthTypes
           /\ Told(dom) \in [Ports -> SUBSET Vectors] /\ ToldFits(Told(dom))
           /\ gptpDomains[dom].sync = domain[dom].syncState
           /\ gptpDomains[dom].gm = domain[dom].gmId
           /\ AnnouncersFit(domain[dom], Told(dom), now)
BY DEF DomainsInv, DomainsTypes, DomainFits, ClockFits, VectorsFit, Told

(* The grandmaster that a port announces, among those told. *)
LEMMA DrivingFits ==
    ASSUME NEW d \in DomainTypes, NEW told \in [Ports -> SUBSET Vectors], NEW t,
           ToldFits(told), AnnouncersFit(d, told, t), NEW p \in Ports
    PROVE  /\ DrivingOf(d, p) \in GmIds \cup {0}
           /\ DrivingOf(d, p) # 0 => \E v \in told[p] : v.gm = DrivingOf(d, p)
           /\ \A v \in d.announcers : v.src = p => DrivingOf(d, p) = v.gm
<1>1. \A v \in d.announcers : v \in Vectors /\ v.gm \in GmIds
  BY DEF DomainTypes, Vectors
<1>2. \A v \in d.announcers : v.src = p => v \in told[p]
  BY DEF AnnouncersFit
<1>3. CASE \E v \in d.announcers : v.src = p
  <2>. DEFINE w == CHOOSE v \in d.announcers : v.src = p
  <2>1. w \in d.announcers /\ w.src = p
    BY <1>3
  <2>2. DrivingOf(d, p) = w.gm
    BY <1>3 DEF DrivingOf
  <2>. HIDE DEF w
  <2>3. \A v \in d.announcers : v.src = p => v = w
    BY <1>2, <2>1 DEF ToldFits, AtMostOne
  <2>. QED  BY <1>1, <1>2, <2>1, <2>2, <2>3
<1>4. CASE ~ \E v \in d.announcers : v.src = p
  BY <1>4 DEF DrivingOf
<1>. QED  BY <1>3, <1>4

(* A Sync. *)
LEMMA SyncKeeps ==
    ASSUME DomainsInv, Passes, due', NEW p \in Ports, NEW dom \in Domains,
           NEW seq \in SeqIds, NEW interval \in Intervals, NEW twoStep \in BOOLEAN,
           OnSync(p, dom, seq, interval, twoStep, now')
    PROVE  DomainsInv'
<1>. DEFINE d == domain[dom]
            y == SyncedDomain(d, p, seq, interval, twoStep, now')
            x == EvalBmca(y, now')
            truth == Published(gptpDomains[dom], x)
<1>1. /\ domain' = [domain EXCEPT ![dom] = x]
      /\ gptpDomains' = [gptpDomains EXCEPT ![dom] = truth]
      /\ announced' = announced
  <2>1. domain' = [domain EXCEPT ![dom] = x]
    BY DEF OnSync
  <2>2. domain'[dom] = x
    BY <2>1 DEF DomainsInv, DomainsTypes
  <2>3. gptpDomains' = [gptpDomains EXCEPT ![dom] = Published(@, domain'[dom])]
    BY DEF OnSync, Publish
  <2>. QED  BY <2>1, <2>2, <2>3 DEF OnSync
<1>2. /\ DomainFits(d, gptpDomains[dom], Told(dom), now, ~due)
      /\ d \in DomainTypes /\ gptpDomains[dom] \in TruthTypes
      /\ Told(dom) \in [Ports -> SUBSET Vectors] /\ ToldFits(Told(dom))
      /\ gptpDomains[dom].sync = d.syncState /\ gptpDomains[dom].gm = d.gmId
      /\ AnnouncersFit(d, Told(dom), now)
  BY DomainKnown
<1>3. now \in Nat /\ now' \in Nat /\ now =< now' /\ (~due) \in BOOLEAN
  BY DEF Passes
<1>4. /\ DomainFits(d, gptpDomains[dom], Told(dom), now', FALSE)
      /\ AnnouncersFit(d, Told(dom), now')
  <2>1. DomainFits(d, gptpDomains[dom], Told(dom), now', FALSE)
    BY <1>2, <1>3, DomainOutlives
  <2>. QED  BY <2>1 DEF DomainFits, VectorsFit
<1>5. /\ DrivingOf(d, p) \in GmIds \cup {0}
      /\ DrivingOf(d, p) # 0 => \E v \in Told(dom)[p] : v.gm = DrivingOf(d, p)
      /\ \A v \in d.announcers : v.src = p => DrivingOf(d, p) = v.gm
  BY <1>2, <1>4, DrivingFits
<1>6. /\ y \in DomainTypes
      /\ y.syncState = "HEALTHY" /\ y.lastSync = now' /\ y.syncSender = p
      /\ y.syncSenderGm = DrivingOf(d, p) /\ y.announcers = d.announcers
      /\ y.gmState = d.gmState /\ y.gmId = d.gmId
      /\ y.lastAnnounce = d.lastAnnounce /\ y.announceInterval = d.announceInterval
  <2>. DEFINE before == IF d.syncSender = p THEN d.pendingSyncs ELSE {}
              waiting == IF twoStep THEN Pending(before, seq) ELSE before
  <2>1. y = [d EXCEPT !.lastSync = now', !.syncInterval = interval, !.syncSender = p,
                      !.pendingSyncs = waiting, !.syncState = "HEALTHY",
                      !.syncSenderGm = DrivingOf(d, p)]
    BY DEF SyncedDomain
  <2>2. before \in SUBSET SeqIds
    BY <1>2 DEF DomainTypes
  <2>3. waiting \in SUBSET SeqIds
    BY <2>2 DEF Pending
  <2>. HIDE DEF y, d, waiting
  <2>. QED  BY <1>2, <1>3, <1>5, <2>1, <2>3 DEF DomainTypes
<1>. HIDE DEF y, d
<1>7. AnnouncersFit(y, Told(dom), now')
  <2>1. p # 0
    BY GptpAssumption
  <2>. QED  BY <1>4, <1>5, <1>6, <2>1 DEF AnnouncersFit
<1>8. /\ x \in DomainTypes /\ VectorsFit(x, Told(dom), now', TRUE)
      /\ ClockFits(x, truth, now', FALSE) <=> ClockFits(y, truth, now', FALSE)
  BY <1>2, <1>3, <1>6, <1>7, EvalFits
<1>9. x.gmId = y.gmId /\ x.syncState = y.syncState
  BY <1>6 DEF EvalBmca, DomainTypes
<1>. HIDE DEF x
<1>10. truth \in TruthTypes /\ truth.sync = y.syncState /\ truth.gm = y.gmId
  BY <1>2, <1>6, <1>8, <1>9, PublishFits
<1>. HIDE DEF truth
<1>11. ClockFits(y, truth, now', FALSE)
  <2>1. ClockFits(d, gptpDomains[dom], now', FALSE)
    BY <1>4 DEF DomainFits
  <2>. QED  BY <1>3, <1>6, <1>10, <2>1 DEF ClockFits, GmUntil, Never
<1>12. DomainFits(x, truth, Told(dom), now', FALSE)
  BY <1>2, <1>8, <1>10, <1>11 DEF DomainFits, VectorsFit
<1>13. announced' \in [Domains \X Ports -> SUBSET Vectors]
  BY <1>1 DEF DomainsInv, DomainsTypes
<1>14. [q \in Ports |-> announced'[<<dom, q>>]] = Told(dom)
  BY <1>1 DEF Told
<1>. QED  BY <1>1, <1>12, <1>13, <1>14, DomainChanged

(* An Announce: it replaces what the port told before. *)
LEMMA AnnounceKeeps ==
    ASSUME DomainsInv, Passes, due', NEW p \in Ports, NEW dom \in Domains,
           NEW quality \in Qualities, NEW gm \in GmIds, NEW steps \in Nat,
           NEW interval \in Intervals,
           OnAnnounce(p, dom, quality, gm, steps, interval, now')
    PROVE  DomainsInv'
<1>. DEFINE d == domain[dom]
            vec == [src |-> p, quality |-> quality, gm |-> gm, lastTs |-> now',
                    interval |-> interval]
            telling == IF steps < Unqualified THEN {vec} ELSE {}
            told == [Told(dom) EXCEPT ![p] = telling]
            y == AnnouncedDomain(d, p, quality, gm, steps, interval, now')
            x == EvalBmca(y, now')
            truth == Published(gptpDomains[dom], x)
<1>1. /\ domain' = [domain EXCEPT ![dom] = x]
      /\ gptpDomains' = [gptpDomains EXCEPT ![dom] = truth]
      /\ announced' = [announced EXCEPT ![<<dom, p>>] = telling]
  <2>1. domain' = [domain EXCEPT ![dom] = x]
    BY DEF OnAnnounce
  <2>2. domain'[dom] = x
    BY <2>1 DEF DomainsInv, DomainsTypes
  <2>3. gptpDomains' = [gptpDomains EXCEPT ![dom] = Published(@, domain'[dom])]
    BY DEF OnAnnounce, Publish
  <2>. QED  BY <2>1, <2>2, <2>3 DEF OnAnnounce
<1>2. /\ DomainFits(d, gptpDomains[dom], Told(dom), now, ~due)
      /\ d \in DomainTypes /\ gptpDomains[dom] \in TruthTypes
      /\ Told(dom) \in [Ports -> SUBSET Vectors] /\ ToldFits(Told(dom))
      /\ gptpDomains[dom].sync = d.syncState /\ gptpDomains[dom].gm = d.gmId
  BY DomainKnown
<1>3. now \in Nat /\ now' \in Nat /\ now =< now' /\ (~due) \in BOOLEAN
  BY DEF Passes
<1>4. /\ DomainFits(d, gptpDomains[dom], Told(dom), now', FALSE)
      /\ AnnouncersFit(d, Told(dom), now')
  <2>1. DomainFits(d, gptpDomains[dom], Told(dom), now', FALSE)
    BY <1>2, <1>3, DomainOutlives
  <2>. QED  BY <2>1 DEF DomainFits, VectorsFit
<1>5. vec \in Vectors /\ vec.src = p /\ vec.gm = gm
  BY <1>3 DEF Vectors
<1>. HIDE DEF vec
<1>6. telling \in SUBSET Vectors
  BY <1>5
<1>7. /\ y \in DomainTypes
      /\ y.announcers = {v \in d.announcers : v.src # p} \cup telling
      /\ y.gmState = "GM_PRESENT" /\ y.gmId = gm /\ y.lastAnnounce = now'
      /\ y.syncSender = d.syncSender /\ y.syncState = d.syncState
      /\ y.lastSync = d.lastSync /\ y.syncInterval = d.syncInterval
      /\ y.syncSenderGm = IF p # d.syncSender THEN d.syncSenderGm
                          ELSE IF steps < Unqualified THEN gm ELSE 0
  <2>. DEFINE kept == {v \in d.announcers : v.src # p} \cup telling
              driving == IF p # d.syncSender THEN d.syncSenderGm
                         ELSE IF steps < Unqualified THEN gm ELSE 0
  <2>1. y = [d EXCEPT !.lastAnnounce = now', !.announceInterval = interval,
                      !.gmState = "GM_PRESENT", !.gmId = gm,
                      !.announcers = kept, !.syncSenderGm = driving]
    BY DEF AnnouncedDomain, vec
  <2>2. kept \in SUBSET Vectors
    BY <1>2, <1>6 DEF DomainTypes
  <2>3. driving \in GmIds \cup {0}
    BY <1>2 DEF DomainTypes
  <2>4. kept = {v \in d.announcers : v.src # p} \cup telling
        /\ driving = IF p # d.syncSender THEN d.syncSenderGm
                     ELSE IF steps < Unqualified THEN gm ELSE 0
    OBVIOUS
  <2>5. d \in DomainTypes
    BY <1>2
  <2>. HIDE DEF y, d, kept, driving, telling
  <2>6. y \in DomainTypes
    BY <1>3, <2>1, <2>2, <2>3, <2>5 DEF DomainTypes
  <2>7. /\ y.announcers = kept
        /\ y.gmState = "GM_PRESENT" /\ y.gmId = gm /\ y.lastAnnounce = now'
        /\ y.syncSender = d.syncSender /\ y.syncState = d.syncState
        /\ y.lastSync = d.lastSync /\ y.syncInterval = d.syncInterval
        /\ y.syncSenderGm = driving
    BY <2>1, <2>5 DEF DomainTypes
  <2>. QED  BY <2>4, <2>6, <2>7
<1>8. /\ told \in [Ports -> SUBSET Vectors] /\ told[p] = telling
      /\ \A q \in Ports \ {p} : told[q] = Told(dom)[q]
  BY <1>2, <1>6
<1>9. \A v : v \in telling <=> v = vec /\ steps < Unqualified
  OBVIOUS
<1>. HIDE DEF y, d, told, telling
<1>10. ToldFits(told)
  BY <1>2, <1>5, <1>8, <1>9 DEF ToldFits, AtMostOne
<1>11. AnnouncersFit(y, told, now')
  <2>1. \A v \in y.announcers : v \in told[v.src]
    <3>1. \A v \in d.announcers : v.src \in Ports /\ v \in Told(dom)[v.src]
      BY <1>2, <1>4 DEF AnnouncersFit, DomainTypes, Vectors
    <3>. QED  BY <1>5, <1>7, <1>8, <1>9, <3>1
  <2>2. \A q \in Ports : \A v \in told[q] : now' =< ValidUntil(v) => v \in y.announcers
    <3>1. \A q \in Ports : \A v \in Told(dom)[q] :
             v.src = q /\ (now' =< ValidUntil(v) => v \in d.announcers)
      BY <1>2, <1>4 DEF AnnouncersFit, ToldFits
    <3>. QED  BY <1>7, <1>8, <3>1
  <2>3. y.syncSender = 0 => y.syncSenderGm = 0
    BY <1>4, <1>7, GptpAssumption DEF AnnouncersFit
  <2>4. y.syncSenderGm # 0 => \E v \in told[y.syncSender] : v.gm = y.syncSenderGm
    <3>1. CASE p = d.syncSender
      BY <3>1, <1>5, <1>7, <1>8, <1>9
    <3>2. CASE p # d.syncSender
      <4>1. SUFFICES ASSUME y.syncSenderGm # 0
                     PROVE  \E v \in told[y.syncSender] : v.gm = y.syncSenderGm
        OBVIOUS
      <4>2. y.syncSenderGm = d.syncSenderGm /\ y.syncSender = d.syncSender
        BY <3>2, <1>7
      <4>3. d.syncSender \in Ports \ {p}
        BY <3>2, <4>1, <4>2, <1>2, <1>4 DEF AnnouncersFit, DomainTypes
      <4>. QED  BY <4>1, <4>2, <4>3, <1>4, <1>8 DEF AnnouncersFit
    <3>. QED  BY <3>1, <3>2
  <2>5. \A v \in y.announcers : v.src = y.syncSender => y.syncSenderGm = v.gm
    BY <1>4, <1>5, <1>7, <1>9 DEF AnnouncersFit
  <2>. QED  BY <2>1, <2>2, <2>3, <2>4, <2>5 DEF AnnouncersFit
<1>12. /\ x \in DomainTypes /\ VectorsFit(x, told, now', TRUE)
       /\ ClockFits(x, truth, now', FALSE) <=> ClockFits(y, truth, now', FALSE)
  BY <1>3, <1>7, <1>8, <1>10, <1>11, EvalFits
<1>13. x.gmId = y.gmId /\ x.syncState = y.syncState
  BY <1>7 DEF EvalBmca, DomainTypes
<1>. HIDE DEF x
<1>14. truth \in TruthTypes /\ truth.sync = y.syncState /\ truth.gm = y.gmId
  <2>1. gm # 0
    BY GptpAssumption
  <2>. QED  BY <2>1, <1>2, <1>7, <1>12, <1>13, PublishFits
<1>. HIDE DEF truth
<1>15. ClockFits(y, truth, now', FALSE)
  <2>1. ClockFits(d, gptpDomains[dom], now', FALSE)
    BY <1>4 DEF DomainFits
  <2>. QED  BY <1>3, <1>7, <1>14, <2>1 DEF ClockFits, SyncUntil, Never
<1>16. DomainFits(x, truth, told, now', FALSE)
  BY <1>10, <1>12, <1>14, <1>15 DEF DomainFits, VectorsFit
<1>17. announced' \in [Domains \X Ports -> SUBSET Vectors]
  BY <1>1, <1>6 DEF DomainsInv, DomainsTypes
<1>18. \A q \in Domains, r \in Ports :
         announced'[<<q, r>>] = IF q = dom /\ r = p THEN telling ELSE announced[<<q, r>>]
  BY <1>1 DEF DomainsInv, DomainsTypes
<1>19. [q \in Ports |-> announced'[<<dom, q>>]] = told
  BY <1>18 DEF Told, told
<1>20. DomainFits(x, truth, [q \in Ports |-> announced'[<<dom, q>>]], now', FALSE)
  BY <1>16, <1>19
<1>21. \A q \in Domains \ {dom}, r \in Ports : announced'[<<q, r>>] = announced[<<q, r>>]
  BY <1>18
<1>. QED  BY <1>1, <1>17, <1>20, <1>21, DomainChanged

(* A Follow_Up leaves of a domain all but the Syncs that wait for one. *)
LEMMA FollowUpKeeps ==
    ASSUME DomainsInv, Passes, due', NEW p \in Ports, NEW dom \in Domains,
           NEW seq \in SeqIds, OnFollowUp(p, dom, seq)
    PROVE  DomainsInv'
<1>. DEFINE d == domain[dom]
            rest == d.pendingSyncs \ {seq}
            x == [d EXCEPT !.pendingSyncs = rest]
<1>1. /\ d \in DomainTypes
      /\ DomainFits(d, gptpDomains[dom], Told(dom), now, ~due)
      /\ gptpDomains[dom] \in TruthTypes /\ Told(dom) \in [Ports -> SUBSET Vectors]
  BY DomainKnown
<1>2. /\ domain' = [domain EXCEPT ![dom] = x]
      /\ gptpDomains' = [gptpDomains EXCEPT ![dom] = gptpDomains[dom]]
      /\ announced' = announced
  BY DEF OnFollowUp, DomainsInv, DomainsTypes
<1>3. rest \in SUBSET SeqIds
  BY <1>1 DEF DomainTypes
<1>4. now \in Nat /\ now' \in Nat /\ now =< now' /\ (~due) \in BOOLEAN
  BY DEF Passes
<1>5. DomainFits(d, gptpDomains[dom], Told(dom), now', FALSE)
  BY <1>1, <1>4, DomainOutlives
<1>. HIDE DEF d, rest
<1>6. /\ x \in DomainTypes
      /\ x.announcers = d.announcers /\ x.expected = d.expected /\ x.syncVec = d.syncVec
      /\ x.syncSender = d.syncSender /\ x.syncSenderGm = d.syncSenderGm
      /\ x.syncState = d.syncState /\ x.lastSync = d.lastSync
      /\ x.syncInterval = d.syncInterval /\ x.gmState = d.gmState
      /\ x.gmId = d.gmId /\ x.lastAnnounce = d.lastAnnounce
      /\ x.announceInterval = d.announceInterval
  BY <1>1, <1>3 DEF DomainTypes
<1>. HIDE DEF x
<1>7. ClockFits(x, gptpDomains[dom], now', FALSE)
  BY <1>5, <1>6 DEF DomainFits, ClockFits, SyncUntil, GmUntil
<1>8. VectorsFit(x, Told(dom), now', FALSE)
  BY <1>5, <1>6 DEF DomainFits, VectorsFit, AnnouncersFit
<1>9. DomainFits(x, gptpDomains[dom], Told(dom), now', FALSE)
  BY <1>5, <1>6, <1>7, <1>8 DEF DomainFits
<1>10. announced' \in [Domains \X Ports -> SUBSET Vectors]
  BY <1>2 DEF DomainsInv, DomainsTypes
<1>11. [q \in Ports |-> announced'[<<dom, q>>]] = Told(dom)
  BY <1>2 DEF Told
<1>. QED  BY <1>2, <1>9, <1>10, <1>11, DomainChanged

(* A packet of another analyzer, or of a port only. *)
LEMMA DomainsKept ==
    DomainsInv /\ Passes /\ UNCHANGED <<domain, gptpDomains, announced>> => DomainsInv'
<1>. SUFFICES ASSUME DomainsInv, Passes, UNCHANGED <<domain, gptpDomains, announced>>
              PROVE  DomainsInv'
  OBVIOUS
<1>1. DomainsTypes'
  BY DEF DomainsInv, DomainsTypes
<1>2. ASSUME NEW dom \in Domains
      PROVE  DomainFits(domain'[dom], gptpDomains'[dom], Told(dom)', now', ~due')
  <2>1. /\ DomainFits(domain[dom], gptpDomains[dom], Told(dom), now, ~due)
        /\ Told(dom) \in [Ports -> SUBSET Vectors]
    BY DomainKnown
  <2>2. Told(dom)' = Told(dom)
    BY DEF Told
  <2>3. CASE due'
    <3>1. now \in Nat /\ now' \in Nat /\ now =< now' /\ (~due) \in BOOLEAN /\ (~due') = FALSE
      BY <2>3 DEF Passes
    <3>2. DomainFits(domain[dom], gptpDomains[dom], Told(dom), now', FALSE)
      BY <2>1, <3>1, DomainOutlives
    <3>. QED  BY <2>2, <3>1, <3>2
  <2>4. CASE ~due'
    <3>1. now' = now /\ (~due') = (~due)
      BY <2>4 DEF Passes
    <3>. QED  BY <2>1, <2>2, <3>1
  <2>. QED  BY <2>3, <2>4
<1>. QED  BY <1>1, <1>2 DEF DomainsInv

(* The tick of a domain: a timeout is told and published. *)
LEMMA DomainTicks ==
    ASSUME DomainsInv, now \in Nat, due \in BOOLEAN, NEW dom \in Domains
    PROVE  DomainFits(TickedDomain(domain[dom]), TickedTruth(dom), Told(dom), now, TRUE)
<1>. DEFINE d == domain[dom]
            sync == IF SyncMissed(d) THEN "LOST" ELSE d.syncState
            state == IF GmMissed(d) THEN "GM_TIMED_OUT" ELSE d.gmState
            y == [d EXCEPT !.syncState = sync, !.gmState = state]
            x == EvalBmca(y, now)
            truth == TickedTruth(dom)
<1>1. TickedDomain(d) = x
  BY DEF TickedDomain
<1>2. /\ DomainFits(d, gptpDomains[dom], Told(dom), now, ~due)
      /\ d \in DomainTypes /\ gptpDomains[dom] \in TruthTypes
      /\ Told(dom) \in [Ports -> SUBSET Vectors] /\ ToldFits(Told(dom))
      /\ gptpDomains[dom].sync = d.syncState /\ gptpDomains[dom].gm = d.gmId
      /\ AnnouncersFit(d, Told(dom), now)
  BY DomainKnown
<1>3. /\ SyncMissed(d) <=> d.syncState = "HEALTHY" /\ now > SyncUntil(d)
      /\ GmMissed(d) <=> d.gmState = "GM_PRESENT" /\ now > GmUntil(d)
  BY DEF SyncMissed, GmMissed, SyncUntil, GmUntil
<1>4. truth = IF SyncMissed(d) \/ GmMissed(d) THEN Published(gptpDomains[dom], x)
              ELSE gptpDomains[dom]
  BY <1>1 DEF TickedTruth
<1>5. /\ sync \in {"UNKNOWN", "HEALTHY", "LOST"}
      /\ state \in {"NO_GM", "GM_PRESENT", "GM_TIMED_OUT"}
  BY <1>2 DEF DomainTypes
<1>6. /\ sync = IF SyncMissed(d) THEN "LOST" ELSE d.syncState
      /\ state = IF GmMissed(d) THEN "GM_TIMED_OUT" ELSE d.gmState
  OBVIOUS
<1>. HIDE DEF d, sync, state
<1>7. d \in DomainTypes
  BY <1>2
<1>8. y = [d EXCEPT !.syncState = sync, !.gmState = state]
  OBVIOUS
<1>. HIDE DEF y
<1>9. y \in DomainTypes
  BY <1>5, <1>7, <1>8 DEF DomainTypes
<1>10. /\ y \in DomainTypes
      /\ y.syncState = sync /\ y.gmState = state /\ y.gmId = d.gmId
      /\ y.lastSync = d.lastSync /\ y.syncInterval = d.syncInterval
      /\ y.lastAnnounce = d.lastAnnounce /\ y.announceInterval = d.announceInterval
      /\ y.announcers = d.announcers
      /\ y.syncSender = d.syncSender /\ y.syncSenderGm = d.syncSenderGm
  BY <1>7, <1>8, <1>9 DEF DomainTypes
<1>. HIDE DEF truth
<1>11. AnnouncersFit(y, Told(dom), now)
  BY <1>2, <1>10 DEF AnnouncersFit
<1>12. x \in DomainTypes
  BY <1>2, <1>10, <1>11, EvalFits
<1>13. /\ VectorsFit(x, Told(dom), now, TRUE)
      /\ ClockFits(x, truth, now, TRUE) <=> ClockFits(y, truth, now, TRUE)
  BY <1>2, <1>10, <1>11, EvalFits
<1>14. x.gmId = y.gmId /\ x.syncState = y.syncState
  BY <1>10 DEF EvalBmca, DomainTypes
<1>. HIDE DEF x
<1>15. truth \in TruthTypes /\ truth.sync = y.syncState /\ truth.gm = y.gmId
  <2>1. CASE SyncMissed(d) \/ GmMissed(d)
    <3>1. d.syncState = "UNKNOWN" => y.syncState = "UNKNOWN"
      BY <1>3, <1>10, <1>6
    <3>2. y.syncState = d.syncState \/ y.syncState # "UNKNOWN"
      BY <1>10, <1>6
    <3>3. truth = Published(gptpDomains[dom], x)
      BY <1>4, <2>1
    <3>4. /\ gptpDomains[dom] \in TruthTypes
          /\ gptpDomains[dom].sync = d.syncState /\ gptpDomains[dom].gm = d.gmId
      BY <1>2
    <3>5. x.gmId = d.gmId
      BY <1>10, <1>14
    <3>6. x.syncState = d.syncState \/ x.syncState # "UNKNOWN"
      BY <1>14, <3>2
    <3>7. /\ Published(gptpDomains[dom], x) \in TruthTypes
          /\ Published(gptpDomains[dom], x).sync = x.syncState
          /\ Published(gptpDomains[dom], x).gm = x.gmId
      BY <1>12, <3>4, <3>5, <3>6, PublishFits
    <3>. QED  BY <1>14, <3>3, <3>7
  <2>2. CASE ~(SyncMissed(d) \/ GmMissed(d))
    BY <1>2, <1>4, <1>10, <1>6, <2>2
  <2>. QED  BY <2>1, <2>2
<1>16. ClockFits(y, truth, now, TRUE)
  <2>1. ClockFits(d, gptpDomains[dom], now, ~due)
    BY <1>2 DEF DomainFits
  <2>2. SyncUntil(y) = SyncUntil(d) /\ GmUntil(y) = GmUntil(d)
    BY <1>10 DEF SyncUntil, GmUntil
  <2>3. SyncUntil(d) \in Int /\ GmUntil(d) \in Int
    BY <1>2, UntilTypes
  <2>. QED  BY <1>3, <1>10, <1>15, <1>6, <2>1, <2>2, <2>3 DEF ClockFits
<1>. QED  BY <1>1, <1>2, <1>13, <1>12, <1>15, <1>16 DEF DomainFits, truth, d

LEMMA DomainsTick ==
    DomainsInv /\ now \in Nat /\ due \in BOOLEAN /\ Ticks /\ GptpTick => DomainsInv'
<1>. SUFFICES ASSUME DomainsInv, now \in Nat, due \in BOOLEAN, Ticks, GptpTick
              PROVE  DomainsInv'
  OBVIOUS
<1>1. /\ domain' = [d \in Domains |-> TickedDomain(domain[d])]
      /\ gptpDomains' = [d \in Domains |-> TickedTruth(d)]
      /\ announced' = announced
      /\ now' = now /\ (~due') = TRUE
  BY DEF GptpTick, Ticks
<1>2. ASSUME NEW dom \in Domains
      PROVE  DomainFits(domain'[dom], gptpDomains'[dom], Told(dom)', now', ~due')
  <2>1. DomainFits(TickedDomain(domain[dom]), TickedTruth(dom), Told(dom), now, TRUE)
    BY DomainTicks
  <2>2. domain'[dom] = TickedDomain(domain[dom]) /\ gptpDomains'[dom] = TickedTruth(dom)
    BY <1>1
  <2>3. Told(dom)' = Told(dom)
    BY <1>1 DEF Told
  <2>. QED  BY <1>1, <2>1, <2>2, <2>3
<1>3. DomainsTypes'
  <2>1. \A dom \in Domains : TickedDomain(domain[dom]) \in DomainTypes
                             /\ TickedTruth(dom) \in TruthTypes
    BY DomainTicks DEF DomainFits
  <2>. QED  BY <1>1, <2>1 DEF DomainsInv, DomainsTypes
<1>. QED  BY <1>2, <1>3 DEF DomainsInv

LEMMA DomainsStart == ClockInit /\ GptpInit => DomainsInv
<1>. SUFFICES ASSUME ClockInit, GptpInit PROVE DomainsInv
  OBVIOUS
<1>1. NewDomain \in DomainTypes
  BY GptpAssumption DEF NewDomain, DomainTypes, Never
<1>2. /\ NewDomain.syncState = "UNKNOWN" /\ NewDomain.lastSync = Never
      /\ NewDomain.gmState = "NO_GM" /\ NewDomain.lastAnnounce = Never
      /\ NewDomain.gmId = 0 /\ NewDomain.syncSender = 0 /\ NewDomain.syncSenderGm = 0
      /\ NewDomain.announcers = {} /\ NewDomain.expected = {} /\ NewDomain.syncVec = {}
  BY DEF NewDomain
<1>3. DomainsTypes
  BY <1>1 DEF GptpInit, DomainsTypes, TruthTypes
<1>4. ASSUME NEW dom \in Domains
      PROVE  DomainFits(domain[dom], gptpDomains[dom], Told(dom), now, ~due)
  <2>. DEFINE truth == [gm |-> 0, sync |-> "UNKNOWN"]
  <2>1. domain[dom] = NewDomain /\ gptpDomains[dom] = truth
        /\ Told(dom) = [p \in Ports |-> {}]
    BY DEF GptpInit, Told
  <2>2. truth \in TruthTypes /\ truth.gm = 0 /\ truth.sync = "UNKNOWN"
    BY DEF TruthTypes
  <2>. HIDE DEF truth
  <2>3. ToldFits([p \in Ports |-> {}])
    BY DEF ToldFits, AtMostOne
  <2>4. ClockFits(NewDomain, truth, now, ~due)
    BY <1>2, <2>2 DEF ClockFits
  <2>5. VectorsFit(NewDomain, [p \in Ports |-> {}], now, ~due)
    <3>1. Best({}) = {}
      BY DEF Best
    <3>. QED  BY <1>2, <3>1 DEF VectorsFit, AnnouncersFit
  <2>. QED  BY <1>1, <2>1, <2>2, <2>3, <2>4, <2>5 DEF DomainFits
<1>. QED  BY <1>3, <1>4 DEF DomainsInv

(* Once the ticks are over, the announcers are those whose announcement is *)
(* valid.                                                                  *)
LEMMA ValidAre ==
    ASSUME DomainsInv, ~due, NEW dom \in Domains
    PROVE  domain[dom].announcers = Valid(dom)
<1>1. VectorsFit(domain[dom], Told(dom), now, ~due) /\ domain[dom] \in DomainTypes
  BY DEF DomainsInv, DomainFits
<1>2. \A p \in Ports : Told(dom)[p] = announced[<<dom, p>>]
  BY DEF Told
<1>3. \A v : v \in Valid(dom) <=> /\ \E p \in Ports : v \in Told(dom)[p]
                                   /\ now =< ValidUntil(v)
  BY <1>2 DEF Valid, ValidUntil
<1>4. \A v \in domain[dom].announcers : v.src \in Ports
  BY <1>1 DEF DomainTypes, Vectors
<1>. QED  BY <1>1, <1>3, <1>4 DEF VectorsFit, AnnouncersFit

(* What the invariant says of the domains. *)
LEMMA ClockSays == DomainsInv /\ now \in Nat => ClockTruth
<1>. SUFFICES ASSUME DomainsInv, now \in Nat, ~due, NEW dom \in Domains
              PROVE  LET d == domain[dom]
                         truth == gptpDomains[dom]
                     IN  /\ truth.sync = "UNKNOWN" <=> d.lastSync = Never
                         /\ truth.sync = "HEALTHY" <=>
                               /\ d.lastSync # Never
                               /\ now =< d.lastSync + SyncReceiptTimeoutN * d.syncInterval
                         /\ truth.gm = d.gmId
                         /\ d.gmState = "GM_PRESENT" <=>
                               /\ d.lastAnnounce # Never
                               /\ now =< d.lastAnnounce
                                           + AnnounceReceiptTimeoutN * d.announceInterval
  BY DEF ClockTruth
<1>1. /\ ClockFits(domain[dom], gptpDomains[dom], now, ~due)
      /\ domain[dom] \in DomainTypes
  BY DEF DomainsInv, DomainFits
<1>2. SyncUntil(domain[dom]) \in Int /\ GmUntil(domain[dom]) \in Int
  BY <1>1, UntilTypes
<1>3. /\ domain[dom].syncState \in {"UNKNOWN", "HEALTHY", "LOST"}
      /\ domain[dom].gmState \in {"NO_GM", "GM_PRESENT", "GM_TIMED_OUT"}
  BY <1>1 DEF DomainTypes
<1>. QED  BY <1>1, <1>2, <1>3 DEF ClockFits, SyncUntil, GmUntil

LEMMA BmcaSays == DomainsInv => BmcaTruth
<1>. SUFFICES ASSUME DomainsInv, ~due, NEW dom \in Domains
              PROVE  LET d == domain[dom]
                         ofSender == {v \in Valid(dom) : v.src = d.syncSender}
                     IN  /\ d.expected = Best(Valid(dom))
                         /\ d.syncSenderGm # 0 =>
                               \E v \in announced[<<dom, d.syncSender>>] :
                                  v.gm = d.syncSenderGm
                         /\ \A v \in ofSender : d.syncSenderGm = v.gm
                         /\ BmcaState(d) = "PRIORITY_INVERSION" =>
                               \E v \in Valid(dom), w \in ofSender : v.quality < w.quality
                         /\ BmcaState(d) = "TIEBREAK" =>
                               \E v \in Valid(dom), w \in ofSender :
                                  v.quality = w.quality /\ v.gm < w.gm
  BY DEF BmcaTruth
<1>. DEFINE d == domain[dom]
            ofSender == {v \in Valid(dom) : v.src = d.syncSender}
<1>1. /\ VectorsFit(d, Told(dom), now, ~due) /\ AnnouncersFit(d, Told(dom), now)
      /\ d \in DomainTypes
  BY DEF DomainsInv, DomainFits, VectorsFit
<1>2. d.announcers = Valid(dom)
  BY ValidAre
<1>3. /\ d.expected = Best(Valid(dom)) /\ d.syncVec = ofSender
      /\ \A v \in ofSender : d.syncSenderGm = v.gm
  BY <1>1, <1>2 DEF VectorsFit, AnnouncersFit
<1>4. d.syncSenderGm # 0 => \E v \in announced[<<dom, d.syncSender>>] : v.gm = d.syncSenderGm
  <2>1. d.syncSenderGm # 0 => d.syncSender \in Ports
    BY <1>1 DEF AnnouncersFit, DomainTypes
  <2>. QED  BY <1>1, <2>1 DEF AnnouncersFit, Told
<1>5. \A v \in Valid(dom) : v.quality \in Int /\ v.gm \in Int
  <2>1. \A v \in Valid(dom) : v \in Vectors
    BY <1>1, <1>2 DEF DomainTypes
  <2>2. \A v \in Vectors : v.quality \in Qualities /\ v.gm \in GmIds
    BY DEF Vectors
  <2>3. Qualities \subseteq Int /\ GmIds \subseteq Int
    BY GptpAssumption
  <2>. QED  BY <2>1, <2>2, <2>3
<1>6. \A v \in d.expected : /\ v \in Valid(dom)
                            /\ \A w \in Valid(dom) : w # v => Better(v, w)
  BY <1>3 DEF Best
<1>7. ASSUME NEW v \in d.expected, NEW w \in ofSender, v.gm # d.syncSenderGm
      PROVE  v.quality < w.quality \/ (v.quality = w.quality /\ v.gm < w.gm)
  <2>1. w.gm = d.syncSenderGm /\ v # w /\ v.gm # w.gm
    BY <1>3, <1>7
  <2>2. Better(v, w)
    BY <1>6, <2>1
  <2>. QED  BY <2>1, <2>2 DEF Better
<1>8. ASSUME BmcaState(d) \in {"PRIORITY_INVERSION", "TIEBREAK"}
      PROVE  /\ d.expected # {} /\ ofSender # {}
             /\ \A v \in d.expected : v.gm # d.syncSenderGm
             /\ (\E v \in d.expected, w \in ofSender : v.quality = w.quality)
                   <=> BmcaState(d) = "TIEBREAK"
  <2>1. ~(d.expected = {} \/ d.syncSenderGm = 0)
    BY <1>8 DEF BmcaState
  <2>2. ~ \E v \in d.expected : v.gm = d.syncSenderGm
    BY <1>8, <2>1 DEF BmcaState
  <2>3. ofSender # {}
    BY <1>3, <1>8, <2>1, <2>2 DEF BmcaState
  <2>4. BmcaState(d) = IF \E v \in d.expected, w \in ofSender : v.quality = w.quality
                       THEN "TIEBREAK" ELSE "PRIORITY_INVERSION"
    BY <1>3, <2>1, <2>2, <2>3 DEF BmcaState
  <2>. QED  BY <2>1, <2>2, <2>3, <2>4
<1>. HIDE DEF d, ofSender
<1>9. BmcaState(d) = "PRIORITY_INVERSION" =>
         \E v \in Valid(dom), w \in ofSender : v.quality < w.quality
  BY <1>6, <1>7, <1>8
<1>10. BmcaState(d) = "TIEBREAK" =>
         \E v \in Valid(dom), w \in ofSender : v.quality = w.quality /\ v.gm < w.gm
  <2>1. SUFFICES ASSUME BmcaState(d) = "TIEBREAK"
                 PROVE  \E v \in Valid(dom), w \in ofSender : v.quality = w.quality /\ v.gm < w.gm
    OBVIOUS
  <2>2. PICK v \in d.expected, w \in ofSender : v.quality = w.quality
    BY <1>8, <2>1
  <2>3. v.gm # d.syncSenderGm /\ v \in Valid(dom)
    BY <1>6, <1>8, <2>1
  <2>4. v.quality < w.quality \/ (v.quality = w.quality /\ v.gm < w.gm)
    BY <1>7, <2>3
  <2>5. w \in Valid(dom)
    BY DEF ofSender
  <2>6. v.gm < w.gm
    BY <1>5, <2>2, <2>3, <2>4, <2>5
  <2>. QED  BY <2>2, <2>3, <2>6
<1>. QED  BY <1>3, <1>4, <1>9, <1>10 DEF d, ofSender
-----------------------------------------------------------------------------
(***************************************************************************)
(* gPTP: the ports                                                         *)
(***************************************************************************)

(* What a port counts of its own requests, and the state shown for them,   *)
(* with the exchanges open.                                                *)
RequesterFits(s, open) ==
    /\ AtMostOne(open)
    /\ s.initiated = s.complete + s.lost + IF open = {} THEN 0 ELSE 1
    /\ \A e \in open : s.mdReqState = IF e.haveResp THEN "WAITING_FOR_PDELAY_RESP_FOLLOW_UP"
                                      ELSE "WAITING_FOR_PDELAY_RESP"
    /\ open = {} => s.mdReqState \in {"NOT_ENABLED", "RESET",
                                      "WAITING_FOR_PDELAY_INTERVAL_TIMER"}
    /\ s.mdReqState = "RESET" => s.consecutiveLost > 0
    /\ s.asCapable = "NOT_AS_CAPABLE" <=> s.consecutiveLost >= AllowedLostResponses
    /\ s.asCapable = "AS_CAPABLE" => s.complete > 0

PortsTypes == port \in [Ports -> PortTypes] /\ exchanges \in SUBSET Exchanges

PortsInv ==
    /\ PortsTypes
    /\ \A p \in Ports : RequesterFits(port[p], Open(p))
    /\ ~due => \A e \in exchanges : ~Overdue(e)

(* What a port keeps of itself as a requester. *)
AsRequester(s) == <<s.mdReqState, s.asCapable, s.initiated, s.complete, s.lost,
                    s.consecutiveLost, s.reqInterval>>

(* Ports, some of whose other values changed. *)
SameRequesters(ports, after) ==
    /\ after \in [Ports -> PortTypes]
    /\ \A p \in Ports : AsRequester(after[p]) = AsRequester(ports[p])

LEMMA PortsStart == ClockInit /\ GptpInit => PortsInv
<1>. SUFFICES ASSUME ClockInit, GptpInit PROVE PortsInv
  OBVIOUS
<1>1. NewPort \in PortTypes
  BY GptpAssumption DEF NewPort, PortTypes, Never
<1>2. PortsTypes
  BY <1>1 DEF GptpInit, PortsTypes
<1>3. ASSUME NEW p \in Ports PROVE RequesterFits(port[p], Open(p))
  <2>1. Open(p) = {} /\ port[p] = NewPort
    BY DEF GptpInit, Open
  <2>2. RequesterFits(NewPort, {})
    BY GptpAssumption DEF NewPort, RequesterFits, AtMostOne
  <2>. QED  BY <2>1, <2>2
<1>. QED  BY <1>2, <1>3 DEF PortsInv, GptpInit

(* A packet that is not about the delay. *)
LEMMA PortsKept ==
    ASSUME PortsInv, due' \/ (~due /\ now' = now), exchanges' = exchanges,
           SameRequesters(port, port')
    PROVE  PortsInv'
<1>1. PortsTypes'
  BY DEF PortsInv, PortsTypes, SameRequesters
<1>2. ASSUME NEW p \in Ports PROVE RequesterFits(port'[p], Open(p)')
  <2>1. /\ port'[p].mdReqState = port[p].mdReqState /\ port'[p].asCapable = port[p].asCapable
        /\ port'[p].initiated = port[p].initiated /\ port'[p].complete = port[p].complete
        /\ port'[p].lost = port[p].lost
        /\ port'[p].consecutiveLost = port[p].consecutiveLost
    BY DEF SameRequesters, AsRequester
  <2>2. Open(p)' = Open(p)
    BY DEF Open
  <2>3. RequesterFits(port[p], Open(p))
    BY DEF PortsInv
  <2>. QED  BY <2>1, <2>2, <2>3 DEF RequesterFits
<1>3. ASSUME ~due' PROVE \A e \in exchanges' : ~Overdue(e)'
  <2>1. now' = now /\ ~due
    BY <1>3
  <2>2. \A e \in exchanges : port'[e.req].reqInterval = port[e.req].reqInterval
    BY DEF SameRequesters, AsRequester, PortsInv, PortsTypes, Exchanges
  <2>. QED  BY <2>1, <2>2 DEF PortsInv, Overdue
<1>. QED  BY <1>1, <1>2, <1>3 DEF PortsInv

(* One port changed, in values that are not its requester's. *)
LEMMA OtherValues ==
    ASSUME NEW ports \in [Ports -> PortTypes], NEW p \in Ports, NEW x \in PortTypes,
           AsRequester(x) = AsRequester(ports[p])
    PROVE  SameRequesters(ports, [ports EXCEPT ![p] = x])
BY DEF SameRequesters

LEMMA SameSame ==
    ASSUME NEW ports, NEW mid, NEW after,
           SameRequesters(ports, mid), SameRequesters(mid, after)
    PROVE  SameRequesters(ports, after)
BY DEF SameRequesters

(* getPort() *)
LEMMA HeardKeeps ==
    ASSUME port \in [Ports -> PortTypes], NEW p \in Ports, NEW dom \in Domains,
           NEW cmlds \in BOOLEAN
    PROVE  SameRequesters(port, Heard(p, dom, cmlds))
<1>. DEFINE own == IF cmlds THEN port[p].domain ELSE dom
            x == [port[p] EXCEPT !.seen = TRUE, !.domain = own]
<1>1. Heard(p, dom, cmlds) = [port EXCEPT ![p] = x]
  BY DEF Heard
<1>2. own \in Domains
  BY DEF PortTypes
<1>. HIDE DEF own
<1>3. port[p] \in PortTypes
  OBVIOUS
<1>4. x \in PortTypes
  BY <1>2, <1>3 DEF PortTypes
<1>5. AsRequester(x) = AsRequester(port[p])
  <2>1. /\ x.mdReqState = port[p].mdReqState /\ x.asCapable = port[p].asCapable
        /\ x.initiated = port[p].initiated /\ x.complete = port[p].complete
        /\ x.lost = port[p].lost /\ x.consecutiveLost = port[p].consecutiveLost
        /\ x.reqInterval = port[p].reqInterval
    BY <1>3 DEF PortTypes
  <2>. QED  BY <2>1 DEF AsRequester
<1>. HIDE DEF x
<1>. QED  BY <1>1, <1>4, <1>5, OtherValues

(* becomeMaster() and the demotion of silent masters concern roles. *)
LEMMA RolesKeep ==
    ASSUME NEW ports \in [Ports -> PortTypes],
           NEW after, after = [q \in Ports |-> after[q]],
           \A q \in Ports : \E r \in {"UNKNOWN", "MASTER", "SLAVE"} :
              after[q] = [ports[q] EXCEPT !.role = r]
    PROVE  SameRequesters(ports, after)
<1>1. ASSUME NEW q \in Ports
      PROVE  after[q] \in PortTypes /\ AsRequester(after[q]) = AsRequester(ports[q])
  <2>1. PICK r \in {"UNKNOWN", "MASTER", "SLAVE"} : after[q] = [ports[q] EXCEPT !.role = r]
    OBVIOUS
  <2>2. ports[q] \in PortTypes
    OBVIOUS
  <2>. QED  BY <2>1, <2>2 DEF PortTypes, AsRequester
<1>2. after \in [Ports -> PortTypes]
  BY <1>1
<1>. QED  BY <1>1, <1>2 DEF SameRequesters

LEMMA SameRole ==
    \A s \in PortTypes : /\ s.role \in {"UNKNOWN", "MASTER", "SLAVE"}
                         /\ [s EXCEPT !.role = s.role] = s
BY DEF PortTypes

LEMMA MasterKeeps ==
    ASSUME NEW ports \in [Ports -> PortTypes], NEW p \in Ports, NEW dom
    PROVE  SameRequesters(ports, BecomeMaster(ports, p, dom))
<1>. DEFINE after == BecomeMaster(ports, p, dom)
<1>1. after = [q \in Ports |-> after[q]]
  BY DEF BecomeMaster
<1>2. ASSUME NEW q \in Ports
      PROVE  \E r \in {"UNKNOWN", "MASTER", "SLAVE"} : after[q] = [ports[q] EXCEPT !.role = r]
  <2>1. \/ after[q] = [ports[q] EXCEPT !.role = "MASTER"]
        \/ after[q] = [ports[q] EXCEPT !.role = "SLAVE"]
        \/ after[q] = ports[q]
    BY DEF BecomeMaster
  <2>. QED  BY <2>1, SameRole
<1>. HIDE DEF after
<1>3. SameRequesters(ports, after)
  BY <1>1, <1>2, RolesKeep
<1>. QED  BY <1>3 DEF after

LEMMA DemoteKeeps ==
    ASSUME NEW ports \in [Ports -> PortTypes], NEW p, NEW dom, NEW ts, NEW interval
    PROVE  SameRequesters(ports, Demote(ports, p, dom, ts, interval))
<1>. DEFINE after == Demote(ports, p, dom, ts, interval)
<1>1. after = [q \in Ports |-> after[q]]
  BY DEF Demote
<1>2. ASSUME NEW q \in Ports
      PROVE  \E r \in {"UNKNOWN", "MASTER", "SLAVE"} : after[q] = [ports[q] EXCEPT !.role = r]
  <2>1. \/ after[q] = [ports[q] EXCEPT !.role = "SLAVE"]
        \/ after[q] = ports[q]
    BY DEF Demote
  <2>. QED  BY <2>1, SameRole
<1>. HIDE DEF after
<1>3. SameRequesters(ports, after)
  BY <1>1, <1>2, RolesKeep
<1>. QED  BY <1>3 DEF after

(* Sync, Follow_Up, Announce and Signaling are not about the delay. *)
LEMMA OtherMessages ==
    ASSUME PortsInv, due', now' \in Nat, NEW p \in Ports, NEW dom \in Domains,
           \/ \E seq \in SeqIds, interval \in Intervals, twoStep \in BOOLEAN :
                 OnSync(p, dom, seq, interval, twoStep, now')
           \/ \E seq \in SeqIds : OnFollowUp(p, dom, seq)
           \/ \E quality, gm, steps : \E interval \in Intervals :
                 OnAnnounce(p, dom, quality, gm, steps, interval, now')
           \/ \E cmlds, capable \in BOOLEAN, interval \in Intervals :
                 OnSignaling(p, dom, cmlds, capable, interval, now')
    PROVE  PortsInv'
<1>1. port \in [Ports -> PortTypes]
  BY DEF PortsInv, PortsTypes
<1>. SUFFICES SameRequesters(port, port') /\ exchanges' = exchanges
  BY PortsKept
<1>2. ASSUME NEW seq \in SeqIds, NEW interval \in Intervals, NEW twoStep \in BOOLEAN,
             OnSync(p, dom, seq, interval, twoStep, now')
      PROVE  SameRequesters(port, port') /\ exchanges' = exchanges
  <2>. DEFINE heard == Heard(p, dom, FALSE)
              fu == IF twoStep THEN seq ELSE heard[p].pendingFuSeq
              md == IF twoStep \/ heard[p].mdSyncSendState = "FOLLOW_UP_PENDING"
                    THEN "FOLLOW_UP_PENDING" ELSE "IDLE"
              x == [heard[p] EXCEPT !.lastSyncSentTs = now', !.pendingFuSeq = fu,
                                    !.mdSyncSendState = md]
              sent == [heard EXCEPT ![p] = x]
              mid == BecomeMaster(sent, p, dom)
  <2>1. SameRequesters(port, heard) /\ heard \in [Ports -> PortTypes]
    BY <1>1, HeardKeeps DEF SameRequesters
  <2>2. port' = Demote(mid, p, dom, now', interval) /\ exchanges' = exchanges
    BY <1>2, <2>1 DEF OnSync, SyncSent
  <2>3. fu \in SeqIds \cup {0} /\ md \in {"FOLLOW_UP_PENDING", "IDLE"}
    BY <2>1 DEF PortTypes
  <2>. HIDE DEF heard, fu, md
  <2>4. heard[p] \in PortTypes
    BY <2>1
  <2>5. x \in PortTypes
    <3>. DEFINE a == [heard[p] EXCEPT !.lastSyncSentTs = now', !.pendingFuSeq = fu]
    <3>1. x = [a EXCEPT !.mdSyncSendState = md]
      OBVIOUS
    <3>2. a \in PortTypes
      BY <2>3, <2>4 DEF PortTypes
    <3>. HIDE DEF a, x
    <3>. QED  BY <2>3, <3>1, <3>2 DEF PortTypes
  <2>6. AsRequester(x) = AsRequester(heard[p])
    BY <2>4 DEF PortTypes, AsRequester
  <2>. HIDE DEF x
  <2>7. SameRequesters(heard, sent) /\ sent \in [Ports -> PortTypes]
    BY <2>1, <2>5, <2>6, OtherValues
  <2>. HIDE DEF sent
  <2>8. SameRequesters(sent, mid) /\ mid \in [Ports -> PortTypes]
    BY <2>7, MasterKeeps DEF SameRequesters
  <2>. HIDE DEF mid
  <2>9. SameRequesters(mid, port')
    BY <2>2, <2>8, DemoteKeeps
  <2>. QED  BY <2>1, <2>2, <2>7, <2>8, <2>9, SameSame
<1>3. ASSUME NEW seq \in SeqIds, OnFollowUp(p, dom, seq)
      PROVE  SameRequesters(port, port') /\ exchanges' = exchanges
  <2>. DEFINE heard == Heard(p, dom, FALSE)
              md == IF heard[p].mdSyncSendState = "FOLLOW_UP_PENDING"
                       /\ port[p].pendingFuSeq = seq
                    THEN "IDLE" ELSE heard[p].mdSyncSendState
              x == [heard[p] EXCEPT !.mdSyncSendState = md]
  <2>1. SameRequesters(port, heard) /\ heard \in [Ports -> PortTypes]
    BY <1>1, HeardKeeps DEF SameRequesters
  <2>2. port' = [heard EXCEPT ![p] = x] /\ exchanges' = exchanges
    BY <1>3, <2>1 DEF OnFollowUp
  <2>3. md \in {"NOT_ENABLED", "FOLLOW_UP_PENDING", "IDLE"}
    BY <2>1 DEF PortTypes
  <2>. HIDE DEF heard, md
  <2>4. heard[p] \in PortTypes
    BY <2>1
  <2>5. x \in PortTypes
    BY <2>3, <2>4 DEF PortTypes
  <2>6. AsRequester(x) = AsRequester(heard[p])
    BY <2>4 DEF PortTypes, AsRequester
  <2>. HIDE DEF x
  <2>. QED  BY <2>1, <2>2, <2>5, <2>6, OtherValues, SameSame
<1>4. ASSUME NEW quality, NEW gm, NEW steps, NEW interval \in Intervals,
             OnAnnounce(p, dom, quality, gm, steps, interval, now')
      PROVE  SameRequesters(port, port') /\ exchanges' = exchanges
  <2>. DEFINE heard == Heard(p, dom, FALSE)
              mid == BecomeMaster(heard, p, dom)
              x == [mid[p] EXCEPT !.lastAnnounceTs = now', !.announceInterval = interval,
                                  !.announceState = "RECEIVED"]
  <2>1. SameRequesters(port, heard) /\ heard \in [Ports -> PortTypes]
    BY <1>1, HeardKeeps DEF SameRequesters
  <2>2. SameRequesters(heard, mid) /\ mid \in [Ports -> PortTypes]
    BY <2>1, MasterKeeps DEF SameRequesters
  <2>3. port' = [mid EXCEPT ![p] = x] /\ exchanges' = exchanges
    BY <1>4, <2>2 DEF OnAnnounce
  <2>. HIDE DEF heard, mid
  <2>4. mid[p] \in PortTypes
    BY <2>2
  <2>5. x \in PortTypes
    <3>. DEFINE a == [mid[p] EXCEPT !.lastAnnounceTs = now', !.announceInterval = interval]
    <3>1. x = [a EXCEPT !.announceState = "RECEIVED"]
      OBVIOUS
    <3>2. a \in PortTypes
      BY <2>4 DEF PortTypes
    <3>. HIDE DEF a, x
    <3>. QED  BY <3>1, <3>2 DEF PortTypes
  <2>6. AsRequester(x) = AsRequester(mid[p])
    BY <2>4 DEF PortTypes, AsRequester
  <2>. HIDE DEF x
  <2>. QED  BY <2>1, <2>2, <2>3, <2>5, <2>6, OtherValues, SameSame
<1>5. ASSUME NEW cmlds \in BOOLEAN, NEW capable \in BOOLEAN, NEW interval \in Intervals,
             OnSignaling(p, dom, cmlds, capable, interval, now')
      PROVE  SameRequesters(port, port') /\ exchanges' = exchanges
  <2>. DEFINE heard == Heard(p, dom, cmlds)
              x == [heard[p] EXCEPT !.gptpCapable = "GPTP_CAPABLE", !.lastCapableTs = now',
                                    !.capableInterval = interval]
  <2>1. SameRequesters(port, heard) /\ heard \in [Ports -> PortTypes]
    BY <1>1, HeardKeeps DEF SameRequesters
  <2>2. exchanges' = exchanges
        /\ port' = IF capable THEN [heard EXCEPT ![p] = x] ELSE heard
    BY <1>5, <2>1 DEF OnSignaling
  <2>. HIDE DEF heard
  <2>3. heard[p] \in PortTypes
    BY <2>1
  <2>4. x \in PortTypes
    <3>. DEFINE a == [heard[p] EXCEPT !.lastCapableTs = now', !.capableInterval = interval]
    <3>1. x = [a EXCEPT !.gptpCapable = "GPTP_CAPABLE"]
      OBVIOUS
    <3>2. a \in PortTypes
      BY <2>3 DEF PortTypes
    <3>. HIDE DEF a, x
    <3>. QED  BY <3>1, <3>2 DEF PortTypes
  <2>5. AsRequester(x) = AsRequester(heard[p])
    BY <2>3 DEF PortTypes, AsRequester
  <2>. HIDE DEF x
  <2>. QED  BY <2>1, <2>2, <2>4, <2>5, OtherValues, SameSame
<1>. QED  BY <1>2, <1>3, <1>4, <1>5

(* The values of a port that its requests concern. *)
LEMMA RequesterTypes ==
    ASSUME NEW s \in PortTypes
    PROVE  /\ s.initiated \in Nat /\ s.complete \in Nat /\ s.lost \in Nat
           /\ s.consecutiveLost \in Nat /\ s.reqInterval \in Intervals \cup {1}
           /\ s.asCapable \in {"UNKNOWN", "AS_CAPABLE", "NOT_AS_CAPABLE"}
BY GptpAssumption DEF PortTypes

(* A port with other values of its requester. *)
LEMMA RequesterUpdates ==
    ASSUME NEW s \in PortTypes
    PROVE  /\ \A v \in {"NOT_ENABLED", "RESET", "WAITING_FOR_PDELAY_RESP",
                        "WAITING_FOR_PDELAY_RESP_FOLLOW_UP",
                        "WAITING_FOR_PDELAY_INTERVAL_TIMER"} :
                 [s EXCEPT !.mdReqState = v] \in PortTypes
           /\ \A v \in {"UNKNOWN", "AS_CAPABLE", "NOT_AS_CAPABLE"} :
                 [s EXCEPT !.asCapable = v] \in PortTypes
           /\ \A m, n \in Nat : [s EXCEPT !.lost = m, !.consecutiveLost = n] \in PortTypes
           /\ \A m, n \in Nat : [s EXCEPT !.complete = m, !.consecutiveLost = n] \in PortTypes
           /\ \A m \in 0 .. MaxRequests, i \in Intervals :
                 [s EXCEPT !.initiated = m, !.reqInterval = i] \in PortTypes
<1>1. \A v \in {"NOT_ENABLED", "RESET", "WAITING_FOR_PDELAY_RESP",
               "WAITING_FOR_PDELAY_RESP_FOLLOW_UP", "WAITING_FOR_PDELAY_INTERVAL_TIMER"} :
         [s EXCEPT !.mdReqState = v] \in PortTypes
  BY DEF PortTypes
<1>2. \A v \in {"UNKNOWN", "AS_CAPABLE", "NOT_AS_CAPABLE"} :
         [s EXCEPT !.asCapable = v] \in PortTypes
  BY DEF PortTypes
<1>3. \A m, n \in Nat : [s EXCEPT !.lost = m, !.consecutiveLost = n] \in PortTypes
  BY DEF PortTypes
<1>4. \A m, n \in Nat : [s EXCEPT !.complete = m, !.consecutiveLost = n] \in PortTypes
  BY DEF PortTypes
<1>5. \A m \in 0 .. MaxRequests, i \in Intervals :
         [s EXCEPT !.initiated = m, !.reqInterval = i] \in PortTypes
  BY DEF PortTypes
<1>. QED  BY <1>1, <1>2, <1>3, <1>4, <1>5

(* pdelayLost(): the open exchange becomes a lost one. *)
LEMMA LostFits ==
    ASSUME NEW s \in PortTypes, NEW open, open # {}, RequesterFits(s, open)
    PROVE  /\ PdelayLost(s) \in PortTypes
           /\ RequesterFits(PdelayLost(s), {})
           /\ PdelayLost(s).initiated = s.initiated
           /\ PdelayLost(s).reqInterval = s.reqInterval
<1>. DEFINE capable == IF s.consecutiveLost + 1 >= AllowedLostResponses
                       THEN "NOT_AS_CAPABLE" ELSE s.asCapable
            m == s.lost + 1
            n == s.consecutiveLost + 1
            x == [s EXCEPT !.lost = m, !.consecutiveLost = n,
                           !.mdReqState = "RESET", !.asCapable = capable]
<1>1. PdelayLost(s) = x
  BY DEF PdelayLost
<1>2. /\ s.initiated \in Nat /\ s.complete \in Nat /\ s.lost \in Nat
      /\ s.consecutiveLost \in Nat
      /\ s.asCapable \in {"UNKNOWN", "AS_CAPABLE", "NOT_AS_CAPABLE"}
  BY RequesterTypes
<1>3. /\ capable \in {"UNKNOWN", "AS_CAPABLE", "NOT_AS_CAPABLE"}
      /\ capable = IF s.consecutiveLost + 1 >= AllowedLostResponses
                   THEN "NOT_AS_CAPABLE" ELSE s.asCapable
  BY <1>2
<1>4. m \in Nat /\ n \in Nat
  BY <1>2
<1>. HIDE DEF capable, m, n
<1>5. x \in PortTypes
  <2>. DEFINE a == [s EXCEPT !.lost = m, !.consecutiveLost = n]
              b == [a EXCEPT !.mdReqState = "RESET"]
  <2>1. x = [b EXCEPT !.asCapable = capable]
    OBVIOUS
  <2>2. a \in PortTypes
    BY <1>4, RequesterUpdates
  <2>. HIDE DEF a
  <2>3. b \in PortTypes
    BY <2>2, RequesterUpdates
  <2>. HIDE DEF b
  <2>. QED  BY <1>3, <2>1, <2>3, RequesterUpdates
<1>6. /\ x.lost = s.lost + 1 /\ x.consecutiveLost = s.consecutiveLost + 1
      /\ x.mdReqState = "RESET" /\ x.asCapable = capable
      /\ x.initiated = s.initiated /\ x.complete = s.complete
      /\ x.reqInterval = s.reqInterval
  BY DEF PortTypes, m, n
<1>. HIDE DEF x
<1>7. RequesterFits(x, {})
  <2>1. s.initiated = s.complete + s.lost + 1
    BY DEF RequesterFits
  <2>2. x.initiated = x.complete + x.lost + 0 /\ x.consecutiveLost > 0
    BY <1>2, <1>6, <2>1
  <2>3. x.asCapable = "NOT_AS_CAPABLE" <=> x.consecutiveLost >= AllowedLostResponses
    <3>1. s.asCapable = "NOT_AS_CAPABLE" <=> s.consecutiveLost >= AllowedLostResponses
      BY DEF RequesterFits
    <3>2. AllowedLostResponses \in Nat
      BY GptpAssumption
    <3>. QED  BY <1>2, <1>3, <1>6, <3>1, <3>2
  <2>4. x.asCapable = "AS_CAPABLE" => x.complete > 0
    BY <1>3, <1>6 DEF RequesterFits
  <2>. QED  BY <1>6, <2>2, <2>3, <2>4 DEF RequesterFits, AtMostOne
<1>. QED  BY <1>1, <1>5, <1>6, <1>7

(* Two records of a port that are the same as requesters fit the same. *)
LEMMA SameFits ==
    ASSUME NEW s, NEW x, NEW open, AsRequester(x) = AsRequester(s), RequesterFits(s, open)
    PROVE  RequesterFits(x, open)
<1>1. /\ x.mdReqState = s.mdReqState /\ x.asCapable = s.asCapable
      /\ x.initiated = s.initiated /\ x.complete = s.complete
      /\ x.lost = s.lost /\ x.consecutiveLost = s.consecutiveLost
  BY DEF AsRequester
<1>. QED  BY <1>1 DEF RequesterFits

(* A message about the delay changed the exchanges of one requester. *)
LEMMA RequesterChanged ==
    ASSUME PortsInv, due', NEW q \in Ports, NEW ports, NEW x \in PortTypes, NEW open,
           SameRequesters(port, ports), port' = [ports EXCEPT ![q] = x],
           exchanges' \in SUBSET Exchanges,
           \A r \in Ports : {e \in exchanges' : e.req = r} = IF r = q THEN open ELSE Open(r),
           RequesterFits(x, open)
    PROVE  PortsInv'
<1>1. ports \in [Ports -> PortTypes]
  BY DEF SameRequesters
<1>2. PortsTypes'
  BY <1>1 DEF PortsTypes
<1>3. ASSUME NEW r \in Ports PROVE RequesterFits(port'[r], Open(r)')
  <2>1. Open(r)' = IF r = q THEN open ELSE Open(r)
    BY DEF Open
  <2>2. CASE r = q
    BY <1>1, <2>1, <2>2
  <2>3. CASE r # q
    <3>1. port'[r] = ports[r] /\ AsRequester(ports[r]) = AsRequester(port[r])
      BY <1>1, <2>3 DEF SameRequesters
    <3>2. RequesterFits(port[r], Open(r))
      BY DEF PortsInv
    <3>. QED  BY <2>1, <2>3, <3>1, <3>2, SameFits
  <2>. QED  BY <2>2, <2>3
<1>. QED  BY <1>2, <1>3 DEF PortsInv

(* A request: the one before, if it is still open, is lost. *)
LEMMA RequestKeeps ==
    ASSUME PortsInv, due', now' \in Nat, NEW p \in Ports, NEW dom \in Domains,
           NEW cmlds \in BOOLEAN, NEW seq \in SeqIds, NEW interval \in Intervals,
           OnPdelayReq(p, dom, cmlds, seq, interval, now')
    PROVE  PortsInv'
<1>. DEFINE s == Heard(p, dom, cmlds)[p]
            missed == IF Open(p) = {} THEN s ELSE PdelayLost(s)
            n == missed.initiated + 1
            x == [missed EXCEPT !.initiated = n, !.reqInterval = interval,
                                !.mdReqState = "WAITING_FOR_PDELAY_RESP"]
            new == [req |-> p, seq |-> seq, reqTs |-> now', haveResp |-> FALSE]
<1>1. /\ port[p].initiated < MaxRequests
      /\ port' = [port EXCEPT ![p] = x]
      /\ exchanges' = (exchanges \ Open(p)) \cup {new}
  BY DEF OnPdelayReq
<1>2. port \in [Ports -> PortTypes] /\ exchanges \in SUBSET Exchanges
  BY DEF PortsInv, PortsTypes
<1>3. s \in PortTypes /\ AsRequester(s) = AsRequester(port[p])
  BY <1>2, HeardKeeps DEF SameRequesters
<1>4. RequesterFits(s, Open(p)) /\ s.initiated < MaxRequests
  <2>1. RequesterFits(port[p], Open(p))
    BY DEF PortsInv
  <2>. QED  BY <1>1, <1>3, <2>1, SameFits DEF AsRequester
<1>5. new \in Exchanges /\ new.req = p /\ new.haveResp = FALSE
  BY DEF Exchanges
<1>. HIDE DEF s, new
<1>6. missed \in PortTypes /\ RequesterFits(missed, {}) /\ missed.initiated < MaxRequests
  <2>1. CASE Open(p) = {}
    BY <1>3, <1>4, <2>1
  <2>2. CASE Open(p) # {}
    BY <1>3, <1>4, <2>2, LostFits
  <2>. QED  BY <2>1, <2>2
<1>. HIDE DEF missed
<1>7. n \in 0 .. MaxRequests
  BY <1>6, GptpAssumption DEF PortTypes
<1>8. n = missed.initiated + 1
  OBVIOUS
<1>. HIDE DEF n
<1>9. x \in PortTypes
  <2>. DEFINE a == [missed EXCEPT !.initiated = n, !.reqInterval = interval]
  <2>1. x = [a EXCEPT !.mdReqState = "WAITING_FOR_PDELAY_RESP"]
    OBVIOUS
  <2>2. a \in PortTypes
    BY <1>6, <1>7, RequesterUpdates
  <2>. HIDE DEF a
  <2>. QED  BY <2>1, <2>2, RequesterUpdates
<1>10. /\ x.initiated = missed.initiated + 1 /\ x.complete = missed.complete
      /\ x.lost = missed.lost /\ x.consecutiveLost = missed.consecutiveLost
      /\ x.asCapable = missed.asCapable /\ x.mdReqState = "WAITING_FOR_PDELAY_RESP"
  BY <1>6, <1>8 DEF PortTypes
<1>. HIDE DEF x
<1>11. RequesterFits(x, {new})
  <2>1. missed.initiated = missed.complete + missed.lost + 0
    BY <1>6 DEF RequesterFits
  <2>2. missed.complete \in Nat /\ missed.lost \in Nat
    BY <1>6, RequesterTypes
  <2>3. x.initiated = x.complete + x.lost + 1
    BY <1>10, <2>1, <2>2
  <2>. QED  BY <1>5, <1>6, <1>10, <2>3 DEF RequesterFits, AtMostOne
<1>12. \A r \in Ports : {e \in exchanges' : e.req = r} = IF r = p THEN {new} ELSE Open(r)
  BY <1>1, <1>5 DEF Open
<1>13. exchanges' \in SUBSET Exchanges
  BY <1>1, <1>2, <1>5
<1>14. SameRequesters(port, port)
  BY <1>2 DEF SameRequesters
<1>. QED  BY <1>1, <1>9, <1>11, <1>12, <1>13, <1>14, RequesterChanged

(* A response: the open exchange it answers now waits for the Follow_Up. *)
LEMMA AnswerKeeps ==
    ASSUME PortsInv, due', NEW p \in Ports, NEW dom \in Domains, NEW cmlds \in BOOLEAN,
           NEW q \in Ports, NEW seq \in SeqIds, OnPdelayResp(p, dom, cmlds, q, seq)
    PROVE  PortsInv'
<1>. DEFINE answers == {e \in Open(q) : e.seq = seq}
            told == Heard(p, dom, cmlds)
            y == [told[p] EXCEPT !.mdRespState = "SENT_PDELAY_RESP_WAITING_FOR_TIMESTAMP"]
            heard == [told EXCEPT ![p] = y]
            x == [heard[q] EXCEPT !.mdReqState = "WAITING_FOR_PDELAY_RESP_FOLLOW_UP"]
<1>1. port \in [Ports -> PortTypes] /\ exchanges \in SUBSET Exchanges
  BY DEF PortsInv, PortsTypes
<1>2. SameRequesters(port, told) /\ told \in [Ports -> PortTypes]
  BY <1>1, HeardKeeps DEF SameRequesters
<1>3. /\ port' = IF answers = {} THEN heard ELSE [heard EXCEPT ![q] = x]
      /\ exchanges' = (exchanges \ answers) \cup {[e EXCEPT !.haveResp = TRUE] : e \in answers}
  BY <1>2 DEF OnPdelayResp
<1>4. SameRequesters(port, heard) /\ heard \in [Ports -> PortTypes]
  <2>1. told[p] \in PortTypes
    BY <1>2
  <2>. HIDE DEF told
  <2>2. y \in PortTypes
    BY <2>1 DEF PortTypes
  <2>3. AsRequester(y) = AsRequester(told[p])
    BY <2>1 DEF PortTypes, AsRequester
  <2>. HIDE DEF y
  <2>4. SameRequesters(told, heard)
    BY <1>2, <2>2, <2>3, OtherValues
  <2>. QED  BY <1>2, <2>4, SameSame DEF SameRequesters
<1>5. RequesterFits(heard[q], Open(q)) /\ heard[q] \in PortTypes
  <2>1. RequesterFits(port[q], Open(q))
    BY DEF PortsInv
  <2>2. AsRequester(heard[q]) = AsRequester(port[q]) /\ heard[q] \in PortTypes
    BY <1>4 DEF SameRequesters
  <2>. QED  BY <2>1, <2>2, SameFits
<1>. HIDE DEF heard
<1>6. CASE answers = {}
  <2>1. port' = heard /\ exchanges' = exchanges
    BY <1>3, <1>6
  <2>. QED  BY <1>4, <2>1, PortsKept
<1>7. CASE answers # {}
  <2>1. PICK e \in Open(q) : e \in answers
    BY <1>7
  <2>2. Open(q) = {e} /\ answers = {e} /\ e \in Exchanges /\ e.req = q
    BY <1>1, <1>5, <2>1 DEF RequesterFits, AtMostOne, Open
  <2>. DEFINE f == [e EXCEPT !.haveResp = TRUE]
  <2>3. f \in Exchanges /\ f.req = q /\ f.haveResp = TRUE
    BY <2>2 DEF Exchanges
  <2>4. exchanges' = (exchanges \ {e}) \cup {f}
    BY <1>3, <2>2
  <2>5. port' = [heard EXCEPT ![q] = x]
    BY <1>3, <1>7
  <2>. HIDE DEF f, answers
  <2>6. exchanges' \in SUBSET Exchanges
    BY <1>1, <2>3, <2>4
  <2>7. \A r \in Ports : {g \in exchanges' : g.req = r} = IF r = q THEN {f} ELSE Open(r)
    BY <2>2, <2>3, <2>4 DEF Open
  <2>8. x \in PortTypes
    BY <1>5, RequesterUpdates
  <2>9. /\ x.initiated = heard[q].initiated /\ x.complete = heard[q].complete
        /\ x.lost = heard[q].lost /\ x.consecutiveLost = heard[q].consecutiveLost
        /\ x.asCapable = heard[q].asCapable
        /\ x.mdReqState = "WAITING_FOR_PDELAY_RESP_FOLLOW_UP"
    BY <1>5 DEF PortTypes
  <2>. HIDE DEF x
  <2>10. RequesterFits(x, {f})
    BY <1>5, <2>2, <2>3, <2>9 DEF RequesterFits, AtMostOne
  <2>. QED  BY <1>4, <2>5, <2>6, <2>7, <2>8, <2>10, RequesterChanged
<1>. QED  BY <1>6, <1>7

(* A Follow_Up: the exchange that has its response is complete. *)
LEMMA CompleteKeeps ==
    ASSUME PortsInv, due', NEW p \in Ports, NEW dom \in Domains, NEW cmlds \in BOOLEAN,
           NEW q \in Ports, NEW seq \in SeqIds, OnPdelayRespFu(p, dom, cmlds, q, seq)
    PROVE  PortsInv'
<1>. DEFINE answers == {e \in Open(q) : e.seq = seq /\ e.haveResp}
            told == Heard(p, dom, cmlds)
            y == [told[p] EXCEPT !.mdRespState = "WAITING_FOR_PDELAY_REQ"]
            heard == [told EXCEPT ![p] = y]
            s == heard[q]
            x == Completed(s)
<1>1. port \in [Ports -> PortTypes] /\ exchanges \in SUBSET Exchanges
  BY DEF PortsInv, PortsTypes
<1>2. SameRequesters(port, told) /\ told \in [Ports -> PortTypes]
  BY <1>1, HeardKeeps DEF SameRequesters
<1>3. /\ port' = IF answers = {} THEN heard ELSE [heard EXCEPT ![q] = x]
      /\ exchanges' = exchanges \ answers
  BY <1>2 DEF OnPdelayRespFu
<1>4. SameRequesters(port, heard) /\ heard \in [Ports -> PortTypes]
  <2>1. told[p] \in PortTypes
    BY <1>2
  <2>. HIDE DEF told
  <2>2. y \in PortTypes
    BY <2>1 DEF PortTypes
  <2>3. AsRequester(y) = AsRequester(told[p])
    BY <2>1 DEF PortTypes, AsRequester
  <2>. HIDE DEF y
  <2>4. SameRequesters(told, heard)
    BY <1>2, <2>2, <2>3, OtherValues
  <2>. QED  BY <1>2, <2>4, SameSame DEF SameRequesters
<1>5. RequesterFits(s, Open(q)) /\ s \in PortTypes
  <2>1. RequesterFits(port[q], Open(q))
    BY DEF PortsInv
  <2>2. AsRequester(s) = AsRequester(port[q]) /\ s \in PortTypes
    BY <1>4 DEF SameRequesters
  <2>. QED  BY <2>1, <2>2, SameFits
<1>. HIDE DEF heard
<1>6. CASE answers = {}
  <2>1. port' = heard /\ exchanges' = exchanges
    BY <1>3, <1>6
  <2>. QED  BY <1>4, <2>1, PortsKept
<1>7. CASE answers # {}
  <2>1. PICK e \in Open(q) : e \in answers
    BY <1>7
  <2>2. Open(q) = {e} /\ answers = {e}
    BY <1>5, <2>1 DEF RequesterFits, AtMostOne
  <2>3. exchanges' = exchanges \ {e} /\ port' = [heard EXCEPT ![q] = x]
    BY <1>3, <1>7, <2>2
  <2>4. e.req = q
    BY DEF Open
  <2>. HIDE DEF answers, s
  <2>5. exchanges' \in SUBSET Exchanges
    BY <1>1, <2>3
  <2>6. \A r \in Ports : {g \in exchanges' : g.req = r} = IF r = q THEN {} ELSE Open(r)
    BY <2>2, <2>3, <2>4 DEF Open
  <2>7. /\ s.initiated \in Nat /\ s.complete \in Nat /\ s.lost \in Nat
        /\ s.consecutiveLost \in Nat
    BY <1>5, RequesterTypes
  <2>8. x \in PortTypes
    <3>. DEFINE n == s.complete + 1
                a == [s EXCEPT !.mdReqState = "WAITING_FOR_PDELAY_INTERVAL_TIMER"]
                b == [a EXCEPT !.complete = n, !.consecutiveLost = 0]
    <3>1. x = [b EXCEPT !.asCapable = "AS_CAPABLE"]
      BY DEF Completed
    <3>2. n \in Nat
      BY <2>7
    <3>. HIDE DEF n
    <3>3. a \in PortTypes
      BY <1>5, RequesterUpdates
    <3>. HIDE DEF a
    <3>4. b \in PortTypes
      BY <3>2, <3>3, RequesterUpdates
    <3>. HIDE DEF b
    <3>. QED  BY <3>1, <3>4, RequesterUpdates
  <2>9. /\ x.initiated = s.initiated /\ x.complete = s.complete + 1
        /\ x.lost = s.lost /\ x.consecutiveLost = 0 /\ x.asCapable = "AS_CAPABLE"
        /\ x.mdReqState = "WAITING_FOR_PDELAY_INTERVAL_TIMER"
    BY <1>5 DEF PortTypes, Completed
  <2>. HIDE DEF x
  <2>10. RequesterFits(x, {})
    <3>1. s.initiated = s.complete + s.lost + 1
      BY <1>5, <2>2 DEF RequesterFits
    <3>2. x.initiated = x.complete + x.lost + 0 /\ x.complete > 0
          /\ ~(x.consecutiveLost >= AllowedLostResponses)
      BY <2>7, <2>9, <3>1, GptpAssumption
    <3>. QED  BY <2>9, <3>2 DEF RequesterFits, AtMostOne
  <2>. QED  BY <1>4, <2>3, <2>5, <2>6, <2>8, <2>10, RequesterChanged DEF s
<1>. QED  BY <1>6, <1>7

(* A port as it ages is the same requester. *)
LEMMA AgedKeeps ==
    ASSUME NEW s \in PortTypes
    PROVE  AgedPort(s) \in PortTypes /\ AsRequester(AgedPort(s)) = AsRequester(s)
<1>. DEFINE told == IF s.announceState = "RECEIVED"
                       /\ now > s.lastAnnounceTs
                                  + AnnounceReceiptTimeoutN * s.announceInterval
                                  + AnnounceSlack
                    THEN "AGED" ELSE s.announceState
            capable == IF s.gptpCapable = "GPTP_CAPABLE"
                          /\ now > s.lastCapableTs + GptpCapableTimeoutN * s.capableInterval
                       THEN "CAPABLE_TIMED_OUT" ELSE s.gptpCapable
            x == [s EXCEPT !.announceState = told, !.gptpCapable = capable]
<1>1. AgedPort(s) = x
  BY DEF AgedPort
<1>2. /\ told \in {"NONE", "RECEIVED", "AGED"}
      /\ capable \in {"UNKNOWN", "GPTP_CAPABLE", "CAPABLE_TIMED_OUT"}
  BY DEF PortTypes
<1>. HIDE DEF told, capable
<1>3. x \in PortTypes
  <2>. DEFINE a == [s EXCEPT !.announceState = told]
  <2>1. x = [a EXCEPT !.gptpCapable = capable]
    OBVIOUS
  <2>2. a \in PortTypes
    BY <1>2 DEF PortTypes
  <2>. HIDE DEF a
  <2>. QED  BY <1>2, <2>1, <2>2 DEF PortTypes
<1>4. AsRequester(x) = AsRequester(s)
  BY DEF PortTypes, AsRequester
<1>. QED  BY <1>1, <1>3, <1>4

(* The tick: an overdue exchange is closed and counted as lost. *)
LEMMA PortsTick == PortsInv /\ Ticks /\ GptpTick => PortsInv'
<1>. SUFFICES ASSUME PortsInv, Ticks, GptpTick PROVE PortsInv'
  OBVIOUS
<1>1. /\ port' = [p \in Ports |-> IF \E e \in Open(p) : Overdue(e)
                                  THEN PdelayLost(AgedPort(port[p])) ELSE AgedPort(port[p])]
      /\ exchanges' = {e \in exchanges : ~Overdue(e)}
      /\ now' = now
  BY DEF GptpTick, Ticks
<1>2. port \in [Ports -> PortTypes] /\ exchanges \in SUBSET Exchanges
  BY DEF PortsInv, PortsTypes
<1>3. ASSUME NEW p \in Ports
      PROVE  /\ port'[p] \in PortTypes
             /\ RequesterFits(port'[p], Open(p)')
             /\ port'[p].reqInterval = port[p].reqInterval
  <2>. DEFINE s == AgedPort(port[p])
  <2>1. s \in PortTypes /\ AsRequester(s) = AsRequester(port[p])
    BY <1>2, AgedKeeps
  <2>2. RequesterFits(s, Open(p)) /\ s.reqInterval = port[p].reqInterval
    BY <2>1, SameFits DEF PortsInv, AsRequester
  <2>. HIDE DEF s
  <2>3. Open(p)' = {e \in Open(p) : ~Overdue(e)}
    BY <1>1 DEF Open
  <2>4. CASE \E e \in Open(p) : Overdue(e)
    <3>1. port'[p] = PdelayLost(s)
      BY <1>1, <2>4 DEF s
    <3>2. Open(p) # {} /\ Open(p)' = {}
      BY <2>2, <2>3, <2>4 DEF RequesterFits, AtMostOne
    <3>3. /\ PdelayLost(s) \in PortTypes /\ RequesterFits(PdelayLost(s), {})
          /\ PdelayLost(s).reqInterval = s.reqInterval
      BY <2>1, <2>2, <3>2, LostFits
    <3>. QED  BY <2>2, <3>1, <3>2, <3>3
  <2>5. CASE ~ \E e \in Open(p) : Overdue(e)
    <3>1. port'[p] = s
      BY <1>1, <2>5 DEF s
    <3>2. Open(p)' = Open(p)
      BY <2>3, <2>5
    <3>. QED  BY <2>1, <2>2, <3>1, <3>2
  <2>. QED  BY <2>4, <2>5
<1>4. PortsTypes'
  BY <1>1, <1>2, <1>3 DEF PortsTypes
<1>5. ASSUME NEW e \in exchanges' PROVE ~Overdue(e)'
  <2>1. e \in exchanges /\ ~Overdue(e) /\ e.req \in Ports
    BY <1>1, <1>2 DEF Exchanges
  <2>2. port'[e.req].reqInterval = port[e.req].reqInterval
    BY <1>3, <2>1
  <2>. QED  BY <1>1, <2>1, <2>2 DEF Overdue
<1>. QED  BY <1>3, <1>4, <1>5 DEF PortsInv

(* What the invariant says of the ports. *)
LEMMA PortsSay == PortsInv => PdelayAccounted
<1>. SUFFICES ASSUME PortsInv, NEW p \in Ports
              PROVE  LET s == port[p]
                     IN  /\ s.initiated = s.complete + s.lost + Cardinality(Open(p))
                         /\ \A e \in Open(p) :
                               /\ s.mdReqState =
                                    IF e.haveResp THEN "WAITING_FOR_PDELAY_RESP_FOLLOW_UP"
                                    ELSE "WAITING_FOR_PDELAY_RESP"
                               /\ due \/ ~Overdue(e)
                         /\ Open(p) = {} =>
                               s.mdReqState \in {"NOT_ENABLED", "RESET",
                                                 "WAITING_FOR_PDELAY_INTERVAL_TIMER"}
                         /\ s.mdReqState = "RESET" => s.consecutiveLost > 0
                         /\ s.asCapable = "NOT_AS_CAPABLE"
                               <=> s.consecutiveLost >= AllowedLostResponses
                         /\ s.asCapable = "AS_CAPABLE" => s.complete > 0
  BY DEF PdelayAccounted
<1>1. RequesterFits(port[p], Open(p))
  BY DEF PortsInv
<1>2. Cardinality(Open(p)) = IF Open(p) = {} THEN 0 ELSE 1
  BY <1>1, OneCounts DEF RequesterFits
<1>3. \A e \in Open(p) : due \/ ~Overdue(e)
  BY DEF PortsInv, Open
<1>. QED  BY <1>1, <1>2, <1>3 DEF RequesterFits
-----------------------------------------------------------------------------
(***************************************************************************)
(* The analyzers together                                                  *)
(***************************************************************************)

Adverts == [Entities -> [gmId : GmIds \cup {0}, gptpDomain : Domains, gmMismatch : BOOLEAN]]

Surround == /\ now \in Nat /\ due \in BOOLEAN
            /\ traffic \in Traffics /\ advert \in Adverts

ObserversInv == Surround /\ DomainsInv /\ PortsInv /\ AecpInv /\ MaapInv

LEMMA ObserversStart == Init => ObserversInv
<1>. SUFFICES ASSUME Init PROVE ObserversInv
  OBVIOUS
<1>1. NotAdvertised \in [gmId : GmIds \cup {0}, gptpDomain : Domains, gmMismatch : BOOLEAN]
  BY GptpAssumption DEF NotAdvertised
<1>2. Surround
  BY <1>1 DEF Init, ClockInit, Surround, Adverts
<1>. QED  BY <1>2, DomainsStart, PortsStart, AecpStarts, MaapStarts DEF Init, ObserversInv

(* Time goes on with a packet of the capture, whose values are of the      *)
(* sets that the constants give.                                           *)
LEMMA PacketPasses ==
    ASSUME Surround, NEW message, NEW ts \in now .. traffic.end, Packet(message, ts)
    PROVE  /\ Passes /\ due' /\ now' = ts /\ now' \in Nat /\ due' \in BOOLEAN
           /\ traffic' \in Traffics
           /\ traffic.ports \subseteq Ports /\ traffic.askers \subseteq Ports
           /\ traffic.domains \subseteq Domains /\ traffic.gms \subseteq GmIds
           /\ traffic.qualities \subseteq Qualities /\ traffic.steps \subseteq Nat
           /\ traffic.intervals \subseteq Intervals /\ traffic.seqs \subseteq SeqIds
<1>1. traffic.end \in Nat /\ now \in Nat
  BY ObserversAssumption DEF Surround
<1>2. /\ traffic.ports \subseteq Ports /\ traffic.askers \subseteq Ports
      /\ traffic.domains \subseteq Domains /\ traffic.gms \subseteq GmIds
      /\ traffic.qualities \subseteq Qualities /\ traffic.steps \subseteq Nat
      /\ traffic.intervals \subseteq Intervals /\ traffic.seqs \subseteq SeqIds
  BY ObserversAssumption DEF Surround
<1>3. ts \in Nat /\ now =< ts /\ now' = ts /\ due' = TRUE /\ traffic' = traffic
  BY <1>1 DEF Packet, Arrives
<1>. QED  BY <1>2, <1>3 DEF Passes, Surround

(* A gPTP message concerns a domain, or a port, or both. *)
LEMMA GptpKeeps ==
    ASSUME ObserversInv, NEW ts \in now .. traffic.end,
           \/ Sync(ts) \/ FollowUp(ts) \/ Announce(ts) \/ Signaling(ts)
           \/ PdelayReq(ts) \/ PdelayResp(ts) \/ PdelayRespFollowUp(ts)
    PROVE  ObserversInv'
<1>1. Surround /\ DomainsInv /\ PortsInv /\ AecpInv /\ MaapInv
  BY DEF ObserversInv
<1>2. ASSUME NEW message, Packet(message, ts), GptpOnly, DomainsInv' /\ PortsInv'
      PROVE  ObserversInv'
  <2>1. Passes /\ now' \in Nat /\ due' \in BOOLEAN /\ traffic' \in Traffics
    BY <1>1, <1>2, PacketPasses
  <2>2. UNCHANGED aecpVars /\ claim' = claim /\ advert' = advert
    BY <1>2 DEF GptpOnly
  <2>3. AecpInv'
    BY <1>1, <2>1, <2>2, AecpKept
  <2>4. MaapInv'
    BY <1>1, <2>2 DEF MaapInv, MaapTypeOK
  <2>5. Surround'
    BY <1>1, <2>1, <2>2 DEF Surround, Adverts
  <2>. QED  BY <1>2, <2>3, <2>4, <2>5 DEF ObserversInv
<1>3. CASE Sync(ts)
  <2>1. Packet("SYNC", ts) /\ GptpOnly
    BY <1>3 DEF Sync
  <2>2. PICK p \in traffic.ports, dom \in traffic.domains, seq \in traffic.seqs,
             interval \in traffic.intervals, twoStep \in BOOLEAN :
             OnSync(p, dom, seq, interval, twoStep, ts)
    BY <1>3 DEF Sync
  <2>3. /\ Passes /\ due' /\ now' = ts /\ now' \in Nat
        /\ p \in Ports /\ dom \in Domains /\ seq \in SeqIds /\ interval \in Intervals
    BY <1>1, <2>1, PacketPasses
  <2>4. OnSync(p, dom, seq, interval, twoStep, now')
    BY <2>2, <2>3
  <2>5. DomainsInv'
    BY <1>1, <2>3, <2>4, SyncKeeps
  <2>6. PortsInv'
    BY <1>1, <2>3, <2>4, OtherMessages
  <2>. QED  BY <1>2, <2>1, <2>5, <2>6
<1>4. CASE FollowUp(ts)
  <2>1. Packet("FOLLOW_UP", ts) /\ GptpOnly
    BY <1>4 DEF FollowUp
  <2>2. PICK p \in traffic.ports, dom \in traffic.domains, seq \in traffic.seqs :
             OnFollowUp(p, dom, seq)
    BY <1>4 DEF FollowUp
  <2>3. /\ Passes /\ due' /\ now' \in Nat
        /\ p \in Ports /\ dom \in Domains /\ seq \in SeqIds
    BY <1>1, <2>1, PacketPasses
  <2>4. DomainsInv'
    BY <1>1, <2>2, <2>3, FollowUpKeeps
  <2>5. PortsInv'
    BY <1>1, <2>2, <2>3, OtherMessages
  <2>. QED  BY <1>2, <2>1, <2>4, <2>5
<1>5. CASE Announce(ts)
  <2>1. Packet("ANNOUNCE", ts) /\ GptpOnly
    BY <1>5 DEF Announce
  <2>2. PICK p \in traffic.ports, dom \in traffic.domains, quality \in traffic.qualities,
             gm \in traffic.gms, steps \in traffic.steps, interval \in traffic.intervals :
             OnAnnounce(p, dom, quality, gm, steps, interval, ts)
    BY <1>5 DEF Announce
  <2>3. /\ Passes /\ due' /\ now' = ts /\ now' \in Nat
        /\ p \in Ports /\ dom \in Domains /\ quality \in Qualities /\ gm \in GmIds
        /\ steps \in Nat /\ interval \in Intervals
    BY <1>1, <2>1, PacketPasses
  <2>4. OnAnnounce(p, dom, quality, gm, steps, interval, now')
    BY <2>2, <2>3
  <2>5. DomainsInv'
    BY <1>1, <2>3, <2>4, AnnounceKeeps
  <2>6. PortsInv'
    BY <1>1, <2>3, <2>4, OtherMessages
  <2>. QED  BY <1>2, <2>1, <2>5, <2>6
<1>6. CASE Signaling(ts)
  <2>1. Packet("SIGNALING", ts) /\ GptpOnly
    BY <1>6 DEF Signaling
  <2>2. PICK p \in traffic.ports, dom \in traffic.domains, cmlds \in BOOLEAN,
             capable \in BOOLEAN, interval \in traffic.intervals :
             OnSignaling(p, dom, cmlds, capable, interval, ts)
    BY <1>6 DEF Signaling
  <2>3. /\ Passes /\ due' /\ now' = ts /\ now' \in Nat
        /\ p \in Ports /\ dom \in Domains /\ interval \in Intervals
    BY <1>1, <2>1, PacketPasses
  <2>4. UNCHANGED <<domain, gptpDomains, announced>>
        /\ OnSignaling(p, dom, cmlds, capable, interval, now')
    BY <2>2, <2>3 DEF OnSignaling
  <2>5. DomainsInv'
    BY <1>1, <2>3, <2>4, DomainsKept
  <2>6. PortsInv'
    BY <1>1, <2>3, <2>4, OtherMessages
  <2>. QED  BY <1>2, <2>1, <2>5, <2>6
<1>7. CASE PdelayReq(ts)
  <2>1. Packet("PDELAY", ts) /\ GptpOnly
    BY <1>7 DEF PdelayReq
  <2>2. PICK p \in traffic.askers, dom \in traffic.domains, cmlds \in BOOLEAN,
             seq \in traffic.seqs, interval \in traffic.intervals :
             OnPdelayReq(p, dom, cmlds, seq, interval, ts)
    BY <1>7 DEF PdelayReq
  <2>3. /\ Passes /\ due' /\ now' = ts /\ now' \in Nat
        /\ p \in Ports /\ dom \in Domains /\ seq \in SeqIds /\ interval \in Intervals
    BY <1>1, <2>1, PacketPasses
  <2>4. UNCHANGED <<domain, gptpDomains, announced>>
        /\ OnPdelayReq(p, dom, cmlds, seq, interval, now')
    BY <2>2, <2>3 DEF OnPdelayReq
  <2>5. DomainsInv'
    BY <1>1, <2>3, <2>4, DomainsKept
  <2>6. PortsInv'
    BY <1>1, <2>3, <2>4, RequestKeeps
  <2>. QED  BY <1>2, <2>1, <2>5, <2>6
<1>8. CASE PdelayResp(ts)
  <2>1. Packet("PDELAY", ts) /\ GptpOnly
    BY <1>8 DEF PdelayResp
  <2>2. PICK p \in traffic.ports, q \in traffic.ports, dom \in traffic.domains,
             cmlds \in BOOLEAN, seq \in traffic.seqs : OnPdelayResp(p, dom, cmlds, q, seq)
    BY <1>8 DEF PdelayResp
  <2>3. /\ Passes /\ due'
        /\ p \in Ports /\ q \in Ports /\ dom \in Domains /\ seq \in SeqIds
    BY <1>1, <2>1, PacketPasses
  <2>4. UNCHANGED <<domain, gptpDomains, announced>>
    BY <2>2 DEF OnPdelayResp
  <2>5. DomainsInv'
    BY <1>1, <2>3, <2>4, DomainsKept
  <2>6. PortsInv'
    BY <1>1, <2>2, <2>3, AnswerKeeps
  <2>. QED  BY <1>2, <2>1, <2>5, <2>6
<1>9. CASE PdelayRespFollowUp(ts)
  <2>1. Packet("PDELAY", ts) /\ GptpOnly
    BY <1>9 DEF PdelayRespFollowUp
  <2>2. PICK p \in traffic.ports, q \in traffic.ports, dom \in traffic.domains,
             cmlds \in BOOLEAN, seq \in traffic.seqs : OnPdelayRespFu(p, dom, cmlds, q, seq)
    BY <1>9 DEF PdelayRespFollowUp
  <2>3. /\ Passes /\ due'
        /\ p \in Ports /\ q \in Ports /\ dom \in Domains /\ seq \in SeqIds
    BY <1>1, <2>1, PacketPasses
  <2>4. UNCHANGED <<domain, gptpDomains, announced>>
    BY <2>2 DEF OnPdelayRespFu
  <2>5. DomainsInv'
    BY <1>1, <2>3, <2>4, DomainsKept
  <2>6. PortsInv'
    BY <1>1, <2>2, <2>3, CompleteKeeps
  <2>. QED  BY <1>2, <2>1, <2>5, <2>6
<1>. QED  BY <1>3, <1>4, <1>5, <1>6, <1>7, <1>8, <1>9

(* gPTP outlives the packets of others. *)
LEMMA GptpKept == DomainsInv /\ PortsInv /\ Passes /\ UNCHANGED gptpVars => DomainsInv' /\ PortsInv'
<1>. SUFFICES ASSUME DomainsInv, PortsInv, Passes, UNCHANGED gptpVars
              PROVE  DomainsInv' /\ PortsInv'
  OBVIOUS
<1>1. UNCHANGED <<domain, gptpDomains, announced>> /\ port' = port /\ exchanges' = exchanges
  BY DEF gptpVars
<1>2. SameRequesters(port, port)
  BY DEF SameRequesters, PortsInv, PortsTypes
<1>3. PortsInv'
  BY <1>1, <1>2, PortsKept DEF Passes
<1>. QED  BY <1>1, <1>3, DomainsKept

(* The packets of ADP, AECP, MAAP and of no analyzer. *)
LEMMA OthersKeep ==
    ASSUME ObserversInv, NEW ts \in now .. traffic.end,
           \/ Adp(ts) \/ AemCommands(ts) \/ AemResponses(ts) \/ Maap(ts) \/ Other(ts)
    PROVE  ObserversInv'
<1>1. Surround /\ DomainsInv /\ PortsInv /\ AecpInv /\ MaapInv
  BY DEF ObserversInv
<1>2. ASSUME NEW message, Packet(message, ts), UNCHANGED gptpVars,
             AecpInv' \/ UNCHANGED aecpVars, MaapInv' \/ claim' = claim,
             advert' \in Adverts
      PROVE  ObserversInv'
  <2>1. Passes /\ now' \in Nat /\ due' \in BOOLEAN /\ traffic' \in Traffics
    BY <1>1, <1>2, PacketPasses
  <2>2. DomainsInv' /\ PortsInv'
    BY <1>1, <1>2, <2>1, GptpKept
  <2>3. AecpInv'
    BY <1>1, <1>2, <2>1, AecpKept
  <2>4. MaapInv'
    BY <1>1, <1>2 DEF MaapInv, MaapTypeOK
  <2>5. Surround'
    BY <1>2, <2>1 DEF Surround, Adverts
  <2>. QED  BY <2>2, <2>3, <2>4, <2>5 DEF ObserversInv
<1>3. CASE Adp(ts)
  <2>1. Packet("ADP", ts) /\ UNCHANGED <<gptpVars, aecpVars, claim>>
    BY <1>3 DEF Adp
  <2>2. PICK e \in Entities, gm \in traffic.gms \cup {0}, dom \in traffic.domains :
             Advertises(e, gm, dom)
    BY <1>3 DEF Adp
  <2>3. gm \in GmIds \cup {0} /\ dom \in Domains
    BY <1>1, <2>1, PacketPasses
  <2>. DEFINE a == [advert[e] EXCEPT !.gmId = gm, !.gptpDomain = dom]
              Types == [gmId : GmIds \cup {0}, gptpDomain : Domains, gmMismatch : BOOLEAN]
  <2>4. advert \in [Entities -> Types]
    BY <1>1 DEF Surround, Adverts
  <2>5. a \in Types
    BY <2>3, <2>4
  <2>6. advert' = [advert EXCEPT ![e] = Checked(a)]
    BY <2>2 DEF Advertises
  <2>. HIDE DEF a
  <2>7. Checked(a) \in Types
    <3>. DEFINE differs == a.gmId # Observed(a.gptpDomain)
    <3>1. Checked(a) = a \/ Checked(a) = [a EXCEPT !.gmMismatch = differs]
      BY DEF Checked
    <3>2. differs \in BOOLEAN
      OBVIOUS
    <3>. HIDE DEF differs
    <3>. QED  BY <2>5, <3>1, <3>2
  <2>8. advert' \in Adverts
    BY <2>4, <2>6, <2>7 DEF Adverts
  <2>. QED  BY <1>2, <2>1, <2>8
<1>4. CASE AemCommands(ts)
  <2>1. Packet("AECP", ts) /\ AecpOnly
    BY <1>4 DEF AemCommands
  <2>2. PICK k \in Pairs, seq \in AecpSeqIds : AemCommand(k, seq, ts)
    BY <1>4 DEF AemCommands
  <2>3. Passes /\ due' /\ now' = ts
    BY <1>1, <2>1, PacketPasses
  <2>4. AecpInv'
    BY <1>1, <2>2, <2>3, CommandKeeps
  <2>5. UNCHANGED gptpVars /\ claim' = claim /\ advert' \in Adverts
    BY <1>1, <2>1 DEF AecpOnly, Surround
  <2>. QED  BY <1>2, <2>1, <2>4, <2>5
<1>5. CASE AemResponses(ts)
  <2>1. Packet("AECP", ts) /\ AecpOnly
    BY <1>5 DEF AemResponses
  <2>2. PICK k \in Pairs, seq \in AecpSeqIds, e \in Targets, name \in Names :
             AemResponse(k, seq, e, name, ts) \/ Unsolicited(k, e, name)
    BY <1>5 DEF AemResponses
  <2>3. Passes /\ due' /\ now' = ts
    BY <1>1, <2>1, PacketPasses
  <2>4. AecpInv'
    BY <1>1, <2>2, <2>3, ResponseKeeps, UnsolicitedKeeps
  <2>5. UNCHANGED gptpVars /\ claim' = claim /\ advert' \in Adverts
    BY <1>1, <2>1 DEF AecpOnly, Surround
  <2>. QED  BY <1>2, <2>1, <2>4, <2>5
<1>6. CASE Maap(ts)
  <2>1. Packet("MAAP", ts) /\ MaapOnly
    BY <1>6 DEF Maap
  <2>2. PICK c \in Claimants, range \in Ranges :
             \/ MaapProbe(c, range) \/ MaapAnnounce(c, range)
             \/ MaapDefend(c, range) \/ MaapReserved(c, range)
    BY <1>6 DEF Maap
  <2>3. MaapInv'
    BY <1>1, <2>2, MaapKeeps
  <2>4. UNCHANGED gptpVars /\ UNCHANGED aecpVars /\ advert' \in Adverts
    BY <1>1, <2>1 DEF MaapOnly, Surround
  <2>. QED  BY <1>2, <2>1, <2>3, <2>4
<1>7. CASE Other(ts)
  <2>1. /\ Packet("OTHER", ts) /\ UNCHANGED gptpVars /\ UNCHANGED aecpVars
        /\ claim' = claim /\ advert' \in Adverts
    BY <1>1, <1>7 DEF Other, Surround
  <2>. QED  BY <1>2, <2>1
<1>. QED  BY <1>3, <1>4, <1>5, <1>6, <1>7

(* The ticks of a packet, of all the analyzers. *)
LEMMA TickKeeps == ObserversInv /\ Tick => ObserversInv'
<1>. SUFFICES ASSUME ObserversInv, Tick PROVE ObserversInv'
  OBVIOUS
<1>1. /\ Surround /\ DomainsInv /\ PortsInv /\ AecpInv /\ MaapInv
      /\ now \in Nat /\ due \in BOOLEAN
  BY DEF ObserversInv, Surround
<1>2. /\ Ticks /\ GptpTick /\ AecpTick
      /\ claim' = claim /\ traffic' = traffic /\ advert' = advert
  BY DEF Tick
<1>3. DomainsInv'
  BY <1>1, <1>2, DomainsTick
<1>4. PortsInv'
  BY <1>1, <1>2, PortsTick
<1>5. AecpInv'
  BY <1>1, <1>2, AecpTickKeeps
<1>6. MaapInv'
  BY <1>1, <1>2 DEF MaapInv, MaapTypeOK
<1>7. Surround'
  BY <1>1, <1>2 DEF Surround, Adverts, Ticks
<1>. QED  BY <1>3, <1>4, <1>5, <1>6, <1>7 DEF ObserversInv

LEMMA ObserversSteps == ObserversInv /\ [Next]_vars => ObserversInv'
<1>. SUFFICES ASSUME ObserversInv, [Next]_vars PROVE ObserversInv'
  OBVIOUS
<1>1. CASE Tick
  BY <1>1, TickKeeps
<1>2. ASSUME NEW ts \in now .. traffic.end,
             \/ Sync(ts) \/ FollowUp(ts) \/ Announce(ts) \/ Signaling(ts)
             \/ PdelayReq(ts) \/ PdelayResp(ts) \/ PdelayRespFollowUp(ts)
      PROVE  ObserversInv'
  BY <1>2, GptpKeeps
<1>3. ASSUME NEW ts \in now .. traffic.end,
             \/ Adp(ts) \/ AemCommands(ts) \/ AemResponses(ts) \/ Maap(ts) \/ Other(ts)
      PROVE  ObserversInv'
  BY <1>3, OthersKeep
<1>4. CASE UNCHANGED vars
  <2>1. /\ now' = now /\ due' = due /\ traffic' = traffic /\ advert' = advert
        /\ claim' = claim /\ UNCHANGED gptpVars /\ UNCHANGED aecpVars
    BY <1>4 DEF vars, clockVars
  <2>2. Surround /\ DomainsInv /\ PortsInv /\ AecpInv /\ MaapInv
    BY DEF ObserversInv
  <2>3. Surround' /\ Passes
    BY <2>1, <2>2 DEF Surround, Adverts, Passes
  <2>4. MaapInv'
    BY <2>1, <2>2 DEF MaapInv, MaapTypeOK
  <2>. QED  BY <2>1, <2>2, <2>3, <2>4, GptpKept, AecpKept DEF ObserversInv
<1>. QED  BY <1>1, <1>2, <1>3, <1>4 DEF Next

LEMMA Observing == Spec => []ObserversInv
BY ObserversStart, ObserversSteps, PTL DEF Spec

(* The analyzers of gPTP, AECP and MAAP keep their types (TypeOK). *)
THEOREM ObserversTyped == Spec => []TypeOK
<1>1. ObserversInv => TypeOK
  <2>. SUFFICES ASSUME ObserversInv PROVE TypeOK
    OBVIOUS
  <2>1. Surround /\ DomainsInv /\ PortsInv /\ AecpInv /\ MaapInv
    BY DEF ObserversInv
  <2>2. ASSUME NEW d \in Domains
        PROVE  domain[d].expected \cup domain[d].syncVec \subseteq domain[d].announcers
    <3>1. VectorsFit(domain[d], Told(d), now, ~due)
      BY <2>1 DEF DomainsInv, DomainFits
    <3>. QED  BY <3>1 DEF VectorsFit, Best
  <2>3. GptpTypeOK
    BY <2>1, <2>2 DEF GptpTypeOK, Surround, DomainsInv, DomainsTypes, TruthTypes,
                      PortsInv, PortsTypes
  <2>4. AecpTypeOK /\ MaapTypeOK
    BY <2>1, AecpSays DEF MaapInv
  <2>. QED  BY <2>1, <2>3, <2>4 DEF TypeOK, Surround, Adverts
<1>. QED  BY <1>1, Observing, PTL

(* Whatever the order of the packets, what ADP and MSRP read of a domain   *)
(* is what the wire says (ClockTruth).                                     *)
THEOREM ClockTold == Spec => []ClockTruth
<1>1. ObserversInv => ClockTruth
  BY ClockSays DEF ObserversInv, Surround
<1>. QED  BY <1>1, Observing, PTL

(* The comparison of the clocks rests on the announcements that are valid, *)
(* and on no other (BmcaTruth).                                            *)
THEOREM BmcaTold == Spec => []BmcaTruth
<1>1. ObserversInv => BmcaTruth
  BY BmcaSays DEF ObserversInv
<1>. QED  BY <1>1, Observing, PTL

(* No request for the delay and no AECP command is left unexplained        *)
(* (Accounted).                                                            *)
THEOREM AllAccounted == Spec => []Accounted
<1>1. ObserversInv => Accounted
  BY PortsSay, AecpSays DEF ObserversInv, Accounted
<1>. QED  BY <1>1, Observing, PTL
=============================================================================
