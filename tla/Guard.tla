------------------------------- MODULE Guard --------------------------------
(***************************************************************************)
(* What the server keeps about the rate and the kind of requests: the      *)
(* token buckets (backend/src/util/ratelimit.h), the flow guard with its   *)
(* sliding window, alerts and penalties (backend/src/sec/flowguard.cpp)    *)
(* and the traffic counters (api.cpp: trafficHit, trafficPerMin).  Time is *)
(* counted in ticks.  Each of the three reads the clock before it takes    *)
(* its mutex, so a reading may be late; tokens are counted in parts of     *)
(* one, and the penalty is any the guard may have answered.  The learned   *)
(* baseline of a rate, the volume of uploads, the rule on paths with a     *)
(* ".." component, which looks at one request and at no window, and the    *)
(* responses that count for no rule are left out.                          *)
(***************************************************************************)
EXTENDS Integers, Sequences, FiniteSets, SequencesExt, Functions

CONSTANTS Keys, Rate, Burst,  \* buckets, their refill a tick and their size
          Token,              \* the parts of one token
          Penalty,            \* divides the rate of an actor with an alert
          BucketCap,          \* more buckets than this are pruned
          BucketIdle,         \* ticks after which a bucket may be dropped
          Actors, ActorCap, ActorIdle,
          Rules, Limit,       \* kinds of alert in order, and their counts
          WindowLength,       \* kBuckets, of a tick each
          CoolDown, PenaltyTime, AlertCap,
          Slots,              \* seconds in a traffic counter
          Lag,                \* how late a reading of the clock may be
          MaxTime, MaxCalls   \* bounds: ticks, and calls of each part

VARIABLES part,               \* which of the three is called
          now, calls,
          mBuckets, granted, since, upto, back, leaked,
          mActors, mAlerts, seen,
          slots, lastSec, hits, late

limits == <<mBuckets, granted, since, upto, back, leaked>>
flows == <<mActors, mAlerts, seen>>
traffic == <<slots, lastSec, hits, late>>
guardVars == <<part, now, calls, limits, flows, traffic>>

Times == 1 .. MaxTime
Parts == {"limits", "flows", "traffic"}
Kinds == ToSet(Rules)

ASSUME GuardAssumption ==
    /\ Token \in Nat \ {0} /\ Penalty \in Nat \ {0} /\ BucketIdle \in Nat
    /\ \A k \in Keys : /\ Rate[k] \in Nat /\ Burst[k] \in Nat
                       \* an idle bucket is full again, penalty or not
                       /\ Burst[k] * Penalty <= (BucketIdle + 1) * Rate[k]
    /\ WindowLength \in Nat \ {0} /\ Slots \in Nat \ {0} /\ AlertCap \in Nat
    /\ CoolDown \in Nat /\ PenaltyTime \in Nat /\ ActorIdle \in Nat
    /\ Rules \in Seq(Kinds) /\ Lag \in Nat /\ MaxTime \in Nat \ {0}
    /\ MaxCalls \in [Parts -> Nat]
    \* an actor is forgotten after its window, its cool-down and its penalty
    /\ WindowLength + 2 * Lag <= ActorIdle /\ CoolDown + 2 * Lag <= ActorIdle
    /\ PenaltyTime + Lag <= ActorIdle

Readings == {t \in Times : now - Lag <= t /\ t <= now}

Lesser(a, b) == IF a <= b THEN a ELSE b
-----------------------------------------------------------------------------
(* RateLimiter. *)
NoBucket == [tokens |-> 0, last |-> 0]

Known(k) == mBuckets[k] # NoBucket

(* Mutant: the refill of a bucket is not limited to its size. *)
RefilledOver(k, penalty, t) ==
    mBuckets[k].tokens + ((t - mBuckets[k].last) * Rate[k]) \div penalty

Refilled(k, penalty, t) ==
    Lesser(Burst[k],
           mBuckets[k].tokens + ((t - mBuckets[k].last) * Rate[k]) \div penalty)

(* Mutant: prune() drops every bucket. *)
DroppedAll(k) ==
    IF Cardinality({x \in Keys : Known(x)}) <= BucketCap THEN {}
    ELSE {x \in Keys : Known(x)}

(* prune() reads the clock itself; the size is that of the caller's bucket. *)
Dropped(k) ==
    IF Cardinality({x \in Keys : Known(x)}) <= BucketCap THEN {}
    ELSE {x \in Keys : Known(x) /\ \/ now - mBuckets[x].last > BucketIdle
                                   \/ mBuckets[x].tokens >= Burst[k]}

(* upto is the time up to which the refill of a bucket has been counted: a *)
(* dropped one comes back full, as it was or would have been by then.      *)
Allow(k, penalty, t) ==
    LET kept == Known(k) /\ k \notin Dropped(k)
        have == IF kept THEN Refilled(k, penalty, t) ELSE Burst[k]
        left == IF have >= Token THEN have - Token ELSE have
        reach == [x \in Keys |-> IF x \in Dropped(k) THEN now ELSE upto[x]]
    IN  /\ mBuckets' = [x \in Keys |->
              IF x = k THEN [tokens |-> left, last |-> t]
              ELSE IF x \in Dropped(k) THEN NoBucket ELSE mBuckets[x]]
        /\ granted' = [granted EXCEPT ![k] = @ + have - left]
        /\ since' = IF since[k] = 0 THEN [since EXCEPT ![k] = t] ELSE since
        /\ upto' = [reach EXCEPT ![k] = t]
        /\ back' = IF t < reach[k] THEN [back EXCEPT ![k] = @ + reach[k] - t] ELSE back
        /\ leaked' = leaked \cup
              {<<x, k>> : x \in {y \in Dropped(k) : Refilled(y, Penalty, now) < Burst[y]}}
        /\ UNCHANGED <<flows, traffic>>
-----------------------------------------------------------------------------
(* FlowGuard. *)
Empty == [k \in Kinds |-> 0]

(* A member of mActors as the map makes it; winStart -1 is 0 here. *)
NoActor == [win |-> [i \in 1 .. WindowLength |-> Empty], winStart |-> 0,
            lastSeen |-> 0, penaltyUntil |-> 0, lastAlert |-> 0,
            lastAlertKind |-> ""]

(* Mutant: a window that has elapsed keeps its counts. *)
RotateKept(a, t) ==
    IF t <= a.winStart THEN a
    ELSE [a EXCEPT !.winStart = t,
            !.win = [i \in 1 .. WindowLength |->
                       IF t - a.winStart >= WindowLength THEN a.win[i]
                       ELSE IF i + (t - a.winStart) \in 1 .. WindowLength
                       THEN a.win[i + (t - a.winStart)] ELSE Empty]]

(* The last element of the window is that of winStart. *)
Rotate(a, t) ==
    IF t <= a.winStart THEN a
    ELSE [a EXCEPT !.winStart = t,
            !.win = [i \in 1 .. WindowLength |->
                       IF i + (t - a.winStart) \in 1 .. WindowLength
                       THEN a.win[i + (t - a.winStart)] ELSE Empty]]

Sum(a, k) == FoldFunction(+, 0, [i \in 1 .. WindowLength |-> a.win[i][k]])

(* Mutant: an alert does not cool down. *)
RaiseAgain(name, t, state, kind) ==
    LET alerts == Append(state.alerts, [actor |-> name, kind |-> kind, ts |-> t])
    IN  [actor |-> [state.actor EXCEPT !.lastAlert = t, !.lastAlertKind = kind,
                                       !.penaltyUntil = t + PenaltyTime],
         alerts |-> IF Len(alerts) > AlertCap THEN Tail(alerts) ELSE alerts]

(* Only the kind of the last alert cools down. *)
Raise(name, t, state, kind) ==
    LET a == state.actor IN
    IF a.lastAlertKind = kind /\ t - a.lastAlert < CoolDown THEN state
    ELSE LET alerts == Append(state.alerts, [actor |-> name, kind |-> kind, ts |-> t])
         IN  [actor |-> [a EXCEPT !.lastAlert = t, !.lastAlertKind = kind,
                                  !.penaltyUntil = t + PenaltyTime],
              alerts |-> IF Len(alerts) > AlertCap THEN Tail(alerts) ELSE alerts]

(* One of the rules, over the window in which the response is counted. *)
Judge(name, t, counted, state, kind) ==
    IF Sum(counted, kind) >= Limit[kind] THEN Raise(name, t, state, kind) ELSE state

Forgotten(t) ==
    IF Cardinality({x \in Actors : mActors[x] # NoActor}) <= ActorCap THEN {}
    ELSE {x \in Actors : t - mActors[x].lastSeen > ActorIdle}

(* record() of a response that counts for the rule of kind; what raise()   *)
(* changes of the actor are the three members about its last alert.        *)
Record(name, kind, t) ==
    LET found == IF name \in Forgotten(t) THEN NoActor ELSE mActors[name]
        turned == Rotate([found EXCEPT !.lastSeen = t], t)
        counted == [turned EXCEPT !.win[WindowLength][kind] = @ + 1]
        after == FoldLeft(LAMBDA s, k : Judge(name, t, counted, s, k),
                          [actor |-> counted, alerts |-> mAlerts], Rules)
    IN  /\ mActors' = [x \in Actors |->
              IF x = name
              THEN [counted EXCEPT !.penaltyUntil = after.actor.penaltyUntil,
                                   !.lastAlert = after.actor.lastAlert,
                                   !.lastAlertKind = after.actor.lastAlertKind]
              ELSE IF x \in Forgotten(t) THEN NoActor ELSE mActors[x]]
        /\ mAlerts' = after.alerts
        /\ seen' = [seen EXCEPT ![name][kind][turned.winStart] = @ + 1]
        /\ UNCHANGED <<limits, traffic>>
-----------------------------------------------------------------------------
(* The traffic of one domain. *)

(* Mutant: seconds without a hit keep their slots. *)
ClearedOnce(t) ==
    [s \in 0 .. Slots - 1 |-> IF s = t % Slots THEN 0 ELSE slots[s]]

(* The slots of the seconds skipped since the last hit. *)
Cleared(t) ==
    [s \in 0 .. Slots - 1 |->
        IF lastSec = 0 \/ t - lastSec >= Slots
           \/ \E x \in lastSec + 1 .. t : x % Slots = s
        THEN 0 ELSE slots[s]]

TrafficHit(t) ==
    /\ slots' = [(IF t = lastSec THEN slots ELSE Cleared(t)) EXCEPT ![t % Slots] = @ + 1]
    /\ lastSec' = t
    /\ hits' = [hits EXCEPT ![t] = @ + 1]
    /\ late' = (late \/ t < lastSec)
    /\ UNCHANGED <<limits, flows>>

PerMinute ==
    IF lastSec = 0 \/ now - lastSec >= Slots THEN 0
    ELSE FoldFunction(+, 0,
            [s \in {x \in now - Slots + 1 .. now : x > lastSec - Slots /\ x <= lastSec}
                |-> slots[s % Slots]])
-----------------------------------------------------------------------------
GuardInit ==
    /\ part \in Parts
    /\ now = 1 /\ calls = 0
    /\ mBuckets = [k \in Keys |-> NoBucket]
    /\ granted = [k \in Keys |-> 0] /\ since = [k \in Keys |-> 0]
    /\ upto = [k \in Keys |-> 0] /\ back = [k \in Keys |-> 0] /\ leaked = {}
    /\ mActors = [a \in Actors |-> NoActor]
    /\ mAlerts = <<>>
    /\ seen = [a \in Actors |-> [k \in Kinds |-> [t \in Times |-> 0]]]
    /\ slots = [s \in 0 .. Slots - 1 |-> 0] /\ lastSec = 0
    /\ hits = [t \in Times |-> 0] /\ late = FALSE

Tick ==
    /\ now < MaxTime
    /\ now' = now + 1
    /\ UNCHANGED <<calls, limits, flows, traffic>>

Call ==
    /\ calls < MaxCalls[part]
    /\ calls' = calls + 1
    /\ \/ /\ part = "limits"
          /\ \E k \in Keys, penalty \in {1, Penalty}, t \in Readings :
                Allow(k, penalty, t)
       \/ /\ part = "flows"
          /\ \E a \in Actors, k \in Kinds, t \in Readings : Record(a, k, t)
       \/ part = "traffic" /\ \E t \in Readings : TrafficHit(t)
    /\ UNCHANGED now

GuardNext == (Tick \/ Call) /\ UNCHANGED part
-----------------------------------------------------------------------------
GuardTypeOK ==
    /\ part \in Parts
    /\ now \in Times /\ calls \in 0 .. MaxCalls[part]
    /\ \A k \in Keys : /\ mBuckets[k].tokens \in Int /\ mBuckets[k].tokens <= Burst[k]
                       /\ mBuckets[k].last \in 0 .. now
    /\ lastSec \in 0 .. now /\ late \in BOOLEAN

(* A caller never gets more than its burst and what the rate gives since   *)
(* its first call, the time counted twice that late readings went back     *)
(* over, unless prune() dropped its bucket before it was full; that takes  *)
(* a caller of a smaller bucket, or a reading that went back.              *)
RateHeld ==
    /\ \A k \in Keys :
         since[k] # 0 /\ (\A x \in leaked : x[1] # k) =>
             granted[k] <= Burst[k] + Rate[k] * (now - since[k] + back[k])
    /\ \A x \in leaked : Burst[x[2]] < Burst[x[1]] \/ back[x[1]] # 0

(* Each element of a window holds what was recorded in its tick. *)
WindowHolds ==
    \A a \in Actors, k \in Kinds, i \in 1 .. WindowLength :
        LET x == mActors[a].winStart - WindowLength + i IN
        mActors[a].winStart # 0 /\ x \in Times => mActors[a].win[i][k] = seen[a][k][x]

(* The window counts what was recorded in its ticks, each request once. *)
WindowExact ==
    /\ WindowHolds
    /\ \A a \in Actors, k \in Kinds :
         LET start == mActors[a].winStart IN
         start # 0 => Sum(mActors[a], k) =
             FoldFunction(+, 0, [t \in {x \in Times : start - WindowLength < x /\ x <= start}
                                   |-> seen[a][k][t]])

(* The same alert comes again within the cool-down only after another; an  *)
(* alert throttles its actor for as long as it is meant to; the list of    *)
(* alerts keeps to its cap.                                                *)
AlertsPaced ==
    /\ Len(mAlerts) <= AlertCap
    /\ \A a \in Actors : mActors[a].lastAlertKind \in Kinds \cup {""}
    /\ \A i, j \in 1 .. Len(mAlerts) :
         /\ i < j
         /\ mAlerts[i].actor = mAlerts[j].actor /\ mAlerts[i].kind = mAlerts[j].kind
         /\ mAlerts[j].ts - mAlerts[i].ts < CoolDown
         => \E m \in i .. j : /\ mAlerts[m].actor = mAlerts[i].actor
                              /\ mAlerts[m].kind # mAlerts[i].kind
    /\ \A i \in 1 .. Len(mAlerts) :
         now + Lag < mAlerts[i].ts + PenaltyTime =>
             mActors[mAlerts[i].actor].penaltyUntil > now

(* The slot of a second that the counter still shows holds none but the    *)
(* hits of that second, and all of them if no reading came late.           *)
SlotsHold ==
    \A x \in Times :
        now - Slots < x /\ lastSec - Slots < x /\ x <= lastSec =>
            slots[x % Slots] <= hits[x] /\ (late \/ slots[x % Slots] = hits[x])

(* The counter shows no hit that is older than it says, and every hit if   *)
(* no reading of the clock came late.                                      *)
TrafficExact ==
    LET recent == FoldFunction(+, 0,
                     [t \in {x \in Times : now - Slots < x /\ x <= now} |-> hits[t]])
    IN  SlotsHold /\ PerMinute <= recent /\ (late \/ PerMinute = recent)

GuardSound == RateHeld /\ WindowExact /\ AlertsPaced /\ TrafficExact
=============================================================================
