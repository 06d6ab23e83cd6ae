--------------------------- MODULE MCStreamSession --------------------------
(* Instances of StreamSession.  The captures hold at most four packets but *)
(* cover what the engine tells apart: out-of-order timestamps and ties,    *)
(* packets that are irrelevant or malformed, packets with transitions of   *)
(* both kinds, bursts longer than a batch and than a chunk.                *)
EXTENDS StreamSession

CONSTANTS c1, c2

Plain(t) == [ts |-> t, interesting |-> TRUE, ok |-> TRUE, caused |-> 0, ticked |-> 0]
Foreign(t) == [Plain(t) EXCEPT !.interesting = FALSE]
Malformed(t) == [Plain(t) EXCEPT !.ok = FALSE, !.ticked = 1]
Busy(t) == [Plain(t) EXCEPT !.caused = 2, !.ticked = 1]

TwoClients == {c1, c2}

(* Captures whose first record is the earliest, as taps write them. *)
ForwardCaptures ==
    {<<Plain(1)>>,
     <<Busy(1), Plain(2), Malformed(3)>>,
     <<Plain(1), Busy(3), Foreign(2), Plain(2)>>,
     <<Malformed(1), Plain(2), Plain(2), Plain(1)>>,
     <<Foreign(1), Foreign(1)>>}

(* And one that begins with a late record. *)
BackwardCaptures == {<<Plain(2), Plain(1), Plain(3)>>}
=============================================================================
