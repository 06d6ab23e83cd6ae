---------------------------- MODULE TaskService -----------------------------
(***************************************************************************)
(* What the pool of serving threads promises to the accept loop (the       *)
(* comments of backend/src/engine/thread_pool.h, and main.cpp on the       *)
(* shutdown): every task it accepts is begun once, in the order in which   *)
(* they came, by at most as many threads as are allowed; and stop()        *)
(* returns when all of them have ended and nothing more is begun.          *)
(***************************************************************************)
EXTENDS Naturals, Sequences, FiniteSets

CONSTANTS Tasks, Threads

VARIABLES waiting,  \* accepted and not yet begun
          begun,    \* in the hands of a thread
          ended,
          phase     \* "open", "stopping" or "stopped"

serviceVars == <<waiting, begun, ended, phase>>

Init ==
    /\ waiting = <<>>
    /\ begun = {} /\ ended = {}
    /\ phase = "open"

Accept(k) ==
    /\ phase = "open"
    /\ k \notin begun \cup ended /\ \A i \in 1 .. Len(waiting) : waiting[i] # k
    /\ waiting' = Append(waiting, k)
    /\ UNCHANGED <<begun, ended, phase>>

Begin ==
    /\ waiting # <<>>
    /\ Cardinality(begun) < Cardinality(Threads)
    /\ waiting' = Tail(waiting)
    /\ begun' = begun \cup {Head(waiting)}
    /\ UNCHANGED <<ended, phase>>

End(k) ==
    /\ begun' = begun \ {k}
    /\ ended' = ended \cup {k}
    /\ UNCHANGED <<waiting, phase>>

Stop ==
    /\ phase = "open"
    /\ phase' = "stopping"
    /\ UNCHANGED <<waiting, begun, ended>>

Return ==
    /\ phase = "stopping" /\ waiting = <<>> /\ begun = {}
    /\ phase' = "stopped"
    /\ UNCHANGED <<waiting, begun, ended>>

Next ==
    \/ \E k \in Tasks : Accept(k)
    \/ Begin
    \/ \E k \in begun : End(k)
    \/ Stop \/ Return

Spec == Init /\ [][Next]_serviceVars
=============================================================================
