------------------------------ MODULE EventFeed -----------------------------
(***************************************************************************)
(* What the event stream of a session promises (docs/API.md, "WebSocket    *)
(* event stream"): the session has one log that only grows; each client    *)
(* receives a prefix of it, in order and without gaps or repetition; and   *)
(* a client that is told the stream is complete has received all of it.    *)
(***************************************************************************)
EXTENDS Naturals, Sequences, SequencesExt

CONSTANT Clients

VARIABLES log,      \* the events published so far
          outcome,  \* "running", "done" or "error": how the analysis ended
          got,      \* what each client has received
          told      \* what each client was told last

feedVars == <<log, outcome, got, told>>

Init ==
    /\ log = <<>>
    /\ outcome = "running"
    /\ got = [c \in Clients |-> <<>>]
    /\ told = [c \in Clients |-> "open"]

Publish ==
    /\ outcome = "running"
    /\ IsStrictPrefix(log, log')
    /\ UNCHANGED <<outcome, got, told>>

Conclude ==
    /\ outcome = "running"
    /\ outcome' \in {"done", "error"}
    /\ outcome' = "error" => log = <<>>
    /\ UNCHANGED <<log, got, told>>

Receive(c) ==
    /\ told[c] = "open"
    /\ \E n \in Len(got[c]) + 1 .. Len(log) :
         got' = [got EXCEPT ![c] = SubSeq(log, 1, n)]
    /\ UNCHANGED <<log, outcome, told>>

Tell(c) ==
    /\ told[c] = "open"
    /\ \/ outcome = "done" /\ got[c] = log /\ told' = [told EXCEPT ![c] = "complete"]
       \/ outcome = "error" /\ told' = [told EXCEPT ![c] = "error"]
       \/ told' = [told EXCEPT ![c] = "closed"]
    /\ UNCHANGED <<log, outcome, got>>

Next == Publish \/ Conclude \/ \E c \in Clients : Receive(c) \/ Tell(c)

Spec == Init /\ [][Next]_feedVars
=============================================================================
