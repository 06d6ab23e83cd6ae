---------------------------- MODULE StreamSession ---------------------------
(***************************************************************************)
(* The event stream of a session (backend/src/api/api.cpp, handleUpgrade   *)
(* and streamSession) beside the analysis that fills its log: any number   *)
(* of clients attach before, during and after the analysis, the session    *)
(* may be deleted under them, and the server may shut down.                *)
(***************************************************************************)
EXTENDS Analysis

CONSTANTS Clients,
          ChunkMax  \* events in one batch frame: 500

ASSUME StreamAssumption == ChunkMax \in Nat \ {0}

VARIABLES listed,     \* the session is in Engine::mSessions
          mStopping,  \* Api::mStopping
          pc,         \* where each client's serving thread is
          st, chunk,  \* its locals of these names
          sent,
          received,   \* history: the events the client was sent
          told,       \* history: how its stream ended
          total, why  \* history: what the complete or error frame said

streamVars == <<listed, mStopping, pc, st, chunk, sent, received, told, total, why>>
vars == <<analysisVars, streamVars>>

StreamInit ==
    /\ listed = TRUE /\ mStopping = FALSE
    /\ pc = [c \in Clients |-> "new"]
    /\ st = [c \in Clients |-> "running"]
    /\ chunk = [c \in Clients |-> <<>>]
    /\ sent = [c \in Clients |-> 0]
    /\ received = [c \in Clients |-> <<>>]
    /\ told = [c \in Clients |-> "open"]
    /\ total = [c \in Clients |-> 0]
    /\ why = [c \in Clients |-> "none"]
-----------------------------------------------------------------------------
(* Engine::remove and Store::removeSession, at the wish of a user; the     *)
(* analysis and the streams hold the session by shared_ptr.                *)
Delete ==
    /\ listed
    /\ listed' = FALSE
    /\ UNCHANGED <<analysisVars, mStopping, pc, st, chunk, sent, received, told, total, why>>

(* Api::stop, at shutdown. *)
Stop ==
    /\ ~mStopping
    /\ mStopping' = TRUE
    /\ UNCHANGED <<analysisVars, listed, pc, st, chunk, sent, received, told, total, why>>

Close(c, how) ==
    /\ pc' = [pc EXCEPT ![c] = "closed"]
    /\ told' = [told EXCEPT ![c] = how]

(* handleUpgrade: no handshake, a bad token (4001), or a session of        *)
(* another domain (4004).                                                  *)
Refuse(c) ==
    /\ pc[c] = "new"
    /\ Close(c, "closed")
    /\ UNCHANGED <<analysisVars, listed, mStopping, st, chunk, sent, received, total, why>>

(* handleUpgrade: the session is looked up, or the client is told 4004.    *)
Upgrade(c) ==
    /\ pc[c] = "new"
    /\ IF listed
         THEN pc' = [pc EXCEPT ![c] = "found"] /\ UNCHANGED told
         ELSE Close(c, "closed")
    /\ UNCHANGED <<analysisVars, listed, mStopping, st, chunk, sent, received, total, why>>

(* streamSession looks it up once more, and returns if it is gone.         *)
Attach(c) ==
    /\ pc[c] = "found"
    /\ IF listed
         THEN pc' = [pc EXCEPT ![c] = "top"] /\ UNCHANGED told
         ELSE Close(c, "closed")
    /\ UNCHANGED <<analysisVars, listed, mStopping, st, chunk, sent, received, total, why>>

(* The top of the loop at shutdown: close code 1001. *)
GoAway(c) ==
    /\ pc[c] = "top" /\ mStopping
    /\ Close(c, "closed")
    /\ UNCHANGED <<analysisVars, listed, mStopping, st, chunk, sent, received, total, why>>

(* Under the shared lock: the status, and the events from begin to end if  *)
(* there are any the client has not got.                                   *)
TakeRange(c, begin, end) ==
    /\ pc[c] = "top" /\ ~mStopping
    /\ st' = [st EXCEPT ![c] = status]
    /\ IF sent[c] < Len(events)
         THEN /\ chunk' = [chunk EXCEPT ![c] = SubSeq(events, begin, end)]
              /\ sent' = [sent EXCEPT ![c] = end]
         ELSE /\ chunk' = [chunk EXCEPT ![c] = <<>>]
              /\ UNCHANGED sent
    /\ pc' = [pc EXCEPT ![c] = "act"]
    /\ UNCHANGED <<analysisVars, listed, mStopping, received, told, total, why>>

(* std::min(avail, sent + 500) *)
ChunkLimit(c) == IF sent[c] + ChunkMax < Len(events) THEN sent[c] + ChunkMax
                 ELSE Len(events)

(* Mutant: a chunk starts one event early once the first has been sent. *)
TakeOverlapping(c) ==
    TakeRange(c, IF sent[c] = 0 THEN 1 ELSE sent[c], ChunkLimit(c))

(* Mutant: a frame takes whatever there is. *)
TakeUnbounded(c) == TakeRange(c, sent[c] + 1, Len(events))

(* What is new, ChunkMax events at most. *)
Take(c) == TakeRange(c, sent[c] + 1, ChunkLimit(c))

(* A non-empty chunk is sent as one batch frame, and the loop continues.   *)
SendBatch(c) ==
    /\ pc[c] = "act" /\ chunk[c] # <<>>
    /\ received' = [received EXCEPT ![c] = @ \o chunk[c]]
    /\ chunk' = [chunk EXCEPT ![c] = <<>>]
    /\ pc' = [pc EXCEPT ![c] = "top"]
    /\ UNCHANGED <<analysisVars, listed, mStopping, st, sent, told, total, why>>

(* Mutant: the status is read again after the lock is released. *)
EndStreamLateStatus(c) ==
    /\ pc[c] = "act" /\ chunk[c] = <<>> /\ status # "running"
    /\ IF status = "error"
         THEN /\ Close(c, "error")
              /\ why' = [why EXCEPT ![c] = errorMsg]
              /\ UNCHANGED total
         ELSE /\ Close(c, "complete")
              /\ total' = [total EXCEPT ![c] = sent[c]]
              /\ UNCHANGED why
    /\ UNCHANGED <<analysisVars, listed, mStopping, st, chunk, sent, received>>

(* Nothing new and, as of the same look, no longer running: the client is  *)
(* told so, with the total or the error, and the socket closes.            *)
EndStream(c) ==
    /\ pc[c] = "act" /\ chunk[c] = <<>> /\ st[c] # "running"
    /\ IF st[c] = "error"
         THEN /\ Close(c, "error")
              /\ why' = [why EXCEPT ![c] = errorMsg]
              /\ UNCHANGED total
         ELSE /\ Close(c, "complete")
              /\ total' = [total EXCEPT ![c] = sent[c]]
              /\ UNCHANGED why
    /\ UNCHANGED <<analysisVars, listed, mStopping, st, chunk, sent, received>>

(* Nothing new yet: progress, client traffic, and a wait on Session::cv.   *)
Idle(c) ==
    /\ pc[c] = "act" /\ chunk[c] = <<>> /\ st[c] = "running"
    /\ pc' = [pc EXCEPT ![c] = "waiting"]
    /\ UNCHANGED <<analysisVars, listed, mStopping, st, chunk, sent, received, told, total, why>>

(* Mutant: the wait has no timeout and depends on what it waits for alone. *)
WakeOnEventsOnly(c) ==
    /\ pc[c] = "waiting"
    /\ Len(events) > sent[c]
    /\ pc' = [pc EXCEPT ![c] = "top"]
    /\ UNCHANGED <<analysisVars, listed, mStopping, st, chunk, sent, received, told, total, why>>

(* Woken, or 50 ms later: the notifications are given without the lock and *)
(* can be missed, the timeout cannot.                                      *)
Wake(c) ==
    /\ pc[c] = "waiting"
    /\ pc' = [pc EXCEPT ![c] = "top"]
    /\ UNCHANGED <<analysisVars, listed, mStopping, st, chunk, sent, received, told, total, why>>

(* The client is gone, which a send or a poll notices: at the batch frame, *)
(* right after it, or while there is nothing to send.                      *)
Leave(c) ==
    /\ pc[c] \in {"act", "top", "waiting"}
    /\ Close(c, "closed")
    /\ UNCHANGED <<analysisVars, listed, mStopping, st, chunk, sent, received, total, why>>

Serve(c) == \/ Attach(c) \/ GoAway(c) \/ Take(c) \/ SendBatch(c)
            \/ EndStream(c) \/ Idle(c) \/ Wake(c)

SpecInit == Init /\ StreamInit

Next ==
    \/ AnalysisNext /\ UNCHANGED streamVars
    \/ Delete \/ Stop
    \/ \E c \in Clients : Refuse(c) \/ Upgrade(c) \/ Serve(c) \/ Leave(c)

Spec == SpecInit /\ [][Next]_vars

(* The analysis thread and the serving threads run.  Users need not        *)
(* connect, leave, delete the session or stop the server.                  *)
FairSpec ==
    /\ Spec
    /\ WF_vars(AnalysisNext /\ UNCHANGED streamVars)
    /\ \A c \in Clients : WF_vars(Serve(c))
-----------------------------------------------------------------------------
Event == [i : Nat, n : Nat, ts : Nat, kind : {"packet", "error", "transition"}]

TypeOK ==
    /\ phase \in {"open", "failing", "decode", "pass", "ended"}
    /\ events \in Seq(Event) /\ batch \in Seq(Event)
    /\ status \in {"running", "done", "error"}
    /\ errorMsg \in {"none", "cannot open"}
    /\ oi \in 0 .. Len(pkts) /\ eventIndex \in Nat
    /\ listed \in BOOLEAN /\ mStopping \in BOOLEAN
    /\ pc \in [Clients -> {"new", "found", "top", "act", "waiting", "closed"}]
    /\ st \in [Clients -> {"running", "done", "error"}]
    /\ chunk \in [Clients -> Seq(Event)]
    /\ \A c \in Clients : Len(chunk[c]) <= ChunkMax
    /\ sent \in [Clients -> Nat]
    /\ received \in [Clients -> Seq(Event)]
    /\ told \in [Clients -> {"open", "complete", "error", "closed"}]
    /\ total \in [Clients -> Nat]
    /\ why \in [Clients -> {"none", "cannot open"}]

(* Whatever the timing, what a client has received and what is on its way  *)
(* to it are the beginning of the log: nothing skipped, nothing repeated.  *)
ReceivesPrefix ==
    \A c \in Clients : received[c] \o chunk[c] = SubSeq(events, 1, sent[c])

(* "complete -- analysis finished, all events sent" (docs/API.md:617): a   *)
(* client is only told so when the analysis is Done and it has every       *)
(* event, and the total it is told is right.  (The status is read before   *)
(* the log, under the lock.)                                               *)
CompleteMeansAll ==
    \A c \in Clients : told[c] = "complete" =>
        /\ status = "done"
        /\ received[c] = events
        /\ total[c] = Len(events)

(* A client of a failed session is told why.                               *)
ErrorSaysWhy ==
    \A c \in Clients : told[c] = "error" =>
        status = "error" /\ why[c] = "cannot open"

(* What a client was sent, and what it was told at the end, is true of the *)
(* analysis it watches (api.cpp: streamSession).                           *)
TellsTrue == ReceivesPrefix /\ CompleteMeansAll /\ ErrorSaysWhy

(* Attached once, a client's stream ends: with the end of the analysis if  *)
(* nothing else ends it first.                                             *)
StreamsEnd == \A c \in Clients : (pc[c] = "top") ~> (pc[c] = "closed")

Feed == INSTANCE EventFeed WITH log <- events, outcome <- status,
                                got <- received, told <- told

(* The stream implements the feed. *)
ImplementsFeed == Feed!Spec
=============================================================================
