----------------------------- MODULE PacketTime -----------------------------
(***************************************************************************)
(* The time that protocol analyzers see (backend/src/engine/engine.cpp,    *)
(* Engine::analyze): a packet is decoded by the module it is for, and then *)
(* every module is ticked with the packet's time.  Nothing else moves the  *)
(* time of an analysis.                                                    *)
(***************************************************************************)
EXTENDS Integers

VARIABLES now,    \* ts of the packet in hand
          due     \* the ticks of the packet in hand are to come

clockVars == <<now, due>>

(* A time stamp that was never set. *)
Never == -1

ClockInit == now = 0 /\ due = FALSE

(* The next packet, at ts. *)
Arrives(ts) ==
    /\ ~due
    /\ now =< ts
    /\ now' = ts
    /\ due' = TRUE

(* Every module is ticked. *)
Ticks ==
    /\ due
    /\ due' = FALSE
    /\ UNCHANGED now
=============================================================================
