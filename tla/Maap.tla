-------------------------------- MODULE Maap --------------------------------
(***************************************************************************)
(* MAAP address claims (backend/src/logic/maap_logic.cpp): the range and   *)
(* the state of every claimant, as its messages tell them.  The state LOST *)
(* is left within the call that enters it and seen only in the history:    *)
(* here the times it was entered are counted.                              *)
(***************************************************************************)
EXTENDS Integers

CONSTANTS Claimants, Ranges,
          NoRange,      \* start and count before the first message
          MaxClaims     \* bound on the PROBEs and on the DEFENDs of a claimant

VARIABLES claim   \* mRanges

ASSUME MaapAssumption == MaxClaims \in Nat /\ NoRange \notin Ranges

Holding == {"ACQUIRED", "DEFENDING"}

MaapInit == claim = [c \in Claimants |-> [state |-> "UNKNOWN", range |-> NoRange,
                                          probes |-> 0, conflicts |-> 0, lost |-> 0]]

(* MAAP_PROBE: a claimant that held another range has abandoned it. *)
MaapProbe(c, range) ==
    /\ claim[c].probes < MaxClaims
    /\ claim' = [claim EXCEPT
                   ![c].lost = IF claim[c].state \in Holding /\ claim[c].range # range
                               THEN @ + 1 ELSE @,
                   ![c].state = "PROBING",
                   ![c].range = range,
                   ![c].probes = @ + 1]

MaapAnnounce(c, range) ==
    claim' = [claim EXCEPT ![c].state = "ACQUIRED", ![c].range = range]

(* MAAP_DEFEND: the range told is the requested one. *)
MaapDefend(c, range) ==
    /\ claim[c].conflicts < MaxClaims
    /\ claim' = [claim EXCEPT ![c].state = "DEFENDING", ![c].range = range,
                              ![c].conflicts = @ + 1]
(* A message of another type still tells a range. *)
MaapReserved(c, range) == claim' = [claim EXCEPT ![c].range = range]
-----------------------------------------------------------------------------
MaapTypeOK ==
    claim \in [Claimants -> [state : {"UNKNOWN", "PROBING"} \cup Holding,
                             range : Ranges \cup {NoRange},
                             probes : 0 .. MaxClaims, conflicts : 0 .. MaxClaims,
                             lost : 0 .. MaxClaims]]
=============================================================================
