--------------------------- MODULE CaptureLibrary ---------------------------
(***************************************************************************)
(* What the library of captures promises to its users (the comments of     *)
(* backend/src/store/store.h and store.cpp), without files, roots and      *)
(* saves.  An upload takes place at one instant, under an id of its own,   *)
(* and a removal at another; both are answered later, if the server lives  *)
(* that long.  From the first instant until somebody asks to remove it,    *)
(* the capture is listed and whole; after the second it never comes back.  *)
(* Whatever was asked for and not answered may have taken place or not.    *)
(***************************************************************************)
CONSTANT Pcaps      \* captures, each with the field id

VARIABLES listed,   \* what the server lists
          whole,    \* of these, the captures it has all bytes of
          uploaded, \* those whose upload took place
          told,     \* those whose upload was answered
          kept,     \* those uploaded that nobody asked to remove
          removed   \* those whose removal took place

libraryVars == <<listed, whole, uploaded, told, kept, removed>>

Init ==
    /\ listed = {} /\ whole = {} /\ uploaded = {}
    /\ told = {} /\ kept = {} /\ removed = {}

Upload(p) ==
    /\ \A q \in uploaded : q.id # p.id
    /\ listed' = listed \cup {p}
    /\ whole' = whole \cup {p}
    /\ uploaded' = uploaded \cup {p}
    /\ kept' = kept \cup {p}
    /\ UNCHANGED <<told, removed>>

Answer(p) ==
    /\ told' = told \cup {p}
    /\ UNCHANGED <<listed, whole, uploaded, kept, removed>>

AskToRemove(some) ==
    /\ listed' = listed \ some
    /\ whole' = whole \ some
    /\ kept' = kept \ some
    /\ UNCHANGED <<uploaded, told, removed>>

Remove(p) ==
    /\ p \notin listed \cup kept
    /\ removed' = removed \cup {p}
    /\ UNCHANGED <<listed, whole, uploaded, told, kept>>

(* The library moves; what is kept is there all the time.                  *)
Move ==
    /\ kept \subseteq whole' /\ whole' \subseteq listed
    /\ UNCHANGED <<listed, uploaded, told, kept, removed>>

(* Nothing comes up that was removed, or whose upload did not take place.  *)
Restart ==
    /\ kept \subseteq whole' /\ whole' \subseteq listed'
    /\ listed' \subseteq uploaded \ removed
    /\ UNCHANGED <<uploaded, told, kept, removed>>

Next ==
    \/ \E p \in Pcaps : Upload(p)
    \/ \E p \in uploaded : Answer(p) \/ Remove(p)
    \/ \E some \in SUBSET listed : AskToRemove(some)
    \/ Move \/ Restart

Spec == Init /\ [][Next]_libraryVars
=============================================================================
