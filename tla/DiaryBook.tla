------------------------------ MODULE DiaryBook -------------------------------
(***************************************************************************)
(* What a trading diary promises, whatever keeps it: a closing that is in  *)
(* it stays in it, only what was closed is in it, and the user's notes are *)
(* theirs alone to remove.  The rows it is kept in are the program's, to   *)
(* rewrite and to merge as it pleases.                                     *)
(***************************************************************************)
CONSTANTS Closings, Notes

VARIABLES
    closed,      \* what was closed on the exchange
    recorded,    \* what the diary has of it
    notes,       \* the notes there are
    rows         \* what the diary is kept in

book == <<closed, recorded, notes, rows>>

Init == closed = {} /\ recorded = {} /\ notes = {}

Close(c) ==
    /\ c \notin closed
    /\ closed' = closed \cup {c}
    /\ UNCHANGED <<recorded, notes, rows>>

Rewrite(new) ==
    /\ recorded' = recorded \cup new
    /\ UNCHANGED <<closed, notes>>

AddNote(n) ==
    /\ notes' = notes \cup {n}
    /\ UNCHANGED <<closed, recorded, rows>>

RemoveNote(n) ==
    /\ notes' = notes \ {n}
    /\ UNCHANGED <<closed, recorded, rows>>

Next ==
    \/ \E c \in Closings : Close(c)
    \/ \E new \in SUBSET closed : Rewrite(new)
    \/ \E n \in Notes : AddNote(n) \/ RemoveNote(n)

Spec == Init /\ [][Next]_book
=============================================================================
