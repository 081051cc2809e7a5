------------------------------ MODULE MCAccounts ------------------------------
(***************************************************************************)
(* A small instance of Accounts, in four parts: two users asking for a     *)
(* link, one asking twice, one whose account an administrator writes       *)
(* twice, and one who signs in and out.                                    *)
(***************************************************************************)
EXTENDS Accounts, TLC

CONSTANTS g1, e1, e2

MCGoogleEmail == (g1 :> e1)
MCBounds ==
    {[users |-> 2, links |-> 1, sessions |-> 0, edits |-> 0],
     [users |-> 1, links |-> 2, sessions |-> 0, edits |-> 0],
     [users |-> 1, links |-> 1, sessions |-> 0, edits |-> 2],
     [users |-> 1, links |-> 0, sessions |-> 3, edits |-> 0]}

\* Of two users neither has data; Telegram is nothing to an administrator, and all that is needed
\* to sign in and out.
InPart ==
    /\ bound.users > 1 => active = {}
    /\ bound.edits > 0 => \A u \in Users : Exists(u) => user[u].telegram = NULL
    /\ bound.sessions > 0 =>
           \A r \in Requests : req[r].pc \in {"idle", "createTelegram", "spend", "session"}

MCNext == Next /\ InPart'
MCSpec == Init /\ [][MCNext]_vars

MCSymmetry == Permutations(Users) \cup Permutations(Requests)
=============================================================================
