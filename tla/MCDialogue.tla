------------------------------ MODULE MCDialogue ------------------------------
(***************************************************************************)
(* Small instances of Dialogue.                                            *)
(***************************************************************************)
EXTENDS Dialogue, TLC

CONSTANTS c1, c2, c3

MCKindOf == c1 :> "expense" @@ c2 :> "expense" @@ c3 :> "income"
MCBounds ==
    {[cats |-> {c1, c3}, operations |-> 1, presets |-> 0, messages |-> 2],
     [cats |-> {c1, c2}, operations |-> 2, presets |-> 0, messages |-> 2],
     [cats |-> {c1, c2}, operations |-> 0, presets |-> 2, messages |-> 0]}

MCSymmetry == Permutations(Requests) \cup Permutations(Names) \cup
              Permutations(Amounts)
=============================================================================
