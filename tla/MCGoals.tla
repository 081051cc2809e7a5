------------------------------- MODULE MCGoals -------------------------------
(***************************************************************************)
(* Small instances of Goals.                                               *)
(***************************************************************************)
EXTENDS Goals, TLC

MCAmounts == {-1, 1}
MCSymmetry == Permutations(GoalIds) \cup Permutations(ContribIds) \cup Permutations(Requests)
=============================================================================
