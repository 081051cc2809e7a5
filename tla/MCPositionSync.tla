---------------------------- MODULE MCPositionSync ----------------------------
(***************************************************************************)
(* Small instances of PositionSync.                                        *)
(***************************************************************************)
EXTENDS PositionSync, TLC

MCSymmetry == Permutations(Trades) \cup Permutations(Orders) \cup Permutations(RowIds)
                \cup Permutations(Notes) \cup Permutations(Runs)
=============================================================================
