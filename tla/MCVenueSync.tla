------------------------------ MODULE MCVenueSync ------------------------------
(***************************************************************************)
(* Small instances of VenueSync.                                           *)
(***************************************************************************)
EXTENDS VenueSync, TLC

MCSymmetry == Permutations(Venues)
=============================================================================
