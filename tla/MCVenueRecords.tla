---------------------------- MODULE MCVenueRecords ----------------------------
(***************************************************************************)
(* Small instances of VenueRecords.                                        *)
(***************************************************************************)
EXTENDS VenueRecords, TLC

MCSymmetry == Permutations(Venues)
=============================================================================
