-------------------------------- MODULE Null --------------------------------
(***************************************************************************)
(* The null of the database: no row, no reference, no value of a column.   *)
(***************************************************************************)
CONSTANT NULL
=============================================================================
