----------------------------- MODULE MCTransfers -----------------------------
(***************************************************************************)
(* Small instances of Transfers.                                           *)
(***************************************************************************)
EXTENDS Transfers, TLC

CONSTANTS usd, eur

\* Both amounts are worth the same dollars, as a conversion and its cost can be.
MCToUsd == [m \in Money |-> usd]

MCSymmetry == Permutations(TransferIds) \cup Permutations(TxnIds) \cup Permutations(IncomeCats)
MCRaceSymmetry == Permutations(TxnIds) \cup Permutations(Requests)
MCCoinSymmetry ==
    Permutations(TransferIds) \cup Permutations(Slots) \cup Permutations(Manual)
=============================================================================
