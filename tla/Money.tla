--------------------------------- MODULE Money ---------------------------------
(***************************************************************************)
(* The currencies: the dollar, in which rates are quoted, and the others.  *)
(* A rate is how many units one dollar buys.                               *)
(***************************************************************************)
EXTENDS Integers, FiniteSets, Null

CONSTANTS
    Currencies,  \* currencies other than the dollar
    usd,         \* the dollar
    Quotes       \* rates the sources may quote

ASSUME MoneyAssumption ==
    /\ usd \notin Currencies /\ NULL \notin Currencies \cup {usd} \cup Int
    /\ Quotes \subseteq Nat \ {0}

All == Currencies \cup {usd}
=============================================================================
