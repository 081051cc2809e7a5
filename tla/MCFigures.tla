------------------------------- MODULE MCFigures -------------------------------
(***************************************************************************)
(* Small instances of the machines behind the figures shown: Reports,      *)
(* Matching, Balance and Trades.  They share no state, so each behaviour   *)
(* moves one of them, its part.                                            *)
(***************************************************************************)
EXTENDS Reports, Trades, Balance, TLC

CONSTANTS Quantities, Fees, Bounds
VARIABLES
    part,                                                             \* the machine that moves
    bound, fills, known, diary, pc, late, built, traded, closings     \* of Matching

M == INSTANCE Matching

\* A long of unknown age, a long that is dust, a short.
MCEntries == {[side |-> "Sell", qty |-> 2, entry |-> 1, opened |-> NULL],
              [side |-> "Sell", qty |-> 1, entry |-> 1, opened |-> 1],
              [side |-> "Buy",  qty |-> 1, entry |-> 2, opened |-> 2]}

MCEdits  == {[exit |-> 2, closed |-> 2], [exit |-> 1], [qty |-> 3], [pnl |-> -1]}
MCEarned == {-1, 0}

NoTrades      == [rows |-> 0, edits |-> 0, prices |-> FALSE]
MCTradeBounds == {NoTrades, [NoTrades EXCEPT !.rows = 1, !.edits = 2],
                  [NoTrades EXCEPT !.rows = 2, !.prices = TRUE]}

matchVars == <<bound, fills, known, diary, pc, late, built, traded, closings>>

ASSUME M!MatchingAssumption

NoFills  == [spot |-> 0, linear |-> 0, fee |-> 0]
MCBounds == {NoFills, [NoFills EXCEPT !.spot = 4], [NoFills EXCEPT !.spot = 3, !.fee = 1],
             [NoFills EXCEPT !.linear = 5]}

MCInit ==
    /\ ReportsInit /\ M!Init /\ BalanceInit /\ TradesInit
    /\ part \in {"reports", "fills", "balance", "trades"}
    /\ part = "fills" <=> bound # NoFills
    /\ part = "trades" <=> limits # NoTrades
    /\ part # "reports" => \A c \in Currencies : market[c] = Min(Quotes)

MCNext ==
    /\ \/ part = "reports" /\ ReportsNext /\ UNCHANGED <<matchVars, balanceVars, tradesVars>>
       \/ part = "fills" /\ M!Next /\ UNCHANGED <<reportVars, balanceVars, tradesVars>>
       \/ part = "balance" /\ BalanceNext /\ UNCHANGED <<reportVars, matchVars, tradesVars>>
       \/ part = "trades" /\ TradesNext /\ UNCHANGED <<reportVars, matchVars, balanceVars>>
    /\ UNCHANGED part

MCSpec == MCInit /\ [][MCNext]_<<part, reportVars, matchVars, balanceVars, tradesVars>>

MCSymmetry == Permutations(Ids) \cup Permutations(RowIds) \cup Permutations(Venues)
                       \cup Permutations(Requests)

\* Matching's promise that the diary accounts for every coin (spot-lifo.util.ts:1-10).
DiaryMatchesFills == part = "fills" => M!DiaryMatchesFills

\* Matching's promise about opening times (linear-fifo.util.ts:1-5).
OpenedSinceFlat == part = "fills" => M!OpenedSinceFlat
=============================================================================
