--------------------------------- MODULE Trades ---------------------------------
(***************************************************************************)
(* The trades the diary shows: those entered by hand, whose edits read the *)
(* row first and write what follows from it, and those the exchange sync   *)
(* keeps.  The list, the totals above it and the curve of profits select   *)
(* from the same rows by filters of their own, and what is still open is   *)
(* valued at the prices of the moment.                                     *)
(*                                                                         *)
(* One account and one symbol, without leverage.  PositionSync and         *)
(* Matching have the steps in which synced rows are written; here each is  *)
(* one step.                                                               *)
(***************************************************************************)
EXTENDS Integers, FiniteSets, FiniteSetsExt, Null

CONSTANTS
    TradeIds,   \* primary keys the database may hand out
    Requests,   \* edits in progress
    Entries,    \* trades that may be entered into: side, quantity, price, time if known
    Edits,      \* the columns, with their values, that an edit may give
    Prices,     \* exit prices and prices of the feeds
    Earned,     \* profits the exchange may report or a user enter
    Now,        \* when trades are closed
    Dust,       \* below it a row's volume is leftover change
    TradeBounds \* how many rows and edits at once there are and whether prices move, by part

Optional(S) == S \cup {NULL}
Sides    == {"Buy", "Sell"}   \* of the closing order

\* The columns an edit may give.
Columns == [side |-> Sides, qty |-> Nat \ {0}, entry |-> Nat \ {0}, exit |-> Prices,
            closed |-> {Now}, pnl |-> Int]

ASSUME TradesAssumption ==
    /\ Entries \subseteq [side: Sides, qty: Nat \ {0}, entry: Nat \ {0}, opened: Optional(Nat)]
    /\ Prices \subseteq Nat \ {0} /\ Earned \subseteq Int /\ Now \in Nat /\ Dust \in Nat
    /\ \A d \in Edits : DOMAIN d \subseteq DOMAIN Columns /\ \A c \in DOMAIN d : d[c] \in Columns[c]
    /\ TradeBounds \subseteq [rows: Nat, edits: Nat, prices: BOOLEAN]
    /\ NULL \notin Int \cup TradeIds \cup {"OPEN", "CLOSED"}

VARIABLES
    positions,   \* positions of the user, NULL under a key not used
    feed,        \* prices of the symbol in PriceService, by category of ticker
    edit,        \* edits in progress: the row and what will be written
    limits,      \* the bounds of this part of the run
    entered,     \* history: rows whose profit the user entered
    overlapped   \* history: rows two edits wrote that had both read it before

tradesVars == <<positions, feed, edit, limits, entered, overlapped>>

Position == [source: {"bybit", "manual"}, category: {"linear", "spot", "manual"},
             status: {"OPEN", "CLOSED"}, side: Sides, qty: Nat, entry: Nat,
             exit: Optional(Prices), pnl: Optional(Int), opened: Optional(Nat),
             closed: {NULL, Now}]
Unchanged == [c \in {} |-> NULL]
NoEdit    == [id |-> NULL, patch |-> Unchanged]

Rows == {i \in TradeIds : positions[i] # NULL}

TradesTypeOK ==
    /\ DOMAIN positions = TradeIds /\ \A i \in Rows : positions[i] \in Position
    /\ feed \in [{"spot", "linear"} -> Optional(Prices)]
    /\ \A r \in Requests : edit[r].id \in Optional(TradeIds)
    /\ limits \in TradeBounds /\ entered \subseteq Rows /\ overlapped \subseteq Rows

TradesInit ==
    /\ positions = [i \in TradeIds |-> NULL]
    /\ feed = [f \in {"spot", "linear"} |-> NULL]
    /\ edit = [r \in Requests |-> NoEdit]
    /\ limits \in TradeBounds /\ entered = {} /\ overlapped = {}

\* side names the order that closes: a long is closed by a sale.
ComputePnl(side, qty, entry, exit) ==
    IF side = "Sell" THEN (exit - entry) * qty ELSE (entry - exit) * qty

-----------------------------------------------------------------------------
(* Trades entered by hand *)

Unused(i) ==
    /\ positions[i] = NULL /\ \A r \in Requests : edit[r].id # i
    /\ Cardinality(Rows) < limits.rows

Put(i, row) == positions' = [positions EXCEPT ![i] = row]

Opened(source, category, e) ==
    [source |-> source, category |-> category, status |-> "OPEN", side |-> e.side, qty |-> e.qty,
     entry |-> e.entry, exit |-> NULL, pnl |-> NULL, opened |-> e.opened, closed |-> NULL]

\* Exit price and closing time come together or not at all; a profit entered is kept.
AddManualPosition(i, e, exit, pnl) ==
    /\ Unused(i)
    /\ Put(i, IF exit = NULL THEN Opened("manual", "manual", e)
              ELSE [Opened("manual", "manual", e) EXCEPT
                        !.status = "CLOSED", !.exit = exit, !.closed = Now,
                        !.pnl = IF pnl # NULL THEN pnl ELSE ComputePnl(e.side, e.qty, e.entry, exit)])
    /\ entered' = IF exit # NULL /\ pnl # NULL THEN entered \cup {i} ELSE entered
    /\ UNCHANGED <<feed, edit, limits, overlapped>>

\* Some columns are given; the others are as the row has them.
Over(given, row) ==
    [c \in DOMAIN given \cup DOMAIN row |-> IF c \in DOMAIN given THEN given[c] ELSE row[c]]

\* The row as read, with the request's columns.
Resulting(dto, row) == Over(dto, row)

\* Faulty version: only another exit changes the profit.
ExitChanged(dto) == "exit" \in DOMAIN dto
InputsChanged(dto) == {"side", "qty", "entry", "exit"} \cap DOMAIN dto # {}

ClosedPnl(dto, row) ==
    LET result == Resulting(dto, row)
    IN IF result.exit = NULL THEN [pnl |-> NULL]
       ELSE IF "pnl" \in DOMAIN dto THEN [pnl |-> dto.pnl]
       ELSE IF InputsChanged(dto)
            THEN [pnl |-> ComputePnl(result.side, result.qty, result.entry, result.exit)]
       ELSE Unchanged

Closes(dto, row) ==
    IF row.status = "OPEN" /\ Resulting(dto, row).exit # NULL THEN [status |-> "CLOSED"]
    ELSE Unchanged

\* updateManualPosition reads the row; a half-closed trade is refused.
UpdateManualPosition(r, i, dto) ==
    LET row == positions[i]
        result == Resulting(dto, row)
    IN /\ edit[r] = NoEdit /\ Cardinality({q \in Requests : edit[q] # NoEdit}) < limits.edits
       /\ row # NULL /\ row.source = "manual"
       /\ (result.exit = NULL) = (result.closed = NULL)
       /\ edit' = [edit EXCEPT ![r] =
                     [id |-> i, patch |-> Over(ClosedPnl(dto, row), Over(Closes(dto, row), dto))]]
       /\ UNCHANGED <<positions, feed, limits, entered, overlapped>>

\* The profit was entered: the patch has one that does not follow from the row it makes.
EntersPnl(patch, row) ==
    /\ "pnl" \in DOMAIN patch /\ patch.pnl # NULL
    /\ patch.pnl # ComputePnl(row.side, row.qty, row.entry, row.exit)

WritePosition(r) ==
    LET i == edit[r].id
        patch == edit[r].patch
        row == Over(patch, positions[i])
    IN /\ edit[r] # NoEdit /\ positions[i] # NULL
       /\ Put(i, row)
       /\ overlapped' = IF \E q \in Requests \ {r} : edit[q].id = i
                        THEN overlapped \cup {i} ELSE overlapped
       /\ entered' = IF "pnl" \notin DOMAIN patch THEN entered
                     ELSE IF EntersPnl(patch, row) THEN entered \cup {i}
                     ELSE entered \ {i}
       /\ edit' = [edit EXCEPT ![r] = NoEdit]
       /\ UNCHANGED <<feed, limits>>

\* The row is gone when it is to be written, or the process stops.
DropEdit(r) ==
    /\ edit[r] # NoEdit
    /\ edit' = [edit EXCEPT ![r] = NoEdit]
    /\ UNCHANGED <<positions, feed, limits, entered, overlapped>>

RemoveManualPosition(i) ==
    /\ positions[i] # NULL /\ positions[i].source = "manual"
    /\ Put(i, NULL)
    /\ entered' = entered \ {i} /\ overlapped' = overlapped \ {i}
    /\ UNCHANGED <<feed, edit, limits>>

-----------------------------------------------------------------------------
(* What the exchange sync keeps, and the price feeds *)

SyncOpens(i, category, e) ==
    /\ Unused(i) /\ Put(i, Opened("bybit", category, e))
    /\ UNCHANGED <<feed, edit, limits, entered, overlapped>>

\* The exchange reports the profit, fees taken off.
SyncCloses(i, exit, pnl) ==
    /\ positions[i] # NULL /\ positions[i].source = "bybit" /\ positions[i].status = "OPEN"
    /\ Put(i, Over([status |-> "CLOSED", exit |-> exit, closed |-> Now, pnl |-> pnl], positions[i]))
    /\ UNCHANGED <<feed, edit, limits, entered, overlapped>>

\* A failed fetch keeps what there was; the answer need not have the symbol.
FetchPrices(category, price) ==
    /\ limits.prices
    /\ feed' = [feed EXCEPT ![category] = price]
    /\ UNCHANGED <<positions, edit, limits, entered, overlapped>>

TradesNext ==
    \/ \E i \in TradeIds, e \in Entries :
          \/ \E exit \in Optional(Prices), pnl \in Optional(Earned) : AddManualPosition(i, e, exit, pnl)
          \/ \E category \in {"linear", "spot"} : SyncOpens(i, category, e)
    \/ \E i \in TradeIds :
          \/ \E r \in Requests, dto \in Edits : UpdateManualPosition(r, i, dto)
          \/ \E exit \in Prices, pnl \in Earned : SyncCloses(i, exit, pnl)
          \/ RemoveManualPosition(i)
    \/ \E r \in Requests : WritePosition(r) \/ DropEdit(r)
    \/ \E category \in {"linear", "spot"}, price \in Optional(Prices) : FetchPrices(category, price)

TradesSpec == TradesInit /\ [][TradesNext]_tradesVars

-----------------------------------------------------------------------------
(* The list, the totals above it and the curve *)

\* Rows of derivatives have a feed of their own.
PriceFor(row) == IF row.category = "linear" THEN feed["linear"] ELSE feed["spot"]

Unrealized(row) ==
    IF row.status # "OPEN" \/ PriceFor(row) = NULL THEN NULL
    ELSE ComputePnl(row.side, row.qty, row.entry, PriceFor(row))

HasSign(sign, pnl) == pnl # NULL /\ (IF sign = "positive" THEN pnl > 0 ELSE pnl < 0)

Queries == [status: {NULL, "OPEN", "CLOSED"}, pnl: {NULL, "positive", "negative"},
            hideDust: BOOLEAN, from: {NULL, Now}]

\* A row without the date asked about is in no range.
BuildPositionsWhere(q, date) ==
    {i \in Rows : LET row == positions[i]
                  IN /\ q.status \in {NULL, row.status}
                     /\ q.hideDust => row.qty * row.entry >= Dust
                     /\ q.from # NULL => row[date] # NULL /\ row[date] >= q.from}

\* Faulty version: what is still open has no profit to compare.
ClosedOnly(q) == {}
OpenIdsMatchingPnlSign(q) ==
    {i \in BuildPositionsWhere([q EXCEPT !.status = "OPEN"], "opened") :
        HasSign(q.pnl, Unrealized(positions[i]))}

ApplyPnlFilter(q, where) ==
    IF q.pnl = NULL THEN where
    ELSE {i \in where : positions[i].status = "CLOSED" /\ HasSign(q.pnl, positions[i].pnl)}
         \cup (IF q.status = "CLOSED" THEN {} ELSE where \cap OpenIdsMatchingPnlSign(q))

GetPositions(q) == ApplyPnlFilter(q, BuildPositionsWhere(q, "opened"))

SumPnl(S) == MapThenSumSet(LAMBDA i : positions[i].pnl, {i \in S : positions[i].pnl # NULL})

\* The count of wins and losses names a status of its own, which replaces the one asked for
\* unless a sign is asked for too.
GetPositionsSummary(q) ==
    LET where  == GetPositions(q)
        closed == {i \in where : positions[i].status = "CLOSED"}
        counted == IF q.pnl = NULL THEN GetPositions([q EXCEPT !.status = "CLOSED"]) ELSE closed
        wins   == Cardinality({i \in counted : HasSign("positive", positions[i].pnl)})
        losses == Cardinality({i \in counted : HasSign("negative", positions[i].pnl)})
    IN [totalPnl |-> SumPnl(where), openCount |-> Cardinality(where \ closed),
        closedCount |-> Cardinality(closed), winCount |-> wins, lossCount |-> losses,
        breakevenCount |-> Max({Cardinality(closed) - wins - losses, 0})]

\* A curve is drawn by when trades closed, whatever their sign.
GetEquityCurve(q) ==
    {<<i, positions[i].closed, IF positions[i].pnl = NULL THEN 0 ELSE positions[i].pnl>> :
        i \in BuildPositionsWhere([q EXCEPT !.status = "CLOSED"], "closed")}

-----------------------------------------------------------------------------
(* Properties *)

\* A trade is closed exactly when it has an exit, a closing time and a profit, and the profit of
\* one entered by hand is what its columns come to unless the user gave another, in whatever
\* order edits arrive: only where two edits had both read the row before either wrote it may
\* this fail (updateManualPosition's comments, investing.service.ts:529-531, 540-541).
ClosedIsComplete ==
    \A i \in Rows \ overlapped :
        LET row == positions[i]
        IN /\ \A c \in {"exit", "closed", "pnl"} : (row[c] # NULL) = (row.status = "CLOSED")
           /\ row.status = "CLOSED" /\ row.source = "manual" /\ i \notin entered =>
                  row.pnl = ComputePnl(row.side, row.qty, row.entry, row.exit)

\* The totals are those of the list the same filters give, the curve comes to the same profit,
\* and a filter by sign keeps exactly the rows that show a profit of that sign, open ones by
\* the price of the moment (investing.service.ts:281-285, 367-369, 393-395).  Wins and losses
\* are left out where only open trades are asked for: they are then of all closed trades.
TradeFiguresAgree ==
    \A q \in Queries :
        LET list == GetPositions(q)
            summary == GetPositionsSummary(q)
            Shown(i) == IF positions[i].status = "OPEN" THEN Unrealized(positions[i])
                        ELSE positions[i].pnl
            Closed(P(_)) == Cardinality({i \in list : positions[i].status = "CLOSED" /\ P(positions[i].pnl)})
        IN /\ summary.openCount + summary.closedCount = Cardinality(list)
           /\ summary.totalPnl = SumPnl(list)
           /\ q.pnl # NULL =>
                list = {i \in GetPositions([q EXCEPT !.pnl = NULL]) : HasSign(q.pnl, Shown(i))}
           /\ ~(q.status = "OPEN" /\ q.pnl = NULL) =>
                /\ summary.winCount  = Closed(LAMBDA p : HasSign("positive", p))
                /\ summary.lossCount = Closed(LAMBDA p : HasSign("negative", p))
                /\ summary.breakevenCount = Closed(LAMBDA p : p \in {0, NULL})
           /\ q = [q EXCEPT !.status = "CLOSED", !.pnl = NULL, !.from = NULL] =>
                summary.totalPnl = MapThenSumSet(LAMBDA point : point[3], GetEquityCurve(q))
=============================================================================
