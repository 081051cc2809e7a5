\* One currency beside the dollar over two days, two operations; four spot fills, or three with
\* fees; five derivative fills; two rows of each kind on two venues, one goal;
\* two trades, or one trade and two edits of it at once.
CONSTANTS
    Currencies = {c1}
    usd = usd
    Quotes = {1, 2}
    Amount = 2
    Amounts = {2}
    Week = 2
    TTL = 1
    MaxTime = 2
    Ids = {x1, x2}
    Quantities = {1, 2}
    Fees = {0, 1}
    Bounds <- MCBounds
    Venues = {v1, v2}
    GoalIn = c1
    RowIds = {k1, k2}
    TradeIds = {k1, k2}
    Requests = {r1, r2}
    Entries <- MCEntries
    Edits <- MCEdits
    Prices = {1, 2}
    Earned <- MCEarned
    Now = 2
    Dust = 2
    TradeBounds <- MCTradeBounds
    NULL = NULL
SPECIFICATION MCSpec
SYMMETRY MCSymmetry
INVARIANTS ReportsAgree GroupedAgree DiaryMatchesFills OpenedSinceFlat NetWorthKept ClosedIsComplete TradeFiguresAgree
PROPERTIES ClosedPeriodsStay
CHECK_DEADLOCK FALSE
