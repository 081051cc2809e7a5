\* Answers, incomes, expenses and categories; no coins are tracked.
CONSTANTS
    TransferIds = {t1, t2}
    TxnIds = {x1, x2}
    IncomeCats = {salary, gifts}
    ExpenseCats = {fees}
    usd = usd
    eur = eur
    Money = {usd, eur}
    ToUsd <- MCToUsd
    Venues = {bybit}
    LiveVenues = {bybit}
    Slots = {s1}
    ManualCoins = {0}
    ImportCoins = {1}
    MaxHeld = 0
    Requests = {r1}
    NULL = NULL
SPECIFICATION Spec
SYMMETRY MCSymmetry
INVARIANTS TypeOK NetsToZero
