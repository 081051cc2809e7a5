\* Coins on two manual venues beside the connected exchange; no incomes or expenses.
CONSTANTS
    TransferIds = {t1, t2}
    TxnIds = {}
    IncomeCats = {}
    ExpenseCats = {}
    usd = usd
    eur = eur
    Money = {usd}
    ToUsd <- MCToUsd
    Venues = {bybit, cold, card}
    LiveVenues = {bybit}
    Slots = {s1, s2}
    ManualCoins = {1}
    ImportCoins = {1}
    MaxHeld = 1
    Requests = {r1}
    NULL = NULL
SPECIFICATION Spec
SYMMETRY MCCoinSymmetry
INVARIANTS CoinsNeverLost
