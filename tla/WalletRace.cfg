\* Two handlers at once answering, editing and deleting around one movement.
CONSTANTS
    TransferIds = {t1}
    TxnIds = {x1, x2, x3}
    IncomeCats = {salary}
    ExpenseCats = {fees}
    usd = usd
    eur = eur
    Money = {usd, eur}
    ToUsd <- MCToUsd
    Venues = {bybit}
    LiveVenues = {bybit}
    Slots = {s1}
    ManualCoins = {0}
    ImportCoins = {1}
    MaxHeld = 0
    Requests = {r1, r2}
    NULL = NULL
SPECIFICATION Spec
SYMMETRY MCRaceSymmetry
INVARIANTS AnswersHold HandlersHold OpenAtFaceValue
PROPERTIES LinkEndsInReview
