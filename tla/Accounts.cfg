\* Two addresses, one of them Google's, one Telegram identity and two requests at once.
CONSTANTS
    Users = {u1, u2}
    e1 = e1
    e2 = e2
    g1 = g1
    Emails = {e1, e2}
    Googles = {g1}
    Telegrams = {t1}
    GoogleEmail <- MCGoogleEmail
    Requests = {r1, r2}
    LinkTTL = 0
    SessionTTL = 0
    AccountTTL = 0
    MaxTime = 1
    Bounds <- MCBounds
    NULL = NULL
    gone = gone
SPECIFICATION MCSpec
SYMMETRY MCSymmetry
INVARIANTS TypeOK VerifiedIsProved AlwaysConfirmable LogoutEnds
