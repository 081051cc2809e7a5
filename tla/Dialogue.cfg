\* Two categories of expenses and one of incomes; two messages or requests at once. The user
\* may leave it at that, so the system may stop.
CONSTANTS
    c1 = c1
    c2 = c2
    c3 = c3
    Cats = {c1, c2, c3}
    KindOf <- MCKindOf
    Amounts = {x1, x2}
    Names = {n1, n2}
    other = other
    Requests = {r1, r2}
    Bounds <- MCBounds
    NULL = NULL
CHECK_DEADLOCK FALSE
SPECIFICATION Spec
SYMMETRY MCSymmetry
INVARIANT MergeFollowed
PROPERTY RecordedAsEntered
