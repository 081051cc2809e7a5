\* One run at a time on one symbol, two trades one after the other.
CONSTANTS
    Trades = {a, b}
    Orders = {o1, o2}
    RowIds = {i1, i2, i3}
    Notes = {n1}
    Runs = {r1}
    Window = 3
    Overlap = 2
    Lateness = 2
    MaxTime = 4
    NULL = NULL
SPECIFICATION Spec
SYMMETRY MCSymmetry
INVARIANTS TypeOK NothingSkipped OneOpenRow AnnouncedOnce
PROPERTIES KeepsBook
