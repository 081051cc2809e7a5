\* The same with one trade closed in two parts: what gets into the diary in the end.
CONSTANTS
    Trades = {a}
    Orders = {o1, o2}
    RowIds = {i1, i2, i3}
    Notes = {}
    Runs = {r1}
    Window = 3
    Overlap = 2
    Lateness = 2
    MaxTime = 3
    NULL = NULL
SPECIFICATION FairSpec
PROPERTIES ClosingsRecorded
