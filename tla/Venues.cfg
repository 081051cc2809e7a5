\* A sync, with others beside it, of an account that may be disconnected and connected again.
CONSTANTS
    Movements = {m1}
    Venues = {v1, v2}
    Window = 1
    Overlap = 2
    Lateness = 2
    Softness = 1
    MaxTime = 5
    MaxEvents = 1
    NULL = NULL
SPECIFICATION Spec
SYMMETRY MCSymmetry
INVARIANTS ResultIsTradingOnly NothingMissed RecordedOnce
