\* A run copying orders, with others beside it, of an account that may be left.
CONSTANTS
    Orders = {o1}
    Venues = {v1, v2}
    Behind = 1
    FreshForTab = 0
    FreshForCron = 0
    MaxTime = 2
    NULL = NULL
SPECIFICATION FairSpec
INVARIANTS TypeOK CopyFollows OrderRecordedOnce
PROPERTIES AutoRecorded
