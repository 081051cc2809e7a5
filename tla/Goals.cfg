\* One goal, two handlers at once: what the checks enforce and what completing it promises.
CONSTANTS
    GoalIds = {g1}
    ContribIds = {k1, k2}
    Targets = {1, 2}
    Amounts <- MCAmounts
    Requests = {r1, r2}
    NULL = NULL
SPECIFICATION Spec
SYMMETRY MCSymmetry
INVARIANTS TypeOK RangeEnforced CompletedIsNotified
CHECK_DEADLOCK FALSE
