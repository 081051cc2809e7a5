\* Two users, two plans, two creations and two administrators' requests at once, in the two parts
\* of MCPlans.
CONSTANTS
    PlanIds = {p1, p2}
    free = free
    Names = {free, pro}
    Limits = {1, NULL}
    Kinds = {"transaction"}
    u1 = u1
    a1 = a1
    Users = {u1, u2}
    Creations = {r1, r2}
    Administrators = {a1, a2}
    MaxTime = 1
    MaxRows = 3
    NULL = NULL
SPECIFICATION MCSpec
SYMMETRY MCSymmetry
INVARIANTS PlansTypeOK EveryoneResolves LimitOvershoot
