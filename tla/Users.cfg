SPECIFICATION Spec
CONSTANTS
    u1 = u1
    u2 = u2
    e1 = e1
    e2 = e2
    r1 = r1
    r2 = r2
    r3 = r3
    None = None
    User = {u1, u2}
    Email = {e1, e2}
    Request = {r1, r2, r3}
    Wish <- AllWishes
    InitialUsers <- OneUser
    MaxFaults = 1
SYMMETRY Symmetry
INVARIANTS
    TypeOK
    LostOnlyByOverlap
    ClashOnlyByOverlap
    ErrorsAreClean
    SuccessTookEffect
CHECK_DEADLOCK FALSE
