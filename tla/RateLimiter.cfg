SPECIFICATION Spec
CONSTANTS
    c1 = c1
    r1 = r1
    r2 = r2
    r3 = r3
    r4 = r4
    None = None
    Client = {c1}
    Request = {r1, r2, r3, r4}
    Limit = 2
    Window = 2
    MaxTime = 4
    MaxFaults = 1
SYMMETRY Symmetry
INVARIANTS
    TypeOK
    WindowKeepsLimit
    RefusedOnlyWhenFull
    LeaksCostFaults
CHECK_DEADLOCK FALSE
