SPECIFICATION Spec
CONSTANTS
    u1 = u1
    t1 = t1
    t2 = t2
    r1 = r1
    r2 = r2
    r3 = r3
    None = None
    User = {u1}
    Token = {t1, t2}
    Request = {r1, r2, r3}
    MaxFaults = 1
SYMMETRY Symmetry
INVARIANTS
    TypeOK
    AfterLogoutOnlyByOverlap
    AfterBlockOnlyByOverlap
    OrphansCostFaults
