SPECIFICATION Spec
CONSTANTS
    u1 = u1
    t1 = t1
    r1 = r1
    r2 = r2
    None = None
    User = {u1}
    Token = {t1}
    Request = {r1, r2}
    MaxFaults = 0
SYMMETRY Symmetry
INVARIANT
    NoUseAfterLogout
