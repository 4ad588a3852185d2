SPECIFICATION Spec
CONSTANTS
    None = None
    r1 = r1
    r2 = r2
    r3 = r3
    r4 = r4
    b = b
    root = root
    other = other
    p1 = p1
    p2 = p2
    User = {root, other}
    Browser = {b}
    Role = {"admin", "manager"}
    Password = {p1, p2}
    Request <- Requests
    default = p1
    SeedGrants <- Grants
    Wish <- AllWishes
    InitialTables <- Installations
    MaxFaults = 1
SYMMETRY Symmetry
CHECK_DEADLOCK FALSE
INVARIANTS
    TypeOK
    RevocationIsFinal
    BlockedOnlyByOldSession
    OldPasswordOnlyByOverlap
    RoleClashOnlyByOverlap
PROPERTIES
    SeedRestoresAdmin
