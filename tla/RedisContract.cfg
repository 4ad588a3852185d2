SPECIFICATION Spec
CONSTANTS
    w1 = w1
    w2 = w2
    j1 = j1
    j2 = j2
    NoJob = NoJob
    Worker = {w1, w2}
    Job = {j1, j2}
    MaxJobs = 1
    Undecodable = {j2}
    ZaddReadsScoreFirst = FALSE
    RequestedAttempts <- BoundaryAttempts
    Budget <- OutsideEntries
INVARIANTS
    TypeOK
    LossesAreCounted
PROPERTIES
    ImplementsContract
