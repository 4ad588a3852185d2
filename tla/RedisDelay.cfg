SPECIFICATION Spec
CONSTANTS
    w1 = w1
    w2 = w2
    j1 = j1
    NoJob = NoJob
    Worker = {w1, w2}
    Job = {j1}
    MaxJobs = 0
    Undecodable = {}
    ZaddReadsScoreFirst = FALSE
    RequestedAttempts = {3}
    Budget <- NoDisturbance
INVARIANTS
    LostOnlyByFaults
