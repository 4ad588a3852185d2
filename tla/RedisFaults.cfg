SPECIFICATION FairSpec
CONSTANTS
    w1 = w1
    w2 = w2
    j1 = j1
    j2 = j2
    NoJob = NoJob
    Worker = {w1, w2}
    Job = {j1, j2}
    MaxJobs = 0
    Undecodable = {}
    ZaddReadsScoreFirst = TRUE
    RequestedAttempts = {2}
    Budget <- OneFault
INVARIANTS
    AtMostOneCopy
    RepeatsCostAudit
PROPERTIES
    EveryJobSettles
