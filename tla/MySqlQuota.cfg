SPECIFICATION FairSpec
CONSTANTS
    w1 = w1
    j1 = j1
    NoJob = NoJob
    Worker = {w1}
    Job = {j1}
    MaxJobs = 1
    Undecodable = {}
    EngineSkipsLocked = TRUE
    RequestedAttempts = {1}
    Budget <- NoDisturbance
PROPERTIES
    QuotaEndsProcess
CHECK_DEADLOCK FALSE
