SPECIFICATION FairSpec
CONSTANTS
    w1 = w1
    w2 = w2
    j1 = j1
    NoJob = NoJob
    Worker = {w1, w2}
    Job = {j1}
    MaxJobs = 0
    Undecodable = {}
    EngineSkipsLocked = TRUE
    RequestedAttempts = {3}
    Budget <- CrashesAndStops
PROPERTIES
    StoredJobsSurviveCrash
CHECK_DEADLOCK FALSE
