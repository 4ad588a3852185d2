SPECIFICATION Spec
CONSTANTS
    w1 = w1
    w2 = w2
    j1 = j1
    j2 = j2
    j3 = j3
    NoJob = NoJob
    Worker = {w1, w2}
    Job = {j1, j2, j3}
    MaxJobs = 0
    Undecodable = {j3}
    EngineSkipsLocked = TRUE
    RequestedAttempts = {2}
    Budget <- OneFault
SYMMETRY DecodableSymmetry
VIEW CountersHidden
INVARIANTS
    ExclusiveDelivery
    AttemptsWithinLimit
    FailedOnlyWhenExhausted
    StrandedOnlyByFaults
    RepeatsCostFaults
    TrailIsSound
    TrailIsComplete
    PoisonIsInert
PROPERTIES
    FailedIsFinal
    DoneIsFinal
    LineIsKept
CHECK_DEADLOCK FALSE
