SPECIFICATION FairSpec
CONSTANTS
    TotalChunks = 4
    Parallel = 2
    MaxFaults = 1
INVARIANTS
    FinishedIsComplete
PROPERTIES
    
    SessionTerminates
    
CHECK_DEADLOCK FALSE
