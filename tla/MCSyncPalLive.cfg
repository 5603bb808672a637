SPECIFICATION FairSpec
CONSTANTS
    FlakySides = {}
    WorkerErrors = {"DataError", "DbError"}
    MaxFaults = 0
    MaxStarts = 1
    SlowToEnd = {"compute"}
PROPERTIES
    
    RestartIsHonoured
    
CHECK_DEADLOCK FALSE
