SPECIFICATION Spec
CONSTANTS
    FlakySides = {"remote"}
    WorkerErrors = {"NetworkError", "DataError", "DbError", "DiskFull", "InvalidToken"}
    MaxFaults = 1
    MaxStarts = 2
    SlowToEnd = {}
INVARIANTS
    OneStepAtATime
    
    NoStaleOperations
    

    
CHECK_DEADLOCK FALSE
