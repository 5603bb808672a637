SPECIFICATION FairSpec
CONSTANTS
    NbOps = 3
    AsyncOps = {2, 3}
    ParentOp <- FilesInDirectory
    Jobs = {11, 12, 13, 14}
    MaxManaged = 1
    Outcomes = {"done", "skipped", "restart", "error"}
    MaxPauses = 1
INVARIANTS
    NoOpForgotten
    NoOpTwice
    OngoingJobsAnswer
    ParentOpFirst
    
PROPERTIES
    ExecutionEnds
