CONSTANTS
    MaxJobs = 3
    Capacity = 2
    UploadSessionShare = 2
    UploadSessions <- MCUploadSessions
    Priorities = {0, 1}
    StartFailures <- MCFailure
SPECIFICATION FairSpec
INVARIANTS
    BookkeepingConsistent
PROPERTIES
    ImplementsService
    EveryJobIsAnswered
    EveryJobIsForgotten
CHECK_DEADLOCK FALSE
