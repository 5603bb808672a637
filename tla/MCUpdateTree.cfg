CONSTANTS
    Starts <- QuietFirst
    Changes <- QuietNext
    Rows <- Base
    MaxCycles = 2
    FirstChanges = 2
    AloneChanges = 2
    NextChanges = 1
SPECIFICATION Spec
INVARIANTS TypeOK NodesAreTheTree 
PROPERTY EveryTreeIsMade
