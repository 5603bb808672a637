SPECIFICATION Spec
CONSTANTS
    Items = {"a", "b", "f", "u"}
    Dirs = {"a", "b"}
    Root = "root"
    Home <- Trees
    Places <- Destinations
    May <- Users
    Uploads = {"u"}
    MaxLog = 4
    MaxFaults = 1
    Faults = {"request", "db", "stop", "crash", "abort"}
    Races = {}
INVARIANTS
    ChildrenAreInverse
    
PROPERTY
    EventuallyTheDrive
CHECK_DEADLOCK FALSE
