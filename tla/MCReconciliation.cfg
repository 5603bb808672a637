CONSTANTS
    Starts <- QuietStarts
    MaxId = 12
    LocalChanges = 2
    RemoteChanges = 2
    AllChanges = 2
SPECIFICATION Spec
INVARIANTS TypeOK  WaitsForEarlier 
 
