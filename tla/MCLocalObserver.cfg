CONSTANTS
    Starts <- BothStarts
    Names = {1, 2}
    May <- QuietUsers
    Faults <- AnyFault
    MaxChanges = 2
    MaxEvents = 2
    MaxFaults = 1
SPECIFICATION Spec
INVARIANTS  NoHalfSnapshotIsUsed
PROPERTY EventuallyTheDisk
