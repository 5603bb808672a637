CONSTANTS
    Starts <- WholeStarts
    Names = {1, 2, 3}
    May <- BusyUsers
    Faults <- NoFault
    MaxChanges = 1
    MaxEvents = 2
    MaxFaults = 0
SPECIFICATION Spec
INVARIANT SnapshotIsTheDisk
