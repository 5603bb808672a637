SPECIFICATION Spec
CONSTANTS
    Items = {"u", "v"}
    Dirs = {}
    Root = "root"
    Home <- NoTrees
    Places <- UnderRoot
    May <- Nobody
    Uploads = {"u", "v"}
    MaxLog = 2
    MaxFaults = 0
    Faults = {}
    Races = {}
PROPERTY NoFalseDeletion
CHECK_DEADLOCK FALSE
