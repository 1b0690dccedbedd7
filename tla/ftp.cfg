SPECIFICATION LiveSpec
CONSTANTS
    c1 = c1
    c2 = c2
    Clients = {c1, c2}
    Dirs <- MCDirs
    Names = {"up_c1", "up_c2", "a"}
    uploadName <- MCUpload
    Seeded <- MCSeeded
    Asks <- MCAsks
    BrowseSteps = 1
    MaxTransfers = 1
    MaxDrops = 1
    MaxOutages = 1
INVARIANTS
    StoredOnce
    ReachesTheChosen
PROPERTIES
    OnlyUploadsReplace
    Reopens
