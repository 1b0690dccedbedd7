SPECIFICATION LiveSpec
CONSTANTS
    c1 = c1
    Clients = {c1}
    Dirs <- MCDirs
    Names = {"up_c1", "a"}
    uploadName <- MCUpload
    Seeded <- MCSeeded
    Asks <- MCAsks
    BrowseSteps = 2
    MaxTransfers = 1
    MaxDrops = 1
    MaxOutages = 1
PROPERTIES
    ReopensAlways
