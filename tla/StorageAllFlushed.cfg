CONSTANTS
    Names = {"SHELL", "A", "B"}
    Short <- MCShort
    StartsWith <- MCStartsWith
    Blocks = {"x", "y"}
    NoBlock = NoBlock
    HasDisk = TRUE
    ROOT_ENTRIES = 3
    SECTOR_ENTRIES = 2
    DELETE_SCAN = 3
    USER_CLUSTER = 3
    INSTALL_LIMIT = 4
    VolumeDir <- MCVolumeDir
    VolumeData <- MCVolumeData
    Procs = {1}
    Fds = {3}
    MaxLen = 1
    MaxFaults = 0
    NoFile = NoFile
    Untouched = Untouched

SPECIFICATION Spec

INVARIANT
    AllFlushed
