CONSTANTS
    Names = {"SHELL", "A"}
    Short <- MCShort
    StartsWith <- MCStartsWith
    Blocks = {"x"}
    NoBlock = NoBlock
    HasDisk = TRUE
    ROOT_ENTRIES = 2
    SECTOR_ENTRIES = 1
    DELETE_SCAN = 2
    USER_CLUSTER = 3
    INSTALL_LIMIT = 4
    VolumeDir <- MCVolumeDir
    VolumeData <- MCVolumeData
    Procs = {1}
    Fds = {3}
    MaxLen = 1
    MaxFaults = 1
    NoFile = NoFile
    Untouched = Untouched

SPECIFICATION Spec

INVARIANTS
    TypeOK
    DirectorySound
    ReadsLastWrite
    ListMatchesRead
    LastFlushDurable
    ErasedStaysAway
