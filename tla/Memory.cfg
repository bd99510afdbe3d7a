CONSTANTS
    NUM_FRAMES = 11
    NUM_PAGES = 8
    PAGES_PER_TABLE = 4
    SegmentPages = {0}
    StackPages = {7}
    StackStart = 7
    MAX_ADDR = 4
    MAX_SHM_REGIONS = 1
    MaxPid = 2
    MaxShmId = 2
    MaxRefs = 2
    MaxBreak = 4
    Mappers = {1}
    Increments = {1}
    MmapHints = {2}
    MapSizes = {1, 2}
    ShmSizes = {1}
    UnmapAt = {2}
    ShmAt = {4}
    DeviceAt = {5}
    PhysicalAt = {11}
    PhysicalSizes = {2}

SPECIFICATION Spec

INVARIANTS
    TypeOK
    OneUse
    PagesCovered
    HeapBacked

PROPERTIES
    FreshPages
    OwnedRegionStays
