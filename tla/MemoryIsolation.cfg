CONSTANTS
    NUM_FRAMES = 14
    NUM_PAGES = 7
    PAGES_PER_TABLE = 4
    SegmentPages = {0}
    StackPages = {6}
    StackStart = 6
    MAX_ADDR = 4
    MAX_SHM_REGIONS = 1
    MaxPid = 3
    MaxShmId = 1
    MaxRefs = 2
    MaxBreak = 4
    Mappers = {}
    Increments = {}
    MmapHints = {}
    MapSizes = {1, 2}
    ShmSizes = {1}
    UnmapAt = {}
    ShmAt = {4}
    DeviceAt = {}
    PhysicalAt = {}
    PhysicalSizes = {}

SPECIFICATION Spec

INVARIANT
    Isolated
