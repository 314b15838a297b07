CONSTANTS
    Paths = {a, b}
    VfsMaxNodes = 2
    FdMax = 2
    FileMax = 2
    PipeMax = 2
    Cap = 2
    OffsetMod = 4
    Seeks = {1, 4}
    LibPaths = {c, d}
    ShlibMax = 3
    ModuleMax = 1
    MaxLoads = 4
    MaxOpens = 2
    MaxAs = 2
    MaxMappings = 2
    LastPage = 3
    Frames = {0}
    Flags = {1}
    PageSize = 2
    PmmMaxPages = 4
    MemoryMaps <- MCMemoryMaps
    Regions <- MCRegions
SYMMETRY MCSymmetry
SPECIFICATION MCSpec
INVARIANTS ReservedNotGiven
