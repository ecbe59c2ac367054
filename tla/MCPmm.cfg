SPECIFICATION Spec
CONSTANTS
    MaxPages = 9
    PageSize = 2
    MaxEntries = 3
    MemoryMaps <- MCMaps
    MaxRun = 3
INVARIANTS
    BitmapExact
    CountersExact
    MissesOnlyStraddling
PROPERTIES
    Refinement
CHECK_DEADLOCK FALSE
