SPECIFICATION Spec
CONSTANTS
    MaxPages = 7
    PageSize = 2
    MaxEntries = 3
    MemoryMaps <- MCKernelMaps
    MaxRun = 3
INVARIANTS
    KernelImageKept
CHECK_DEADLOCK FALSE
