SPECIFICATION Spec
CONSTANTS
    Page <- MCPage
    PageSize = 26
    ArenaMinPages = 1
    ArenaHeader = 2
    HeaderSize = 4
    Align = 2
    Request <- MCRequest
INVARIANTS
    HeapExact
    Coalesced
PROPERTIES
    CopyFits
    Refinement
CHECK_DEADLOCK FALSE
