SPECIFICATION Spec
CONSTANTS
    MaxWindows = 2
    QueueSlots = 3
    Canvas = {c1, c2}
    NoCanvas = NoCanvas
SYMMETRY CanvasSymmetry
INVARIANTS
    CanvasesExact
    FrontExact
    GesturesEnd
PROPERTIES
    Refinement
